------------------------- MODULE SessionClientProofs -------------------------
(***************************************************************************)
(* Proofs about SessionClient, for any tabs, call slots, roles and bounds:  *)
(* type correctness, that no call is carried out twice, and that a tab      *)
(* presents a refresh token it has rotated itself only when the answer of   *)
(* that rotation was lost.                                                  *)
(***************************************************************************)
EXTENDS SessionClient, TLAPS

-----------------------------------------------------------------------------
(* The first invariant, by the parts of the state.  A record of a call or of *)
(* a refresh is good with respect to the tokens that are issued: whatever    *)
(* token it names is one the server has given out, and work is counted only  *)
(* in a call that was served.                                                *)

Cookies == [access : 0..MaxTokens, token : 0..MaxTokens]
Profiles == Roles \cup {NoUser}
Refreshes == [phase : {"idle", "sent", "served"}, token : 0..MaxTokens,
              fresh : BOOLEAN, minted : 0..MaxTokens]
CallRecords == [kind : Kinds, replay : BOOLEAN, ok : BOOLEAN, runs : 0..2,
                phase : {"free", "sent", "served", "awaiting", "threw", "leaving"},
                access : 0..MaxTokens, who : Roles \cup {NoUser}]

Known(k, given) == k # 0 => given[k] # 0

GoodCall(c, given) ==
  /\ c \in CallRecords /\ Known(c.access, given)
  /\ c.runs <= 1
  /\ c.phase \in {"sent", "awaiting"} => c.runs = 0
  /\ c.phase = "served" /\ ~c.ok => c.runs = 0

GoodRefresh(r, given) ==
  /\ r \in Refreshes /\ Known(r.token, given) /\ Known(r.minted, given)
  /\ r.minted # 0 => r.phase = "served"
  /\ r.phase = "idle" => r.token = 0

TabTypes == /\ page \in [Tabs -> Pages] /\ user \in [Tabs -> Profiles]
            /\ loading \in [Tabs -> BOOLEAN] /\ shown \in [Tabs -> Views]
BrowserSound == /\ jar \in Cookies /\ stored \in Profiles
                /\ Known(jar.access, issued) /\ Known(jar.token, issued)
ServerTypes == /\ issued \in [Tokens -> 0..MaxTokens]
               /\ revoked \subseteq Tokens /\ expired \subseteq Tokens
               /\ ended \subseteq Tokens /\ holder \in [Tokens -> Profiles]
HistorySound == /\ rotatedFor \in [Tokens -> SUBSET Tabs] /\ replayed \subseteq Tokens
                /\ orphaned \subseteq Tokens
                /\ lost \in 0..MaxLost /\ reloads \in 0..MaxReloads
                /\ \A k \in Tokens : rotatedFor[k] # {} => issued[k] # 0
RefreshSound == /\ refresh \in [Tabs -> Refreshes]
                /\ \A t \in Tabs : GoodRefresh(refresh[t], issued)
CallsSound == /\ DOMAIN calls = Tabs
              /\ \A t \in Tabs : /\ calls[t] \in [SlotsOf[t] -> CallRecords]
                                 /\ \A s \in SlotsOf[t] : GoodCall(calls[t][s], issued)

Sound == /\ TabTypes /\ BrowserSound /\ ServerTypes /\ HistorySound
         /\ RefreshSound /\ CallsSound

LEMMA SoundIsConsistent == Sound => Consistent
BY DEF Sound, Consistent, TypeOK, CarriedOutOnce, TabTypes, BrowserSound, ServerTypes,
       HistorySound, RefreshSound, CallsSound, GoodCall, Cookies, Profiles, Refreshes,
       CallRecords

\* The numbers of tokens: every one but 0 is a token.
LEMMA TokenRange ==
  /\ 0 \in 0..MaxTokens /\ Tokens \subseteq 0..MaxTokens
  /\ \A k \in 0..MaxTokens : k # 0 => k \in Tokens
  /\ \A k \in Tokens : k # 0
BY BoundsAssumption DEF Tokens

\* Tokens that are issued stay issued.
Grows == \A k \in Tokens : issued[k] # 0 => issued'[k] # 0

LEMMA GrowthKeeps ==
  ASSUME Grows
  PROVE  /\ \A c : GoodCall(c, issued) => GoodCall(c, issued')
         /\ \A r : GoodRefresh(r, issued) => GoodRefresh(r, issued')
         /\ BrowserSound /\ UNCHANGED browser => BrowserSound'
<1>1. \A k \in 0..MaxTokens : Known(k, issued) => Known(k, issued')
  BY TokenRange DEF Grows, Known
<1>2. ASSUME NEW c, GoodCall(c, issued)
      PROVE  GoodCall(c, issued')
  BY <1>1, <1>2 DEF GoodCall, CallRecords
<1>3. ASSUME NEW r, GoodRefresh(r, issued)
      PROVE  GoodRefresh(r, issued')
  BY <1>1, <1>3 DEF GoodRefresh, Refreshes
<1>4. BrowserSound /\ UNCHANGED browser => BrowserSound'
  BY <1>1 DEF BrowserSound, Cookies, browser
<1>5. QED
  BY <1>2, <1>3, <1>4

LEMMA NewRecords ==
  ASSUME Sound, NEW kind \in Kinds, NEW who \in Profiles, NEW again \in BOOLEAN
  PROVE  /\ GoodCall(NoCall, issued) /\ GoodRefresh(NoRefresh, issued)
         /\ GoodCall(Send(kind, who, again), issued)
BY TokenRange DEF NoCall, NoRefresh, CallRecords, Refreshes, Kinds, Profiles, Send,
   Sound, BrowserSound, Cookies, GoodCall, GoodRefresh, Known

\* The calls of one tab change, to good ones.
LEMMA TabCallsSound ==
  ASSUME CallsSound, Grows, NEW t \in Tabs, NEW f, f \in [SlotsOf[t] -> CallRecords],
         \A s \in SlotsOf[t] : GoodCall(f[s], issued'),
         calls' = [calls EXCEPT ![t] = f]
  PROVE  CallsSound'
BY GrowthKeeps DEF CallsSound

\* One call changes, to a good one.
LEMMA OneCallSound ==
  ASSUME CallsSound, Grows, NEW t \in Tabs, NEW s \in SlotsOf[t],
         NEW c, GoodCall(c, issued'),
         calls' = [calls EXCEPT ![t] = [calls[t] EXCEPT ![s] = c]]
  PROVE  CallsSound'
<1>1. c \in CallRecords
  BY DEF GoodCall
<1>2. [calls[t] EXCEPT ![s] = c] \in [SlotsOf[t] -> CallRecords]
  BY <1>1 DEF CallsSound
<1>3. \A r \in SlotsOf[t] : GoodCall([calls[t] EXCEPT ![s] = c][r], issued')
  BY GrowthKeeps DEF CallsSound
<1>4. QED
  BY <1>2, <1>3, TabCallsSound

\* The refresh of one tab changes, to a good one.
LEMMA OneRefreshSound ==
  ASSUME RefreshSound, Grows, NEW t \in Tabs, NEW r, GoodRefresh(r, issued'),
         refresh' = [refresh EXCEPT ![t] = r]
  PROVE  RefreshSound'
BY GrowthKeeps DEF RefreshSound, GoodRefresh

\* A page is torn down and mounted anew.
LEMMA MountSound ==
  ASSUME Sound, NEW t \in Tabs, NEW target \in Pages, NEW view \in Views,
         NEW cookies \in Cookies, NEW profile \in Profiles,
         Known(cookies.access, issued), UNCHANGED issued,
         Mount(t, target, view, cookies, profile)
  PROVE  TabTypes' /\ RefreshSound' /\ CallsSound' /\ orphaned' \subseteq Tokens
<1> DEFINE mine == [Send("me", NoUser, FALSE) EXCEPT !.access = cookies.access]
           f == [s \in SlotsOf[t] |-> IF s = First THEN mine ELSE NoCall]
<1>1. TabTypes'
  BY DEF Mount, TabTypes, Sound
<1>2. orphaned' \subseteq Tokens
  BY TokenRange DEF Mount, Abandoned, Sound, HistorySound, RefreshSound, Refreshes
<1>3. Grows
  BY DEF Grows
<1>4. GoodCall(Send("me", NoUser, FALSE), issued) /\ Send("me", NoUser, FALSE).phase = "sent"
  BY NewRecords DEF Kinds, Profiles, Send
<1>5. GoodCall(mine, issued)
  BY <1>4 DEF GoodCall, CallRecords, Cookies
<1>6. GoodCall(NoCall, issued) /\ GoodRefresh(NoRefresh, issued)
  BY NewRecords DEF Kinds, Profiles
<1>7. RefreshSound'
  BY <1>3, <1>6, OneRefreshSound DEF Mount, Sound
<1>8. f \in [SlotsOf[t] -> CallRecords] /\ \A s \in SlotsOf[t] : GoodCall(f[s], issued')
  BY <1>5, <1>6 DEF GoodCall
<1>9. calls' = [calls EXCEPT ![t] = f]
  BY DEF Mount
<1>10. CallsSound'
  BY <1>3, <1>8, <1>9, TabCallsSound DEF Sound
<1>11. QED
  BY <1>1, <1>2, <1>7, <1>10

-----------------------------------------------------------------------------
(* The first invariant is kept, action by action.                          *)

\* What the rest of the state amounts to when the server's part is left alone.
LEMMA QuietServer ==
  ASSUME Sound, UNCHANGED <<server, rotatedFor>>, replayed' \subseteq Tokens,
         orphaned' \subseteq Tokens, lost' \in 0..MaxLost, reloads' \in 0..MaxReloads
  PROVE  ServerTypes' /\ HistorySound' /\ Grows
BY DEF Sound, server, ServerTypes, HistorySound, Grows

\* A served call, from its fields.
LEMMA ServedCall ==
  ASSUME NEW c \in CallRecords, NEW ok \in BOOLEAN, NEW a \in 0..MaxTokens,
         NEW w \in Profiles, NEW n \in {0, 1}, NEW given, Known(a, given), ok \/ n = 0,
         NEW d, d = [c EXCEPT !.phase = "served", !.ok = ok, !.access = a,
                              !.who = w, !.runs = n]
  PROVE  GoodCall(d, given)
<1>1. d \in CallRecords
  <2>2. d = [kind |-> c.kind, replay |-> c.replay, ok |-> ok, runs |-> n,
             phase |-> "served", access |-> a, who |-> w]
    BY DEF CallRecords
  <2>3. n \in 0..2 /\ w \in Roles \cup {NoUser}
    BY DEF Profiles
  <2>4. c.kind \in Kinds /\ c.replay \in BOOLEAN
    BY DEF CallRecords
  <2>5. QED
    BY <2>2, <2>3, <2>4 DEF CallRecords
<1>2. d.phase = "served" /\ d.ok = ok /\ d.access = a /\ d.runs = n
  BY DEF CallRecords
<1>3. QED
  BY <1>1, <1>2 DEF GoodCall

\* The server answers a call: it may mint a token or end a session.
LEMMA ServeCallSound ==
  ASSUME Sound, NEW t \in Tabs, NEW s \in SlotsOf[t], ServeCall(t, s)
  PROVE  Sound'
<1> DEFINE c == calls[t][s]
           Answered(ok, a) == [c EXCEPT !.phase = "served", !.ok = ok, !.access = a]
<1>1. c \in CallRecords /\ GoodCall(c, issued) /\ c.runs = 0
  <2>1. GoodCall(c, issued)
    BY DEF Sound, CallsSound
  <2>2. c.phase = "sent"
    BY ZenonT(60) DEF ServeCall
  <2>3. QED
    BY <2>1, <2>2 DEF GoodCall
<1>2. UNCHANGED <<browser, tabVars, refresh, expired, rotatedFor, replayed, orphaned,
                  lost, reloads>>
  BY DEF ServeCall
<1>3. ASSUME Grows, ServerTypes', NEW d, GoodCall(d, issued'),
             calls' = [calls EXCEPT ![t] = [calls[t] EXCEPT ![s] = d]]
      PROVE  Sound'
  <2>1. CallsSound'
    BY <1>3, OneCallSound DEF Sound
  <2>2. BrowserSound'
    BY <1>2, <1>3, GrowthKeeps DEF Sound
  <2>3. RefreshSound'
    BY <1>2, <1>3, GrowthKeeps DEF Sound, RefreshSound
  <2>4. HistorySound' /\ TabTypes'
    BY <1>2, <1>3 DEF Sound, HistorySound, TabTypes, tabVars, Grows
  <2>5. QED
    BY <1>3, <2>1, <2>2, <2>3, <2>4 DEF Sound
<1>4. ASSUME UNCHANGED <<issued, holder>>
      PROVE  Grows
  BY <1>4 DEF Grows
<1>5. ASSUME NEW ok \in BOOLEAN, NEW a \in 0..MaxTokens, NEW given, Known(a, given)
      PROVE  GoodCall(Answered(ok, a), given)
  <2>1. Answered(ok, a) = [c EXCEPT !.phase = "served", !.ok = ok, !.access = a,
                                    !.who = c.who, !.runs = 0]
    BY <1>1 DEF CallRecords
  <2>2. c.who \in Profiles
    BY <1>1 DEF CallRecords, Profiles
  <2> DEFINE d == Answered(ok, a)
             w == c.who
  <2>3. 0 \in {0, 1} /\ d = [c EXCEPT !.phase = "served", !.ok = ok, !.access = a,
                                       !.who = w, !.runs = 0]
    BY <2>1
  <2> HIDE DEF d, w, c
  <2>4. c \in CallRecords /\ w \in Profiles
    BY <1>1, <2>2 DEF c, w
  <2>5. GoodCall(d, given)
    BY <1>5, <2>3, <2>4, ServedCall
  <2>6. QED
    BY <2>5 DEF d
<1>6. ASSUME NEW n \in Tokens, issued[n] = 0, issued' = [issued EXCEPT ![n] = n],
             holder' = [holder EXCEPT ![n] = c.who], UNCHANGED <<revoked, ended>>,
             calls' = [calls EXCEPT ![t][s].phase = "served",
                                    ![t][s].ok = TRUE, ![t][s].access = n]
      PROVE  Sound'
  <2>1. Grows
    BY <1>6, TokenRange DEF Grows, Sound, ServerTypes
  <2>2. ServerTypes'
    BY <1>1, <1>2, <1>6, TokenRange DEF Sound, ServerTypes, CallRecords, Profiles
  <2>3. n \in 0..MaxTokens /\ issued'[n] # 0
    BY <1>6, TokenRange DEF Sound, ServerTypes
  <2>4. GoodCall(Answered(TRUE, n), issued')
    <3> HIDE DEF Answered
    <3>1. QED
      BY <1>5, <2>3 DEF Known
  <2>5. calls' = [calls EXCEPT ![t] = [calls[t] EXCEPT ![s] = Answered(TRUE, n)]]
    BY <1>6
  <2>6. QED
    BY <1>3, <2>1, <2>2, <2>4, <2>5
<1>7. ASSUME NEW ok \in BOOLEAN, UNCHANGED <<issued, holder>>,
             revoked' \subseteq Tokens, ended' \subseteq Tokens,
             calls' = [calls EXCEPT ![t][s].phase = "served",
                                    ![t][s].ok = ok, ![t][s].access = 0]
      PROVE  Sound'
  <2>1. ServerTypes'
    BY <1>2, <1>7 DEF Sound, ServerTypes
  <2>2. GoodCall(Answered(ok, 0), issued')
    <3> HIDE DEF Answered
    <3>1. QED
      BY <1>5, TokenRange DEF Known
  <2>3. calls' = [calls EXCEPT ![t] = [calls[t] EXCEPT ![s] = Answered(ok, 0)]]
    BY <1>7
  <2>4. QED
    BY <1>3, <1>4, <1>7, <2>1, <2>2, <2>3
<1>8. ASSUME NEW a, a = c.access, UNCHANGED <<issued, holder>>,
             IF LiveAccess(a)
             THEN /\ ended' = ended \cup {issued[a]}
                  /\ revoked' = revoked \cup {k \in Tokens : issued[k] = issued[a]}
             ELSE UNCHANGED <<ended, revoked>>
      PROVE  revoked' \subseteq Tokens /\ ended' \subseteq Tokens
  <2>1. a \in 0..MaxTokens /\ (a # 0 => issued[a] # 0)
    BY <1>1, <1>8 DEF GoodCall, CallRecords, Known
  <2>2. a # 0 => issued[a] \in Tokens
    BY <2>1, TokenRange DEF Sound, ServerTypes
  <2>3. revoked \subseteq Tokens /\ ended \subseteq Tokens
    BY DEF Sound, ServerTypes
  <2>4. CASE LiveAccess(a)
    BY <1>8, <2>2, <2>3, <2>4 DEF LiveAccess
  <2>5. CASE ~LiveAccess(a)
    BY <1>8, <2>3, <2>5
  <2>6. QED
    BY <2>4, <2>5
<1>9. ASSUME UNCHANGED <<issued, holder, revoked, ended>>,
             calls' = [calls EXCEPT ![t][s] =
                IF LiveAccess(c.access)
                THEN [c EXCEPT !.phase = "served", !.ok = TRUE, !.access = 0,
                               !.who = IF c.kind = "me"
                                       THEN holder[issued[c.access]] ELSE c.who,
                               !.runs = c.runs + 1]
                ELSE [c EXCEPT !.phase = "served", !.ok = FALSE, !.access = 0]]
      PROVE  Sound'
  <2>1. ServerTypes' /\ Grows
    BY <1>2, <1>4, <1>9 DEF Sound, ServerTypes
  <2>2. CASE LiveAccess(c.access)
    <3> DEFINE w == IF c.kind = "me" THEN holder[issued[c.access]] ELSE c.who
               d == [c EXCEPT !.phase = "served", !.ok = TRUE, !.access = 0,
                              !.who = w, !.runs = c.runs + 1]
    <3>1. c.access \in Tokens /\ issued[c.access] # 0
      BY <1>1, <2>2, TokenRange DEF LiveAccess, GoodCall, CallRecords, Known
    <3>2. issued[c.access] \in Tokens
      BY <3>1, TokenRange DEF Sound, ServerTypes
    <3>3. w \in Profiles
      BY <1>1, <3>2 DEF Sound, ServerTypes, CallRecords, Profiles
    <3>4. c.runs + 1 = 1
      BY <1>1
    <3>5. GoodCall(d, issued')
      <4> HIDE DEF w, c
      <4>1. QED
        BY <1>1, <3>3, <3>4, TokenRange, ServedCall DEF Known
    <3>6. calls' = [calls EXCEPT ![t] = [calls[t] EXCEPT ![s] = d]]
      BY <1>9, <2>2
    <3>7. QED
      BY <1>3, <2>1, <3>5, <3>6
  <2>3. CASE ~LiveAccess(c.access)
    <3>1. GoodCall(Answered(FALSE, 0), issued')
      <4> HIDE DEF Answered
      <4>1. QED
        BY <1>5, TokenRange DEF Known
    <3>2. calls' = [calls EXCEPT ![t] = [calls[t] EXCEPT ![s] = Answered(FALSE, 0)]]
      BY <1>9, <2>3
    <3>3. QED
      BY <1>3, <2>1, <3>1, <3>2
  <2>4. QED
    BY <2>2, <2>3
<1>10. QED
  <2>1. revoked \subseteq Tokens /\ ended \subseteq Tokens
    BY DEF Sound, ServerTypes
  <2>2. QED
    BY <1>6, <1>7, <1>8, <1>9, <2>1 DEF ServeCall

\* The refresh endpoint answers: it may mint a token of the same session.
LEMMA ServeRefreshSound ==
  ASSUME Sound, NEW t \in Tabs, ServeRefresh(t)
  PROVE  Sound'
<1> DEFINE k == refresh[t].token
           r(n) == [refresh[t] EXCEPT !.phase = "served", !.minted = n]
<1>1. refresh[t] \in Refreshes /\ GoodRefresh(refresh[t], issued) /\ refresh[t].minted = 0
  BY DEF ServeRefresh, Sound, RefreshSound, GoodRefresh
<1>2. UNCHANGED <<browser, tabVars, calls, expired, ended, holder, replayed,
                  orphaned, lost, reloads>>
  BY DEF ServeRefresh
<1>3. k \in 0..MaxTokens /\ (k # 0 => k \in Tokens /\ issued[k] # 0)
  BY <1>1, TokenRange DEF GoodRefresh, Refreshes, Known
<1>4. ASSUME Grows, ServerTypes', HistorySound', NEW n \in 0..MaxTokens, Known(n, issued'),
             refresh' = [refresh EXCEPT ![t] = r(n)]
      PROVE  Sound'
  <2>1. r(n) \in Refreshes /\ r(n).token = k /\ r(n).minted = n /\ r(n).phase = "served"
    BY <1>1 DEF Refreshes
  <2>2. Known(k, issued')
    BY <1>3, <1>4 DEF Grows, Known
  <2>3. GoodRefresh(r(n), issued')
    <3> HIDE DEF r
    <3>1. QED
      BY <1>4, <2>1, <2>2 DEF GoodRefresh
  <2>4. RefreshSound'
    BY <1>4, <2>3, OneRefreshSound DEF Sound
  <2>5. BrowserSound'
    BY <1>2, <1>4, GrowthKeeps DEF Sound
  <2>6. CallsSound'
    BY <1>2, <1>4, GrowthKeeps DEF Sound, CallsSound
  <2>7. TabTypes'
    BY <1>2 DEF Sound, TabTypes, tabVars
  <2>8. QED
    BY <1>4, <2>4, <2>5, <2>6, <2>7 DEF Sound
<1>5. ASSUME k # 0, NEW n \in Tokens, issued[n] = 0,
             issued' = [issued EXCEPT ![n] = issued[k]], revoked' = revoked \cup {k},
             refresh' = [refresh EXCEPT ![t].phase = "served", ![t].minted = n],
             rotatedFor' = [rotatedFor EXCEPT ![k] = @ \cup {t}]
      PROVE  Sound'
  <2>1. Grows
    BY <1>3, <1>5 DEF Grows, Sound, ServerTypes
  <2>2. ServerTypes'
    BY <1>2, <1>3, <1>5 DEF Sound, ServerTypes
  <2>3. rotatedFor' \in [Tokens -> SUBSET Tabs]
    BY <1>3, <1>5 DEF Sound, HistorySound
  <2>4. ASSUME NEW m \in Tokens, rotatedFor'[m] # {}
        PROVE  issued'[m] # 0
    BY <1>3, <1>5, <2>1, <2>4 DEF Sound, HistorySound, Grows
  <2>5. HistorySound'
    BY <1>2, <2>3, <2>4 DEF Sound, HistorySound
  <2>6. n \in 0..MaxTokens /\ Known(n, issued')
    BY <1>3, <1>5, TokenRange DEF Known, Sound, ServerTypes
  <2>7. refresh' = [refresh EXCEPT ![t] = r(n)]
    BY <1>5
  <2>8. QED
    BY <1>4, <2>1, <2>2, <2>5, <2>6, <2>7
<1>6. ASSUME NEW dead \in SUBSET Tokens, revoked' = revoked \cup dead,
             refresh' = [refresh EXCEPT ![t].phase = "served"],
             UNCHANGED <<issued, rotatedFor>>
      PROVE  Sound'
  <2>1. Grows /\ ServerTypes' /\ HistorySound'
    BY <1>2, <1>6 DEF Grows, Sound, ServerTypes, HistorySound
  <2>2. r(0) = [refresh[t] EXCEPT !.phase = "served"]
    BY <1>1 DEF Refreshes
  <2>3. refresh' = [refresh EXCEPT ![t] = r(0)]
    BY <1>6, <2>2
  <2>4. QED
    BY <1>4, <2>1, <2>3, TokenRange DEF Known
<1>7. QED
  <2>1. {} \in SUBSET Tokens /\ {n \in Tokens : issued[n] = issued[k]} \in SUBSET Tokens
    OBVIOUS
  <2>2. \/ \E n \in {m \in Tokens : issued[m] = 0} :
              /\ k # 0 /\ issued' = [issued EXCEPT ![n] = issued[k]]
              /\ revoked' = revoked \cup {k}
              /\ refresh' = [refresh EXCEPT ![t].phase = "served", ![t].minted = n]
              /\ rotatedFor' = [rotatedFor EXCEPT ![k] = @ \cup {t}]
        \/ \E dead \in {{}, {n \in Tokens : issued[n] = issued[k]}} :
              /\ revoked' = revoked \cup dead
              /\ refresh' = [refresh EXCEPT ![t].phase = "served"]
              /\ issued' = issued /\ rotatedFor' = rotatedFor
    BY DEF ServeRefresh
  <2>3. QED
    BY <1>5, <1>6, <2>1, <2>2

\* The remaining actions leave the server alone: it is enough to look at the
\* cookies, the tabs, the refreshes and the calls.
LEMMA BrowserStepSound ==
  ASSUME Sound, UNCHANGED <<server, rotatedFor>>,
         replayed' \subseteq Tokens, orphaned' \subseteq Tokens,
         lost' \in 0..MaxLost, reloads' \in 0..MaxReloads,
         BrowserSound', TabTypes', RefreshSound', CallsSound'
  PROVE  Sound'
BY QuietServer DEF Sound

\* The access token runs out.
LEMMA ExpireSound ==
  ASSUME Sound, Expire
  PROVE  Sound'
<1>1. expired' \subseteq Tokens
  BY TokenRange DEF Expire, Sound, ServerTypes, BrowserSound, Cookies
<1>2. UNCHANGED <<browser, tabVars, refresh, calls, issued, revoked, ended,
                  holder, rotatedFor, replayed, orphaned, lost, reloads>>
  BY DEF Expire
<1>3. ServerTypes' /\ HistorySound'
  BY <1>1, <1>2 DEF Sound, ServerTypes, HistorySound
<1>4. TabTypes' /\ BrowserSound'
  BY <1>2 DEF Sound, BrowserSound, TabTypes, browser, tabVars
<1>5. RefreshSound' /\ CallsSound'
  BY <1>2 DEF Sound, RefreshSound, CallsSound
<1>6. QED
  BY <1>3, <1>4, <1>5 DEF Sound

\* The caller gets its answer, or the tab leaves for the login page.
LEMMA SettleSound ==
  ASSUME Sound, NEW t \in Tabs, NEW s \in SlotsOf[t], Settle(t, s), UNCHANGED issued
  PROVE  /\ stored' \in Profiles /\ orphaned' \subseteq Tokens
         /\ TabTypes' /\ RefreshSound' /\ CallsSound'
<1>1. NoUser \in Profiles /\ "login" \in Pages /\ "dashboard" \in Views
  BY ViewsAssumption DEF Profiles, Pages
<1>2. jar \in Cookies /\ Known(jar.access, issued)
  BY DEF Sound, BrowserSound
<1>3. CASE calls[t][s].kind = "logout"
  BY <1>1, <1>2, <1>3, MountSound DEF Settle
<1>4. CASE calls[t][s].kind # "logout"
  <2>1. GoodCall(NoCall, issued')
    BY NewRecords DEF Kinds, Profiles
  <2>2. Grows
    BY DEF Grows
  <2>3. CallsSound'
    <3>1. calls' = [calls EXCEPT ![t] = [calls[t] EXCEPT ![s] = NoCall]]
      BY <1>4 DEF Settle
    <3>2. QED
      BY <2>1, <2>2, <3>1, OneCallSound DEF Sound
  <2>4. UNCHANGED <<stored, page, user, shown, refresh, orphaned>>
    BY <1>4 DEF Settle
  <2>5. TabTypes'
    BY <1>4, <2>4 DEF Settle, TabTypes, Sound
  <2>6. QED
    BY <2>3, <2>4, <2>5 DEF Sound, BrowserSound, HistorySound, RefreshSound
<1>5. QED
  BY <1>3, <1>4

\* The tab goes to the login page because its refresh came to nothing.
LEMMA RedirectSound ==
  ASSUME Sound, NEW t \in Tabs, RedirectToLogin(t), UNCHANGED issued
  PROVE  /\ stored' \in Profiles /\ orphaned' \subseteq Tokens
         /\ TabTypes' /\ RefreshSound' /\ CallsSound'
<1>1. NoUser \in Profiles /\ "login" \in Pages /\ "dashboard" \in Views
  BY ViewsAssumption DEF Profiles, Pages
<1>2. jar \in Cookies /\ Known(jar.access, issued)
  BY DEF Sound, BrowserSound
<1>3. QED
  BY <1>1, <1>2, MountSound DEF RedirectToLogin

\* An answer that is ok reaches its caller.
LEMMA DeliverOkSound ==
  ASSUME Sound, NEW t \in Tabs, NEW s \in SlotsOf[t], DeliverOk(t, s)
  PROVE  Sound'
<1> DEFINE c == calls[t][s]
<1>1. UNCHANGED <<server, rotatedFor, replayed, lost, reloads>> /\ UNCHANGED issued
  BY DEF DeliverOk, server
<1>2. GoodCall(c, issued) /\ c.access \in 0..MaxTokens /\ c.who \in Profiles
      /\ Known(c.access, issued)
  BY DEF Sound, CallsSound, GoodCall, CallRecords, Profiles
<1>3. jar \in Cookies /\ Known(jar.access, issued) /\ stored \in Profiles
  BY DEF Sound, BrowserSound
<1>4. NoUser \in Profiles /\ {"login", "pending"} \subseteq Pages /\ "dashboard" \in Views
  BY ViewsAssumption DEF Profiles, Pages
<1>5. Grows
  BY <1>1 DEF Grows
<1>6. ASSUME calls' = [calls EXCEPT ![t][s] = NoCall]
      PROVE  CallsSound'
  <2>1. GoodCall(NoCall, issued')
    BY <1>1, NewRecords DEF Kinds, Profiles
  <2>2. calls' = [calls EXCEPT ![t] = [calls[t] EXCEPT ![s] = NoCall]]
    BY <1>6
  <2>3. QED
    BY <1>5, <2>1, <2>2, OneCallSound DEF Sound
<1>7. ASSUME TabTypes', RefreshSound', CallsSound', BrowserSound',
             orphaned' \subseteq Tokens
      PROVE  Sound'
  BY <1>1, <1>7, BrowserStepSound DEF Sound, HistorySound
<1>8. ASSUME user' = [user EXCEPT ![t] = c.who], loading' = [loading EXCEPT ![t] = FALSE],
             UNCHANGED <<page, shown>>
      PROVE  TabTypes'
  BY <1>2, <1>8 DEF TabTypes, Sound
<1>9. ASSUME UNCHANGED <<refresh, orphaned>>
      PROVE  RefreshSound' /\ orphaned' \subseteq Tokens
  BY <1>1, <1>9 DEF RefreshSound, HistorySound, Sound
<1>10. CASE c.kind = "me"
  <2>1. /\ stored' = c.who /\ user' = [user EXCEPT ![t] = c.who]
        /\ loading' = [loading EXCEPT ![t] = FALSE]
        /\ calls' = [calls EXCEPT ![t][s] = NoCall]
        /\ UNCHANGED <<jar, page, shown, refresh, orphaned>>
    BY <1>10 DEF DeliverOk
  <2>2. BrowserSound'
    BY <1>1, <1>2, <2>1 DEF BrowserSound, Sound
  <2>3. QED
    BY <1>6, <1>7, <1>8, <1>9, <2>1, <2>2
<1>11. CASE c.kind = "login"
  <2>1. /\ jar' = [access |-> c.access, token |-> c.access]
        /\ stored' = c.who /\ user' = [user EXCEPT ![t] = c.who]
        /\ loading' = [loading EXCEPT ![t] = FALSE]
        /\ calls' = [calls EXCEPT ![t][s] = NoCall]
        /\ UNCHANGED <<page, shown, refresh, orphaned>>
    BY <1>11 DEF DeliverOk
  <2>2. BrowserSound'
    BY <1>1, <1>2, <2>1 DEF BrowserSound, Cookies
  <2>3. QED
    BY <1>6, <1>7, <1>8, <1>9, <2>1, <2>2
<1>12. CASE c.kind = "logout"
  <2>1. jar' = [access |-> 0, token |-> 0] /\ stored' = NoUser
        /\ Mount(t, "login", "dashboard", jar', NoUser)
    BY <1>12 DEF DeliverOk
  <2>2. jar' \in Cookies /\ jar'.access = 0 /\ jar'.token = 0
    BY <2>1, TokenRange DEF Cookies
  <2>3. Known(jar'.access, issued) /\ BrowserSound'
    BY <1>4, <2>1, <2>2 DEF BrowserSound, Known
  <2>4. TabTypes' /\ RefreshSound' /\ CallsSound' /\ orphaned' \subseteq Tokens
    BY <1>1, <1>4, <2>1, <2>2, <2>3, MountSound
  <2>5. QED
    BY <1>7, <2>3, <2>4
<1>13. CASE c.kind = "signup"
  <2> DEFINE d == [c EXCEPT !.phase = "leaving"]
  <2>1. /\ loading' = [loading EXCEPT ![t] = FALSE]
        /\ calls' = [calls EXCEPT ![t] = [calls[t] EXCEPT ![s] = d]]
        /\ UNCHANGED <<browser, page, user, shown, refresh, orphaned>>
    BY <1>13 DEF DeliverOk
  <2>2. GoodCall(d, issued')
    BY <1>1, <1>2 DEF GoodCall, CallRecords
  <2>3. CallsSound'
    BY <1>5, <2>1, <2>2, OneCallSound DEF Sound
  <2>4. TabTypes' /\ BrowserSound'
    BY <1>5, <2>1, GrowthKeeps DEF Sound, TabTypes
  <2>5. QED
    BY <1>7, <1>9, <2>1, <2>3, <2>4
<1>14. CASE c.kind = "work"
  <2>1. calls' = [calls EXCEPT ![t][s] = NoCall]
        /\ UNCHANGED <<browser, tabVars, refresh, orphaned>>
    BY <1>14 DEF DeliverOk
  <2>2. TabTypes' /\ BrowserSound'
    BY <1>5, <2>1, GrowthKeeps DEF Sound, TabTypes, tabVars
  <2>3. QED
    BY <1>6, <1>7, <1>9, <2>1, <2>2
<1>15. QED
  BY <1>10, <1>11, <1>12, <1>13, <1>14 DEF DeliverOk

\* A call waits for the tab's refresh, which is sent if there is none.
LEMMA AwaitRefreshSound ==
  ASSUME Sound, NEW t \in Tabs, NEW s \in SlotsOf[t], calls[t][s].phase = "served",
         ~calls[t][s].ok, AwaitRefresh(t, s), UNCHANGED issued
  PROVE  RefreshSound' /\ CallsSound' /\ replayed' \subseteq Tokens
<1> DEFINE c == calls[t][s]
           d == [c EXCEPT !.phase = "awaiting"]
           r == [phase |-> "sent", token |-> jar.token, minted |-> 0,
                 fresh |-> jar.token # 0 /\ jar.token \notin revoked]
<1>1. Grows
  BY DEF Grows
<1>2. GoodCall(c, issued) /\ c \in CallRecords /\ c.runs = 0
  BY DEF Sound, CallsSound, GoodCall
<1>3. d \in CallRecords /\ d.access = c.access /\ d.runs = 0 /\ d.phase = "awaiting"
  BY <1>2 DEF CallRecords
<1>4. GoodCall(d, issued')
  <2> HIDE DEF d
  <2>1. QED
    BY <1>2, <1>3 DEF GoodCall
<1>5. calls' = [calls EXCEPT ![t] = [calls[t] EXCEPT ![s] = d]]
  BY DEF AwaitRefresh
<1>6. CallsSound'
  <2> HIDE DEF d
  <2>1. QED
    BY <1>1, <1>4, <1>5, OneCallSound DEF Sound
<1>7. CASE refresh[t].phase # "idle"
  BY <1>6, <1>7 DEF AwaitRefresh, Sound, RefreshSound, HistorySound
<1>8. CASE refresh[t].phase = "idle"
  <2>1. refresh' = [refresh EXCEPT ![t] = r] /\ replayed' \subseteq Tokens
    BY <1>8 DEF AwaitRefresh, Sound, HistorySound
  <2>2. r \in Refreshes /\ Known(jar.token, issued)
    BY TokenRange DEF Refreshes, Sound, BrowserSound, Cookies
  <2>3. GoodRefresh(r, issued')
    BY <2>2 DEF GoodRefresh, Known
  <2>4. RefreshSound'
    BY <1>1, <2>1, <2>3, OneRefreshSound DEF Sound
  <2>5. QED
    BY <1>6, <2>1, <2>4
<1>9. QED
  BY <1>7, <1>8

\* An answer that is not ok.
LEMMA DeliverRefusedSound ==
  ASSUME Sound, NEW t \in Tabs, NEW s \in SlotsOf[t], DeliverRefused(t, s)
  PROVE  Sound'
<1>1. UNCHANGED <<jar, server, rotatedFor, lost, reloads>> /\ UNCHANGED issued
  BY DEF DeliverRefused, server
<1>2. lost' \in 0..MaxLost /\ reloads' \in 0..MaxReloads
  BY <1>1 DEF Sound, HistorySound
<1>3. ASSUME stored' \in Profiles
      PROVE  BrowserSound'
  BY <1>1, <1>3 DEF Sound, BrowserSound
<1>4. CASE AwaitRefresh(t, s) /\ UNCHANGED <<stored, tabVars, orphaned>>
  <2>1. RefreshSound' /\ CallsSound' /\ replayed' \subseteq Tokens
    BY <1>1, <1>4, AwaitRefreshSound DEF DeliverRefused
  <2>2. stored' \in Profiles /\ TabTypes' /\ orphaned' \subseteq Tokens
    BY <1>4 DEF Sound, BrowserSound, TabTypes, tabVars, HistorySound
  <2>3. QED
    BY <1>1, <1>2, <1>3, <2>1, <2>2, BrowserStepSound
<1>5. CASE Settle(t, s) /\ UNCHANGED replayed
  <2>1. /\ stored' \in Profiles /\ orphaned' \subseteq Tokens
        /\ TabTypes' /\ RefreshSound' /\ CallsSound'
    BY <1>1, <1>5, SettleSound
  <2>2. replayed' \subseteq Tokens
    BY <1>5 DEF Sound, HistorySound
  <2>3. QED
    BY <1>1, <1>2, <1>3, <2>1, <2>2, BrowserStepSound
<1>6. QED
  BY <1>4, <1>5 DEF DeliverRefused

\* The network fails a call.
LEMMA LoseCallSound ==
  ASSUME Sound, NEW t \in Tabs, NEW s \in SlotsOf[t], LoseCall(t, s)
  PROVE  Sound'
<1> DEFINE c == calls[t][s]
           d == [c EXCEPT !.phase = "threw"]
<1>1. UNCHANGED <<jar, server, rotatedFor, replayed, reloads>> /\ UNCHANGED issued
  BY DEF LoseCall, server
<1>2. lost' \in 0..MaxLost /\ reloads' \in 0..MaxReloads /\ replayed' \subseteq Tokens
  BY <1>1, BoundsAssumption DEF Sound, HistorySound, LoseCall
<1>3. ASSUME stored' \in Profiles
      PROVE  BrowserSound'
  BY <1>1, <1>3 DEF Sound, BrowserSound
<1>4. CASE calls' = [calls EXCEPT ![t][s].phase = "threw"]
           /\ UNCHANGED <<stored, tabVars, refresh, orphaned>>
  <2>1. GoodCall(c, issued) /\ c \in CallRecords
    BY DEF Sound, CallsSound, GoodCall
  <2>2. d \in CallRecords /\ d.access = c.access /\ d.runs = c.runs /\ d.phase = "threw"
    BY <2>1 DEF CallRecords
  <2> HIDE DEF d, c
  <2>3. GoodCall(d, issued')
    BY <1>1, <2>1, <2>2 DEF GoodCall
  <2>4. calls' = [calls EXCEPT ![t] = [calls[t] EXCEPT ![s] = d]]
    BY <1>4 DEF c, d
  <2>5. Grows
    BY <1>1 DEF Grows
  <2>6. CallsSound'
    BY <2>3, <2>4, <2>5, OneCallSound DEF Sound
  <2>7. stored' \in Profiles /\ TabTypes' /\ orphaned' \subseteq Tokens /\ RefreshSound'
    BY <1>1, <1>4 DEF Sound, BrowserSound, TabTypes, tabVars, HistorySound, RefreshSound
  <2>8. QED
    BY <1>1, <1>2, <1>3, <2>6, <2>7, BrowserStepSound
<1>5. CASE Settle(t, s)
  <2>1. /\ stored' \in Profiles /\ orphaned' \subseteq Tokens
        /\ TabTypes' /\ RefreshSound' /\ CallsSound'
    BY <1>1, <1>5, SettleSound
  <2>2. QED
    BY <1>1, <1>2, <1>3, <2>1, BrowserStepSound
<1>6. QED
  BY <1>4, <1>5 DEF LoseCall

\* The refresh brings new cookies and sends the waiting calls again.
LEMMA RefreshAnsweredSound ==
  ASSUME Sound, NEW t \in Tabs, RefreshAnswered(t)
  PROVE  Sound'
<1> DEFINE m == refresh[t].minted
           again(c) == [c EXCEPT !.phase = "sent", !.replay = TRUE, !.access = m]
           f == [s \in SlotsOf[t] |-> IF calls[t][s].phase = "awaiting"
                                      THEN again(calls[t][s]) ELSE calls[t][s]]
<1>1. UNCHANGED <<stored, tabVars, server, rotatedFor, replayed, orphaned, lost, reloads>>
      /\ UNCHANGED issued
  BY DEF RefreshAnswered, server
<1>2. Grows
  BY <1>1 DEF Grows
<1>3. m \in 0..MaxTokens /\ Known(m, issued)
  BY DEF Sound, RefreshSound, GoodRefresh, Refreshes
<1>4. jar' = [access |-> m, token |-> m]
  BY DEF RefreshAnswered
<1>5. BrowserSound'
  BY <1>1, <1>3, <1>4 DEF Sound, BrowserSound, Cookies
<1>6. TabTypes'
  BY <1>1 DEF Sound, TabTypes, tabVars
<1>7. GoodRefresh(NoRefresh, issued')
  BY <1>1, NewRecords DEF Kinds, Profiles
<1>8. RefreshSound'
  BY <1>2, <1>7, OneRefreshSound DEF RefreshAnswered, Sound
<1>9. ASSUME NEW s \in SlotsOf[t]
      PROVE  GoodCall(f[s], issued')
  <2> DEFINE c == calls[t][s]
  <2>1. GoodCall(c, issued) /\ c \in CallRecords
    BY DEF Sound, CallsSound, GoodCall
  <2>2. CASE c.phase = "awaiting"
    <3>1. c.runs = 0
      BY <2>1, <2>2 DEF GoodCall
    <3> DEFINE d == again(c)
    <3>2. d \in CallRecords /\ d.access = m /\ d.runs = 0 /\ d.phase = "sent"
      BY <1>3, <2>1, <3>1 DEF CallRecords
    <3>3. GoodCall(d, issued')
      <4> HIDE DEF d, m
      <4>1. QED
        BY <1>1, <1>3, <3>2 DEF GoodCall
    <3>4. f[s] = d
      BY <2>2
    <3>5. QED
      BY <3>3, <3>4
  <2>3. CASE c.phase # "awaiting"
    <3>1. f[s] = c
      BY <2>3
    <3>2. QED
      BY <1>1, <2>1, <3>1
  <2>4. QED
    BY <2>2, <2>3
<1>10. calls' = [calls EXCEPT ![t] = f]
  BY ZenonT(60) DEF RefreshAnswered
<1>11. f \in [SlotsOf[t] -> CallRecords]
  <2>1. \A s \in SlotsOf[t] : f[s] \in CallRecords
    BY ZenonT(60), <1>9 DEF GoodCall
  <2> DEFINE g(s) == IF calls[t][s].phase = "awaiting" THEN again(calls[t][s]) ELSE calls[t][s]
  <2>2. \A s \in SlotsOf[t] : g(s) \in CallRecords
    BY <2>1
  <2>3. f = [s \in SlotsOf[t] |-> g(s)]
    OBVIOUS
  <2> HIDE DEF g
  <2>4. QED
    BY <2>2, <2>3
<1>12. CallsSound'
  <2> HIDE DEF f
  <2>1. QED
    BY <1>2, <1>9, <1>10, <1>11, TabCallsSound DEF Sound
<1>13. QED
  BY <1>1, <1>5, <1>6, <1>8, <1>12, BrowserStepSound DEF Sound, HistorySound

\* The refresh comes to nothing.
LEMMA RefreshFailedSound ==
  ASSUME Sound, NEW t \in Tabs, RefreshFailed(t)
  PROVE  Sound'
<1>1. UNCHANGED <<jar, server, rotatedFor, replayed, reloads>> /\ UNCHANGED issued
  BY DEF RefreshFailed, server
<1>2. lost' \in 0..MaxLost /\ reloads' \in 0..MaxReloads /\ replayed' \subseteq Tokens
  BY <1>1, BoundsAssumption DEF Sound, HistorySound, RefreshFailed
<1>3. ASSUME stored' \in Profiles, orphaned' \subseteq Tokens,
             TabTypes', RefreshSound', CallsSound'
      PROVE  Sound'
  <2>1. BrowserSound'
    BY <1>1, <1>3 DEF Sound, BrowserSound
  <2>2. QED
    BY <1>1, <1>2, <1>3, <2>1, BrowserStepSound
<1>4. CASE page[t] # "login"
  <2>1. RedirectToLogin(t)
    BY <1>4 DEF RefreshFailed
  <2>2. QED
    BY <1>1, <1>3, <2>1, RedirectSound
<1>5. CASE page[t] = "login"
  <2> DEFINE f == [s \in SlotsOf[t] |-> IF calls[t][s].phase = "awaiting"
                                        THEN NoCall ELSE calls[t][s]]
             b == IF \E s \in SlotsOf[t] : calls[t][s].phase = "awaiting" /\
                                         calls[t][s].kind = "me"
                  THEN FALSE ELSE loading[t]
  <2>1. /\ stored' = NoUser /\ refresh' = [refresh EXCEPT ![t] = NoRefresh]
        /\ orphaned' = IF refresh[t].minted # 0 \/ refresh[t].phase = "sent"
                       THEN orphaned \cup Abandoned(t) ELSE orphaned
        /\ loading' = [loading EXCEPT ![t] = b]
        /\ calls' = [calls EXCEPT ![t] = f]
        /\ UNCHANGED <<page, user, shown>>
    BY <1>5 DEF RefreshFailed
  <2>2. GoodCall(NoCall, issued) /\ GoodRefresh(NoRefresh, issued')
    BY <1>1, NewRecords DEF Kinds, Profiles
  <2>3. f \in [SlotsOf[t] -> CallRecords] /\ \A s \in SlotsOf[t] : GoodCall(f[s], issued')
    BY <1>1, <2>2 DEF Sound, CallsSound, GoodCall
  <2>4. Grows
    BY <1>1 DEF Grows
  <2>5. RefreshSound'
    BY <2>1, <2>2, <2>4, OneRefreshSound DEF Sound
  <2>6. CallsSound'
    <3> HIDE DEF f
    <3>1. QED
      BY <2>1, <2>3, <2>4, TabCallsSound DEF Sound
  <2>7. TabTypes'
    <3>1. b \in BOOLEAN
      BY DEF Sound, TabTypes
    <3> HIDE DEF b
    <3>2. QED
      BY <2>1, <3>1 DEF Sound, TabTypes
  <2>8. orphaned' \subseteq Tokens
    BY <2>1, TokenRange DEF Abandoned, Sound, HistorySound, RefreshSound, Refreshes
  <2>9. QED
    BY <1>3, <2>1, <2>5, <2>6, <2>7, <2>8 DEF Profiles
<1>6. QED
  BY <1>4, <1>5

\* A call is started on a slot that is free.
LEMMA StartCallSound ==
  ASSUME Sound, NEW t \in Tabs, NEW s \in SlotsOf[t], NEW kind \in Kinds,
         NEW who \in Profiles, StartCall(t, s, kind, who), UNCHANGED issued
  PROVE  CallsSound'
<1>1. GoodCall(Send(kind, who, FALSE), issued')
  BY NewRecords
<1>2. Grows
  BY DEF Grows
<1>3. calls' = [calls EXCEPT ![t] = [calls[t] EXCEPT ![s] = Send(kind, who, FALSE)]]
  BY DEF StartCall
<1>4. QED
  BY <1>1, <1>2, <1>3, OneCallSound DEF Sound

\* The forms, the links, the clicks and the calls of the views.
LEMMA PageStepSound ==
  ASSUME Sound, NEW t \in Tabs, UNCHANGED <<browser, server, refresh, rotatedFor, replayed,
                                           orphaned, lost, reloads>>,
         TabTypes', CallsSound'
  PROVE  Sound'
<1>1. UNCHANGED <<server, rotatedFor>> /\ UNCHANGED issued
  BY DEF server
<1>2. Grows
  BY <1>1 DEF Grows
<1>3. BrowserSound'
  BY <1>2, GrowthKeeps DEF Sound
<1>4. RefreshSound'
  BY <1>1 DEF Sound, RefreshSound
<1>5. QED
  BY <1>1, <1>3, <1>4, BrowserStepSound DEF Sound, HistorySound

LEMMA FormsSound ==
  ASSUME Sound, NEW t \in Tabs, NEW s \in SlotsOf[t],
         \/ SubmitLogin(t, s) \/ SubmitSignup(t, s) \/ ViewCalls(t, s) \/ SignOut(t, s)
  PROVE  Sound'
<1>1. PICK kind \in Kinds, who \in Profiles : StartCall(t, s, kind, who)
  BY DEF SubmitLogin, SubmitSignup, ViewCalls, SignOut, CallsOf, Kinds, Profiles
<1>2. UNCHANGED <<browser, server, page, user, shown, refresh, rotatedFor, replayed,
                  orphaned, lost, reloads>>
      /\ (UNCHANGED loading \/ loading' = [loading EXCEPT ![t] = TRUE])
  BY DEF SubmitLogin, SubmitSignup, ViewCalls, SignOut, tabVars
<1>3. CallsSound'
  BY <1>1, <1>2, StartCallSound DEF server
<1>4. TabTypes'
  BY <1>2 DEF Sound, TabTypes
<1>5. QED
  BY <1>2, <1>3, <1>4, PageStepSound

LEMMA ClicksSound ==
  ASSUME Sound, NEW t \in Tabs,
         (\E p \in Pages : FollowLink(t, p)) \/ (\E v \in Views : OpenTab(t, v))
  PROVE  Sound'
<1>1. UNCHANGED <<browser, server, refresh, calls, rotatedFor, replayed,
                  orphaned, lost, reloads>>
  BY DEF FollowLink, OpenTab
<1>2. TabTypes'
  BY DEF FollowLink, OpenTab, Sound, TabTypes
<1>3. CallsSound'
  BY <1>1 DEF Sound, CallsSound, server
<1>4. QED
  BY <1>1, <1>2, <1>3, PageStepSound

\* The pages that replace the whole tab.
LEMMA NavigationSound ==
  ASSUME Sound, NEW t \in Tabs, EnterApp(t) \/ LeaveApp(t) \/ LeaveSignup(t) \/ Reload(t)
  PROVE  Sound'
<1>1. UNCHANGED <<browser, server, rotatedFor, replayed, lost>> /\ UNCHANGED issued
  BY DEF EnterApp, LeaveApp, LeaveSignup, Reload, server
<1>2. PICK p \in Pages, v \in Views : Mount(t, p, v, jar, stored)
  BY ViewsAssumption DEF EnterApp, LeaveApp, LeaveSignup, Reload, Pages, Sound, TabTypes
<1>3. reloads' \in 0..MaxReloads /\ replayed' \subseteq Tokens /\ lost' \in 0..MaxLost
  BY <1>1, BoundsAssumption DEF EnterApp, LeaveApp, LeaveSignup, Reload, Sound, HistorySound
<1>4. jar \in Cookies /\ Known(jar.access, issued) /\ stored \in Profiles
  BY DEF Sound, BrowserSound
<1>5. TabTypes' /\ RefreshSound' /\ CallsSound' /\ orphaned' \subseteq Tokens
  BY <1>1, <1>2, <1>4, MountSound
<1>6. BrowserSound'
  BY <1>1 DEF Sound, BrowserSound, browser
<1>7. QED
  BY <1>1, <1>3, <1>5, <1>6, BrowserStepSound

\* The browser is opened.
LEMMA InitSound == Init => Sound
<1> SUFFICES ASSUME Init PROVE Sound
  OBVIOUS
<1> DEFINE k == IF Returning THEN 1 ELSE 0
           first == [NoCall EXCEPT !.kind = "me", !.phase = "sent", !.access = k]
<1>1. k \in 0..MaxTokens /\ (k # 0 => k \in Tokens)
  BY ReturningAssumption, BoundsAssumption DEF Tokens
<1>2. PICK r \in Roles : /\ stored = IF Returning THEN r ELSE NoUser
                         /\ holder = [n \in Tokens |-> IF n = k THEN r ELSE NoUser]
  BY DEF Init
<1>3. issued = [n \in Tokens |-> IF n = k THEN 1 ELSE 0]
  BY DEF Init
<1>4. 1 \in 0..MaxTokens \/ ~Returning
  BY ReturningAssumption, BoundsAssumption
<1>5. issued \in [Tokens -> 0..MaxTokens] /\ Known(k, issued)
  <2>1. CASE Returning
    BY <1>1, <1>3, <1>4, <2>1, TokenRange DEF Known
  <2>2. CASE ~Returning
    BY <1>3, <2>2, TokenRange DEF Known
  <2>3. QED
    BY <2>1, <2>2
<1>6. ServerTypes
  BY <1>2, <1>5 DEF Init, ServerTypes, Profiles
<1>7. BrowserSound
  BY <1>1, <1>2, <1>5 DEF Init, BrowserSound, Cookies, Profiles
<1>8. TabTypes
  BY <1>2, ViewsAssumption, ReturningAssumption DEF Init, TabTypes, Pages, Profiles
<1>9. HistorySound
  BY BoundsAssumption DEF Init, HistorySound
<1>10. GoodCall(NoCall, issued) /\ NoCall \in CallRecords
  BY TokenRange DEF NoCall, CallRecords, Kinds, GoodCall, Known
<1>11. GoodRefresh(NoRefresh, issued) /\ NoRefresh \in Refreshes
  BY TokenRange DEF NoRefresh, Refreshes, GoodRefresh, Known
<1>12. RefreshSound
  BY <1>11 DEF Init, RefreshSound
<1>13. first \in CallRecords /\ first.access = k /\ first.runs = 0
  <2>1. NoCall.runs = 0
    BY DEF NoCall
  <2> HIDE DEF k
  <2>2. QED
    BY <1>1, <1>10, <2>1 DEF CallRecords, Kinds
<1>14. GoodCall(first, issued)
  <2> HIDE DEF first, k
  <2>1. QED
    BY <1>5, <1>13 DEF GoodCall
<1>15. CallsSound
  <2>1. calls = [t \in Tabs |-> [s \in SlotsOf[t] |-> IF s = First THEN first ELSE NoCall]]
    BY DEF Init
  <2> HIDE DEF first
  <2>2. QED
    BY <1>10, <1>13, <1>14, <2>1 DEF CallsSound
<1>16. QED
  BY <1>6, <1>7, <1>8, <1>9, <1>12, <1>15 DEF Sound

LEMMA NextSound ==
  ASSUME Sound, [Next]_vars
  PROVE  Sound'
<1>1. CASE Expire
  BY <1>1, ExpireSound
<1>2. ASSUME NEW t \in Tabs, TabNext(t)
      PROVE  Sound'
  BY <1>2, NavigationSound, ServeRefreshSound, RefreshAnsweredSound, RefreshFailedSound,
     ClicksSound, FormsSound, ServeCallSound, DeliverOkSound, DeliverRefusedSound,
     LoseCallSound DEF TabNext
<1>3. CASE UNCHANGED vars
  <2>1. TabTypes' /\ BrowserSound' /\ ServerTypes'
    BY <1>3 DEF Sound, TabTypes, BrowserSound, ServerTypes, vars
  <2>2. HistorySound' /\ RefreshSound' /\ CallsSound'
    BY <1>3 DEF Sound, HistorySound, RefreshSound, CallsSound, vars
  <2>3. QED
    BY <2>1, <2>2 DEF Sound
<1>4. QED
  BY <1>1, <1>2, <1>3 DEF Next

\* (lib/api.js:43-112) Jar, tabs, calls and sessions keep their types, and no
\* call is carried out twice whatever 401s, refreshes, replays, losses and
\* reloads it meets, in any number of tabs with any number of calls at once.
THEOREM ConsistentTheorem == Spec => []Consistent
<1>1. Init => Sound
  BY InitSound
<1>2. Sound /\ [Next]_vars => Sound'
  BY NextSound
<1>3. Sound => Consistent
  BY SoundIsConsistent
<1>4. QED
  BY <1>1, <1>2, <1>3, PTL DEF Spec

-----------------------------------------------------------------------------
(* The second invariant follows the refresh tokens.  A token that is minted  *)
(* and not yet in the jar has exactly one holder, the answer that brings it, *)
(* and nobody has spent it; so a token in the jar that a tab has itself      *)
(* rotated is one whose answer is still on its way to that tab, or lost.     *)

\* A login's answer that brings token m.
Brings(c, m) == c.phase = "served" /\ c.ok /\ c.kind = "login" /\ c.access = m

Unspent(m) == /\ issued[m] # 0 /\ rotatedFor[m] = {} /\ m # jar.token
              /\ \A t \in Tabs : refresh[t].token # m

RefreshBringsNew ==
  \A t \in Tabs, m \in Tokens : refresh[t].minted = m =>
     Unspent(m) /\ \A u \in Tabs : refresh[u].minted = m => u = t

LoginBringsNew ==
  \A t \in Tabs : \A s \in SlotsOf[t], m \in Tokens : Brings(calls[t][s], m) =>
     /\ Unspent(m) /\ \A u \in Tabs : refresh[u].minted # m
     /\ \A u \in Tabs : \A r \in SlotsOf[u] : Brings(calls[u][r], m) => u = t /\ r = s

RotatedInJar ==
  \A t \in Tabs, k \in Tokens : k = jar.token /\ t \in rotatedFor[k] =>
     k \in orphaned \/ (refresh[t].token = k /\ refresh[t].minted # 0)

TokenInv == /\ RefreshBringsNew /\ LoginBringsNew /\ RotatedInJar
            /\ ReplayedOnlyIfOrphaned

\* Steps that bring no token and spend none: a refresh stays what it was, or it
\* is over and, if it had rotated its token, the answer is lost; and no answer
\* of a login appears.
RefreshesKept ==
  \A t \in Tabs :
     \/ refresh'[t].token = refresh[t].token /\ refresh'[t].minted = refresh[t].minted
     \/ /\ refresh'[t] = NoRefresh
        /\ refresh[t].token # 0 /\ refresh[t].minted # 0 => refresh[t].token \in orphaned'

LoginsKept ==
  \A t \in Tabs : \A s \in SlotsOf[t], m \in Tokens :
     Brings(calls'[t][s], m) => Brings(calls[t][s], m)

LEMMA QuietTokens ==
  ASSUME TokenInv, jar'.token \in {jar.token, 0}, UNCHANGED <<issued, rotatedFor, replayed>>,
         orphaned \subseteq orphaned', RefreshesKept, LoginsKept
  PROVE  TokenInv'
<1>1. \A t \in Tabs : /\ refresh'[t].token \in {refresh[t].token, 0}
                      /\ refresh'[t].minted \in {refresh[t].minted, 0}
  BY DEF RefreshesKept, NoRefresh
<1>2. \A m \in Tokens : Unspent(m) => Unspent(m)'
  BY <1>1, TokenRange DEF Unspent
<1>3. RefreshBringsNew'
  BY <1>1, <1>2, TokenRange DEF TokenInv, RefreshBringsNew
<1>4. LoginBringsNew'
  BY <1>1, <1>2, TokenRange DEF TokenInv, LoginBringsNew, LoginsKept
<1>5. RotatedInJar'
  BY ZenonT(60), TokenRange DEF TokenInv, RotatedInJar, RefreshesKept
<1>6. QED
  BY <1>3, <1>4, <1>5 DEF TokenInv, ReplayedOnlyIfOrphaned

\* A call that changes into one that brings nothing.
LEMMA OneCallLogins ==
  ASSUME CallsSound, NEW t \in Tabs, NEW s \in SlotsOf[t], NEW d,
         \A m \in Tokens : ~Brings(d, m),
         calls' = [calls EXCEPT ![t] = [calls[t] EXCEPT ![s] = d]]
  PROVE  LoginsKept
BY DEF CallsSound, LoginsKept

LEMMA NoCallBrings == \A m : ~Brings(NoCall, m)
BY DEF NoCall, Brings

\* A page is torn down: its refresh, if it was under way, is lost.
LEMMA MountTokens ==
  ASSUME Sound, NEW t \in Tabs, NEW target, NEW view, NEW cookies, NEW profile,
         Mount(t, target, view, cookies, profile)
  PROVE  orphaned \subseteq orphaned' /\ RefreshesKept /\ LoginsKept
<1>1. orphaned \subseteq orphaned'
  BY DEF Mount
<1>2. refresh' = [refresh EXCEPT ![t] = NoRefresh]
  BY DEF Mount
<1>3. refresh[t].token # 0 /\ refresh[t].minted # 0 => refresh[t].token \in orphaned'
  BY DEF Mount, Abandoned, Sound, RefreshSound, GoodRefresh
<1>4. RefreshesKept
  BY <1>2, <1>3 DEF RefreshesKept, Sound, RefreshSound
<1> DEFINE mine == [Send("me", NoUser, FALSE) EXCEPT !.access = cookies.access]
<1>5. mine.phase = "sent" /\ NoCall.phase = "free"
  BY DEF Send, NoCall
<1>6. \A s \in SlotsOf[t] : calls'[t][s].phase # "served"
  <2>1. calls' = [calls EXCEPT ![t] = [s \in SlotsOf[t] |-> IF s = First THEN mine ELSE NoCall]]
    BY DEF Mount
  <2> HIDE DEF mine
  <2>2. QED
    BY <1>5, <2>1 DEF Sound, CallsSound
<1>7. \A u \in Tabs : u # t => calls'[u] = calls[u]
  BY DEF Mount, Sound, CallsSound
<1>8. LoginsKept
  BY <1>6, <1>7 DEF LoginsKept, Brings
<1>9. QED
  BY <1>1, <1>4, <1>8

LEMMA SettleTokens ==
  ASSUME Sound, NEW t \in Tabs, NEW s \in SlotsOf[t], Settle(t, s)
  PROVE  orphaned \subseteq orphaned' /\ RefreshesKept /\ LoginsKept
<1>1. CASE calls[t][s].kind = "logout"
  BY <1>1, MountTokens DEF Settle
<1>2. CASE calls[t][s].kind # "logout"
  <2>1. UNCHANGED <<refresh, orphaned>>
        /\ calls' = [calls EXCEPT ![t] = [calls[t] EXCEPT ![s] = NoCall]]
    BY <1>2 DEF Settle
  <2>2. LoginsKept
    BY <2>1, NoCallBrings, OneCallLogins DEF Sound
  <2>3. QED
    BY <2>1, <2>2 DEF RefreshesKept
<1>3. QED
  BY <1>1, <1>2

\* The server answers a call: a login brings a token nobody has seen.
LEMMA ServeCallTokens ==
  ASSUME Sound, TokenInv, NEW t \in Tabs, NEW s \in SlotsOf[t], ServeCall(t, s)
  PROVE  TokenInv'
<1> DEFINE c == calls[t][s]
<1>1. UNCHANGED <<jar, refresh, rotatedFor, replayed, orphaned>>
  BY DEF ServeCall, browser
<1>2. c \in CallRecords
  BY DEF Sound, CallsSound
<1>3. RefreshesKept
  BY <1>1 DEF RefreshesKept
<1>4. ASSUME NEW d, UNCHANGED issued, d.ok = FALSE \/ d.kind # "login",
             calls' = [calls EXCEPT ![t] = [calls[t] EXCEPT ![s] = d]]
      PROVE  TokenInv'
  <2>1. LoginsKept
    BY <1>4, OneCallLogins DEF Sound, Brings
  <2>2. QED
    BY <1>1, <1>3, <1>4, <2>1, QuietTokens
<1>5. ASSUME NEW n \in Tokens, issued[n] = 0, issued' = [issued EXCEPT ![n] = n],
             calls' = [calls EXCEPT ![t][s].phase = "served",
                                    ![t][s].ok = TRUE, ![t][s].access = n]
      PROVE  TokenInv'
  <2> DEFINE d == [c EXCEPT !.phase = "served", !.ok = TRUE, !.access = n]
  <2>1. calls' = [calls EXCEPT ![t] = [calls[t] EXCEPT ![s] = d]]
    BY <1>5
  <2>2. d.access = n
    BY <1>2 DEF CallRecords
  <2>3. issued'[n] # 0 /\ \A k \in Tokens : k # n => issued'[k] = issued[k]
    BY <1>5, TokenRange DEF Sound, ServerTypes
  <2> HIDE DEF d
  <2>4. \A u \in Tabs : \A r \in SlotsOf[u] :
           calls'[u][r] = IF u = t /\ r = s THEN d ELSE calls[u][r]
    BY <2>1 DEF Sound, CallsSound
  <2>5. rotatedFor[n] = {} /\ n # jar.token
        /\ \A u \in Tabs : refresh[u].token # n /\ refresh[u].minted # n
    BY <1>5, TokenRange DEF Sound, HistorySound, BrowserSound, RefreshSound, GoodRefresh, Known
  <2>6. \A u \in Tabs : \A r \in SlotsOf[u] : ~Brings(calls[u][r], n)
    BY <1>5, TokenRange DEF Sound, CallsSound, GoodCall, Known, Brings
  <2>7. \A m \in Tokens : Unspent(m) \/ m = n => Unspent(m)'
    BY <1>1, <2>3, <2>5 DEF Unspent
  <2>8. RefreshBringsNew'
    BY <1>1, <2>7 DEF TokenInv, RefreshBringsNew
  <2>9. \A m \in Tokens : Brings(d, m) => m = n
    BY <2>2 DEF Brings
  <2>10. LoginBringsNew'
    <3> SUFFICES ASSUME NEW v \in Tabs, NEW r \in SlotsOf[v], NEW m \in Tokens,
                        Brings(calls'[v][r], m)
                 PROVE  /\ Unspent(m)' /\ \A u \in Tabs : refresh'[u].minted # m
                        /\ \A u \in Tabs : \A q \in SlotsOf[u] :
                              Brings(calls'[u][q], m) => u = v /\ q = r
      BY DEF LoginBringsNew
    <3>1. CASE v = t /\ r = s
      <4>1. m = n
        BY <2>4, <2>9, <3>1
      <4>2. QED
        BY <1>1, <2>4, <2>5, <2>6, <2>7, <3>1, <4>1
    <3>2. CASE ~(v = t /\ r = s)
      <4>1. Brings(calls[v][r], m) /\ m # n
        BY <2>4, <2>6, <3>2
      <4>2. QED
        BY <1>1, <2>4, <2>7, <2>9, <3>2, <4>1 DEF TokenInv, LoginBringsNew
    <3>3. QED
      BY <3>1, <3>2
  <2>11. RotatedInJar' /\ ReplayedOnlyIfOrphaned'
    BY <1>1 DEF TokenInv, RotatedInJar, ReplayedOnlyIfOrphaned
  <2>12. QED
    BY <2>8, <2>10, <2>11 DEF TokenInv
<1>6. ASSUME NEW ok \in BOOLEAN, c.kind # "login" \/ ~ok, UNCHANGED issued,
             calls' = [calls EXCEPT ![t][s].phase = "served",
                                    ![t][s].ok = ok, ![t][s].access = 0]
      PROVE  TokenInv'
  <2> DEFINE d == [c EXCEPT !.phase = "served", !.ok = ok, !.access = 0]
  <2>1. d.ok = ok /\ d.kind = c.kind
    BY <1>2 DEF CallRecords
  <2>2. calls' = [calls EXCEPT ![t] = [calls[t] EXCEPT ![s] = d]]
    BY ZenonT(60), <1>6
  <2> HIDE DEF d
  <2>3. QED
    BY <1>4, <1>6, <2>1, <2>2
<1>8. CASE c.kind \in {"me", "work"}
  <2>1. UNCHANGED issued
    BY <1>8 DEF ServeCall
  <2>2. CASE LiveAccess(c.access)
    <3> DEFINE w == IF c.kind = "me" THEN holder[issued[c.access]] ELSE c.who
               n == c.runs + 1
               d == [c EXCEPT !.phase = "served", !.ok = TRUE, !.access = 0,
                              !.who = w, !.runs = n]
    <3>1. calls' = [calls EXCEPT ![t] = [calls[t] EXCEPT ![s] = d]]
      BY <1>8, <2>2 DEF ServeCall
    <3> HIDE DEF w, n
    <3>2. d.kind = c.kind
      BY <1>2 DEF CallRecords
    <3> HIDE DEF d
    <3>3. QED
      BY <1>4, <1>8, <2>1, <3>1, <3>2
  <2>3. CASE ~LiveAccess(c.access)
    <3>1. calls' = [calls EXCEPT ![t][s] =
                      [c EXCEPT !.phase = "served", !.ok = FALSE, !.access = 0]]
      BY <1>8, <2>3 DEF ServeCall
    <3>2. calls' = [calls EXCEPT ![t][s].phase = "served",
                                 ![t][s].ok = FALSE, ![t][s].access = 0]
      BY <3>1
    <3>3. QED
      BY ZenonT(60), <1>6, <2>1, <3>2
  <2>4. QED
    BY <2>2, <2>3
<1>9. CASE c.kind \in {"login", "signup", "logout"}
  BY <1>5, <1>6, <1>9 DEF ServeCall
<1>10. QED
  BY <1>2, <1>8, <1>9 DEF CallRecords, Kinds

\* The refresh endpoint: the new token is unspent, the old one is rotated for
\* the tab that will get the answer.
LEMMA ServeRefreshTokens ==
  ASSUME Sound, TokenInv, NEW t \in Tabs, ServeRefresh(t)
  PROVE  TokenInv'
<1> DEFINE k == refresh[t].token
<1>1. UNCHANGED <<jar, calls, replayed, orphaned>>
  BY DEF ServeRefresh, browser
<1>2. refresh[t] \in Refreshes /\ refresh[t].minted = 0 /\ (k # 0 => k \in Tokens /\ issued[k] # 0)
  BY TokenRange DEF ServeRefresh, Sound, RefreshSound, GoodRefresh, Refreshes, Known
<1>3. LoginsKept
  BY <1>1 DEF LoginsKept
<1>4. ASSUME k # 0, NEW n \in Tokens, issued[n] = 0,
             issued' = [issued EXCEPT ![n] = issued[k]],
             refresh' = [refresh EXCEPT ![t].phase = "served", ![t].minted = n],
             rotatedFor' = [rotatedFor EXCEPT ![k] = @ \cup {t}]
      PROVE  TokenInv'
  <2>1. /\ issued'[n] # 0 /\ n # k
        /\ \A m \in Tokens : m # n => issued'[m] = issued[m]
        /\ \A m \in Tokens : m # k => rotatedFor'[m] = rotatedFor[m]
        /\ rotatedFor'[k] = rotatedFor[k] \cup {t}
    BY <1>2, <1>4 DEF Sound, ServerTypes, HistorySound
  <2>2. /\ refresh'[t].token = k /\ refresh'[t].minted = n
        /\ \A u \in Tabs : u # t => refresh'[u] = refresh[u]
    BY <1>2, <1>4 DEF Sound, RefreshSound, Refreshes
  <2>3. rotatedFor[n] = {} /\ n # jar.token
        /\ \A u \in Tabs : refresh[u].token # n /\ refresh[u].minted # n
    BY <1>4, TokenRange DEF Sound, HistorySound, BrowserSound, RefreshSound, GoodRefresh, Known
  <2>4. \A u \in Tabs : \A r \in SlotsOf[u] : ~Brings(calls[u][r], n)
    BY <1>4, TokenRange DEF Sound, CallsSound, GoodCall, Known, Brings
  <2>5. \A m \in Tokens : Unspent(m) \/ m = n => Unspent(m)'
    BY <1>1, <2>1, <2>2, <2>3 DEF Unspent
  <2>6. RefreshBringsNew'
    BY <2>2, <2>3, <2>5 DEF TokenInv, RefreshBringsNew
  <2>7. LoginBringsNew'
    BY <1>1, <2>2, <2>4, <2>5 DEF TokenInv, LoginBringsNew
  <2>8. RotatedInJar'
    <3> SUFFICES ASSUME NEW u \in Tabs, NEW m \in Tokens, m = jar.token, u \in rotatedFor'[m]
                 PROVE  m \in orphaned \/ (refresh'[u].token = m /\ refresh'[u].minted # 0)
      BY <1>1 DEF RotatedInJar
    <3>1. CASE m = k /\ u = t
      BY <2>2, <3>1, TokenRange
    <3>2. CASE ~(m = k /\ u = t)
      <4>1. u \in rotatedFor[m]
        BY <2>1, <3>2
      <4>2. m \in orphaned \/ (refresh[u].token = m /\ refresh[u].minted # 0)
        BY <4>1 DEF TokenInv, RotatedInJar
      <4>3. QED
        BY <1>2, <2>2, <4>2
    <3>3. QED
      BY <3>1, <3>2
  <2>9. QED
    BY <1>1, <2>6, <2>7, <2>8 DEF TokenInv, ReplayedOnlyIfOrphaned
<1>5. ASSUME refresh' = [refresh EXCEPT ![t].phase = "served"], UNCHANGED <<issued, rotatedFor>>
      PROVE  TokenInv'
  <2>1. RefreshesKept
    BY <1>2, <1>5 DEF RefreshesKept, Sound, RefreshSound, Refreshes
  <2>2. QED
    BY <1>1, <1>3, <1>5, <2>1, QuietTokens
<1>6. QED
  <2>1. \/ \E n \in {m \in Tokens : issued[m] = 0} :
              /\ k # 0 /\ issued' = [issued EXCEPT ![n] = issued[k]]
              /\ refresh' = [refresh EXCEPT ![t].phase = "served", ![t].minted = n]
              /\ rotatedFor' = [rotatedFor EXCEPT ![k] = @ \cup {t}]
        \/ /\ refresh' = [refresh EXCEPT ![t].phase = "served"]
           /\ issued' = issued /\ rotatedFor' = rotatedFor
    BY DEF ServeRefresh
  <2>2. QED
    BY <1>4, <1>5, <2>1

\* An answer puts the token it brings into the jar.
LEMMA JarTokens ==
  ASSUME TokenInv, NEW m \in 0..MaxTokens, jar'.token = m,
         UNCHANGED <<issued, rotatedFor, replayed>>, orphaned \subseteq orphaned',
         \A t \in Tabs : /\ refresh'[t].token \in {refresh[t].token, 0}
                        /\ refresh'[t].minted \in {refresh[t].minted, 0},
         LoginsKept, m # 0 => rotatedFor[m] = {},
         \A t \in Tabs : refresh'[t].minted # m \/ m = 0,
         \A t \in Tabs : \A s \in SlotsOf[t] : ~Brings(calls'[t][s], m) \/ m = 0
  PROVE  TokenInv'
<1>1. \A k \in Tokens : Unspent(k) /\ k # m => Unspent(k)'
  BY TokenRange DEF Unspent
<1>2. RefreshBringsNew'
  BY <1>1, TokenRange DEF TokenInv, RefreshBringsNew
<1>3. LoginBringsNew'
  BY <1>1, TokenRange DEF TokenInv, LoginBringsNew, LoginsKept
<1>4. RotatedInJar'
  BY TokenRange DEF RotatedInJar
<1>5. QED
  BY <1>2, <1>3, <1>4 DEF TokenInv, ReplayedOnlyIfOrphaned

LEMMA DeliverOkTokens ==
  ASSUME Sound, TokenInv, NEW t \in Tabs, NEW s \in SlotsOf[t], DeliverOk(t, s)
  PROVE  TokenInv'
<1> DEFINE c == calls[t][s]
<1>1. UNCHANGED <<issued, rotatedFor, replayed>>
  BY DEF DeliverOk, server
<1>2. c \in CallRecords /\ c.phase = "served" /\ c.ok
  BY DEF DeliverOk, Sound, CallsSound
<1>3. ASSUME calls' = [calls EXCEPT ![t][s] = NoCall], UNCHANGED <<refresh, orphaned>>
      PROVE  orphaned \subseteq orphaned' /\ RefreshesKept /\ LoginsKept
  <2>1. LoginsKept
    BY <1>3, NoCallBrings, OneCallLogins DEF Sound
  <2>2. QED
    BY <1>3, <2>1 DEF RefreshesKept
<1>4. CASE c.kind \in {"me", "work"}
  <2>1. calls' = [calls EXCEPT ![t][s] = NoCall] /\ UNCHANGED <<jar, refresh, orphaned>>
    BY <1>4 DEF DeliverOk, browser
  <2>2. QED
    BY <1>1, <1>3, <2>1, QuietTokens
<1>5. CASE c.kind = "login"
  <2> DEFINE m == c.access
  <2>1. /\ jar'.token = m /\ calls' = [calls EXCEPT ![t][s] = NoCall]
        /\ UNCHANGED <<refresh, orphaned>>
    BY <1>5 DEF DeliverOk
  <2>2. Brings(c, m) /\ m \in 0..MaxTokens
    BY <1>2, <1>5 DEF Brings, CallRecords
  <2>3. m # 0 => /\ rotatedFor[m] = {} /\ \A u \in Tabs : refresh[u].minted # m
                 /\ \A u \in Tabs : \A r \in SlotsOf[u] :
                       Brings(calls[u][r], m) => u = t /\ r = s
    BY <2>2, TokenRange DEF TokenInv, LoginBringsNew, Unspent
  <2>4. \A u \in Tabs : \A r \in SlotsOf[u] :
           calls'[u][r] = IF u = t /\ r = s THEN NoCall ELSE calls[u][r]
    BY <2>1 DEF Sound, CallsSound
  <2>5. \A u \in Tabs : \A r \in SlotsOf[u] : ~Brings(calls'[u][r], m) \/ m = 0
    BY <2>3, <2>4, NoCallBrings
  <2>6. LoginsKept
    BY <1>3, <2>1
  <2> HIDE DEF m
  <2>7. QED
    BY <1>1, <2>1, <2>2, <2>3, <2>5, <2>6, JarTokens
<1>6. CASE c.kind = "logout"
  <2>1. jar' = [access |-> 0, token |-> 0] /\ Mount(t, "login", "dashboard", jar', NoUser)
    BY <1>6 DEF DeliverOk
  <2>2. QED
    BY <1>1, <2>1, MountTokens, QuietTokens
<1>7. CASE c.kind = "signup"
  <2> DEFINE d == [c EXCEPT !.phase = "leaving"]
  <2>1. /\ calls' = [calls EXCEPT ![t] = [calls[t] EXCEPT ![s] = d]]
        /\ UNCHANGED <<jar, refresh, orphaned>>
    BY <1>7 DEF DeliverOk, browser
  <2>2. \A m \in Tokens : ~Brings(d, m)
    BY <1>2, <1>7 DEF Brings, CallRecords
  <2>3. LoginsKept
    BY <2>1, <2>2, OneCallLogins DEF Sound
  <2>4. QED
    BY <1>1, <2>1, <2>3, QuietTokens DEF RefreshesKept
<1>8. QED
  BY <1>2, <1>4, <1>5, <1>6, <1>7 DEF CallRecords, Kinds

\* A refusal: the tab spends the token of the jar, if its refresh is idle.
LEMMA DeliverRefusedTokens ==
  ASSUME Sound, TokenInv, NEW t \in Tabs, NEW s \in SlotsOf[t], DeliverRefused(t, s)
  PROVE  TokenInv'
<1>1. UNCHANGED <<jar, issued, rotatedFor>>
  BY DEF DeliverRefused, server
<1>2. CASE Settle(t, s) /\ UNCHANGED replayed
  BY <1>1, <1>2, SettleTokens, QuietTokens
<1>3. CASE AwaitRefresh(t, s) /\ UNCHANGED orphaned
  <2> DEFINE d == [calls[t][s] EXCEPT !.phase = "awaiting"]
  <2>1. calls' = [calls EXCEPT ![t] = [calls[t] EXCEPT ![s] = d]]
    BY <1>3 DEF AwaitRefresh
  <2>2. d.phase = "awaiting"
    BY DEF Sound, CallsSound, CallRecords
  <2> HIDE DEF d
  <2>3. LoginsKept
    BY <2>1, <2>2, OneCallLogins DEF Brings, Sound
  <2>4. CASE refresh[t].phase # "idle"
    <3>1. UNCHANGED <<refresh, replayed>>
      BY <1>3, <2>4 DEF AwaitRefresh
    <3>2. QED
      BY <1>1, <1>3, <2>3, <3>1, QuietTokens DEF RefreshesKept
  <2>5. CASE refresh[t].phase = "idle"
    <3>1. /\ refresh' = [refresh EXCEPT ![t] =
               [phase |-> "sent", token |-> jar.token, minted |-> 0,
                fresh |-> jar.token # 0 /\ jar.token \notin revoked]]
          /\ replayed' = replayed \cup {k \in Tokens : k = jar.token /\ t \in rotatedFor[k]}
      BY <1>3, <2>5 DEF AwaitRefresh
    <3>2. refresh[t].minted = 0
      BY <2>5 DEF Sound, RefreshSound, GoodRefresh
    <3>3. /\ refresh'[t].token = jar.token /\ refresh'[t].minted = 0
          /\ \A u \in Tabs : u # t => refresh'[u] = refresh[u]
      BY <3>1 DEF Sound, RefreshSound
    <3>4. \A k \in Tokens : k = jar.token /\ t \in rotatedFor[k] => k \in orphaned
      BY <3>2 DEF TokenInv, RotatedInJar
    <3>5. \A m \in Tokens : Unspent(m) => Unspent(m)'
      BY <1>1, <3>3 DEF Unspent
    <3>6. RefreshBringsNew'
      BY <3>3, <3>5, TokenRange DEF TokenInv, RefreshBringsNew
    <3>7. LoginBringsNew'
      BY <2>3, <3>3, <3>5, TokenRange DEF TokenInv, LoginBringsNew, LoginsKept
    <3>8. RotatedInJar'
      BY <1>1, <1>3, <3>3, <3>4 DEF TokenInv, RotatedInJar
    <3>9. ReplayedOnlyIfOrphaned'
      BY <1>3, <3>1, <3>4 DEF TokenInv, ReplayedOnlyIfOrphaned
    <3>10. QED
      BY <3>6, <3>7, <3>8, <3>9 DEF TokenInv
  <2>6. QED
    BY <2>4, <2>5
<1>4. QED
  BY <1>2, <1>3 DEF DeliverRefused

LEMMA LoseCallTokens ==
  ASSUME Sound, TokenInv, NEW t \in Tabs, NEW s \in SlotsOf[t], LoseCall(t, s)
  PROVE  TokenInv'
<1>1. UNCHANGED <<jar, issued, rotatedFor, replayed>>
  BY DEF LoseCall, server
<1>2. CASE Settle(t, s)
  BY <1>1, <1>2, SettleTokens, QuietTokens
<1>3. CASE calls' = [calls EXCEPT ![t][s].phase = "threw"] /\ UNCHANGED <<refresh, orphaned>>
  <2> DEFINE d == [calls[t][s] EXCEPT !.phase = "threw"]
  <2>1. calls' = [calls EXCEPT ![t] = [calls[t] EXCEPT ![s] = d]]
    BY <1>3
  <2>2. d.phase = "threw"
    BY DEF Sound, CallsSound, CallRecords
  <2> HIDE DEF d
  <2>3. LoginsKept
    BY <2>1, <2>2, OneCallLogins DEF Brings, Sound
  <2>4. QED
    BY <1>1, <1>3, <2>3, QuietTokens DEF RefreshesKept
<1>4. QED
  BY <1>2, <1>3 DEF LoseCall

LEMMA RefreshAnsweredTokens ==
  ASSUME Sound, TokenInv, NEW t \in Tabs, RefreshAnswered(t)
  PROVE  TokenInv'
<1> DEFINE m == refresh[t].minted
           again(c) == [c EXCEPT !.phase = "sent", !.replay = TRUE, !.access = m]
<1>1. UNCHANGED <<issued, rotatedFor, replayed, orphaned>> /\ jar'.token = m
  BY DEF RefreshAnswered, server
<1>2. m \in Tokens
  BY TokenRange DEF RefreshAnswered, Sound, RefreshSound, Refreshes
<1>3. refresh' = [refresh EXCEPT ![t] = NoRefresh]
  BY DEF RefreshAnswered
<1>4. LoginsKept
  <2>1. calls' = [calls EXCEPT ![t] = [s \in SlotsOf[t] |->
           IF calls[t][s].phase = "awaiting" THEN again(calls[t][s]) ELSE calls[t][s]]]
    BY DEF RefreshAnswered
  <2>2. \A s \in SlotsOf[t] : again(calls[t][s]).phase = "sent"
    BY DEF Sound, CallsSound, CallRecords
  <2> HIDE DEF again
  <2>3. QED
    BY <2>1, <2>2 DEF Sound, CallsSound, LoginsKept, Brings
<1>5. /\ rotatedFor[m] = {} /\ \A u \in Tabs : refresh[u].minted = m => u = t
      /\ \A u \in Tabs : \A s \in SlotsOf[u] : ~Brings(calls[u][s], m)
  BY <1>2 DEF TokenInv, RefreshBringsNew, LoginBringsNew, Unspent
<1>6. \A u \in Tabs : refresh'[u].minted # m
  BY <1>2, <1>3, <1>5, TokenRange DEF NoRefresh, Sound, RefreshSound
<1>7. \A u \in Tabs : \A s \in SlotsOf[u] : ~Brings(calls'[u][s], m)
  BY <1>2, <1>4, <1>5 DEF LoginsKept
<1>8. \A u \in Tabs : /\ refresh'[u].token \in {refresh[u].token, 0}
                      /\ refresh'[u].minted \in {refresh[u].minted, 0}
  BY <1>3 DEF NoRefresh, Sound, RefreshSound
<1>9. QED
  <2> HIDE DEF m
  <2>1. QED
    BY <1>1, <1>2, <1>4, <1>5, <1>6, <1>7, <1>8, TokenRange, JarTokens

LEMMA RefreshFailedTokens ==
  ASSUME Sound, TokenInv, NEW t \in Tabs, RefreshFailed(t)
  PROVE  TokenInv'
<1>1. UNCHANGED <<jar, issued, rotatedFor, replayed>>
  BY DEF RefreshFailed, server
<1>2. CASE page[t] # "login"
  <2>1. Mount(t, "login", "dashboard", jar, NoUser)
    BY <1>2 DEF RefreshFailed, RedirectToLogin
  <2>2. QED
    BY <1>1, <2>1, MountTokens, QuietTokens
<1>3. CASE page[t] = "login"
  <2>1. /\ refresh' = [refresh EXCEPT ![t] = NoRefresh]
        /\ orphaned' = IF refresh[t].minted # 0 \/ refresh[t].phase = "sent"
                       THEN orphaned \cup Abandoned(t) ELSE orphaned
        /\ calls' = [calls EXCEPT ![t] = [s \in SlotsOf[t] |->
              IF calls[t][s].phase = "awaiting" THEN NoCall ELSE calls[t][s]]]
    BY <1>3 DEF RefreshFailed
  <2>2. orphaned \subseteq orphaned'
    BY <2>1
  <2>3. refresh[t].token # 0 /\ refresh[t].minted # 0 => refresh[t].token \in orphaned'
    BY <2>1 DEF Abandoned, Sound, RefreshSound, GoodRefresh
  <2>4. RefreshesKept
    BY <2>1, <2>3 DEF RefreshesKept, Sound, RefreshSound
  <2>5. LoginsKept
    BY <2>1, NoCallBrings DEF Sound, CallsSound, LoginsKept
  <2>6. QED
    BY <1>1, <2>2, <2>4, <2>5, QuietTokens
<1>4. QED
  BY <1>2, <1>3

\* Whatever else the person and the views do mints and spends nothing.
LEMMA PageTokens ==
  ASSUME Sound, TokenInv, NEW t \in Tabs,
         \/ EnterApp(t) \/ LeaveApp(t) \/ LeaveSignup(t) \/ Reload(t)
         \/ \E p \in Pages : FollowLink(t, p)
         \/ \E v \in Views : OpenTab(t, v)
         \/ \E s \in SlotsOf[t] : \/ SubmitLogin(t, s) \/ SubmitSignup(t, s)
                                  \/ ViewCalls(t, s) \/ SignOut(t, s)
  PROVE  TokenInv'
<1>1. UNCHANGED <<jar, issued, rotatedFor, replayed>>
  BY DEF EnterApp, LeaveApp, LeaveSignup, Reload, FollowLink, OpenTab, SubmitLogin, SubmitSignup,
     ViewCalls, SignOut, browser, server
<1>2. CASE EnterApp(t) \/ LeaveApp(t) \/ LeaveSignup(t) \/ Reload(t)
  <2>1. PICK p, v : Mount(t, p, v, jar, stored)
    BY <1>2 DEF EnterApp, LeaveApp, LeaveSignup, Reload
  <2>2. QED
    BY <1>1, <2>1, MountTokens, QuietTokens
<1>3. CASE (\E p \in Pages : FollowLink(t, p)) \/ \E v \in Views : OpenTab(t, v)
  <2>1. UNCHANGED <<refresh, calls, orphaned>>
    BY <1>3 DEF FollowLink, OpenTab
  <2>2. QED
    BY <1>1, <2>1, QuietTokens DEF RefreshesKept, LoginsKept
<1>4. ASSUME NEW s \in SlotsOf[t],
             SubmitLogin(t, s) \/ SubmitSignup(t, s) \/ ViewCalls(t, s) \/ SignOut(t, s)
      PROVE  TokenInv'
  <2>1. UNCHANGED <<refresh, orphaned>>
    BY <1>4 DEF SubmitLogin, SubmitSignup, ViewCalls, SignOut
  <2>2. PICK kind, who : StartCall(t, s, kind, who)
    BY <1>4 DEF SubmitLogin, SubmitSignup, ViewCalls, SignOut
  <2>3. \A m \in Tokens : ~Brings(Send(kind, who, FALSE), m)
    BY DEF Send, Brings
  <2>4. calls' = [calls EXCEPT ![t] = [calls[t] EXCEPT ![s] = Send(kind, who, FALSE)]]
    BY <2>2 DEF StartCall
  <2>5. LoginsKept
    BY <2>3, <2>4, OneCallLogins DEF Sound
  <2>6. QED
    BY <1>1, <2>1, <2>5, QuietTokens DEF RefreshesKept
<1>5. QED
  BY <1>2, <1>3, <1>4

LEMMA InitTokens == Init => TokenInv
<1> SUFFICES ASSUME Init PROVE TokenInv
  OBVIOUS
<1>1. \A t \in Tabs : refresh[t].minted = 0 /\ refresh[t].token = 0
  BY DEF Init, NoRefresh
<1>2. \A t \in Tabs : \A s \in SlotsOf[t] : ~calls[t][s].ok
  BY DEF Init, NoCall
<1>3. RefreshBringsNew /\ LoginBringsNew
  BY <1>1, <1>2, TokenRange DEF RefreshBringsNew, LoginBringsNew, Brings
<1>4. RotatedInJar /\ ReplayedOnlyIfOrphaned
  BY DEF Init, RotatedInJar, ReplayedOnlyIfOrphaned
<1>5. QED
  BY <1>3, <1>4 DEF TokenInv

LEMMA NextTokens ==
  ASSUME Sound, TokenInv, [Next]_vars
  PROVE  TokenInv'
<1>1. CASE Expire \/ UNCHANGED vars
  <2>1. UNCHANGED <<jar, issued, rotatedFor, replayed, orphaned, refresh, calls>>
    BY <1>1 DEF Expire, vars, browser
  <2>2. QED
    BY <2>1, QuietTokens DEF RefreshesKept, LoginsKept
<1>2. ASSUME NEW t \in Tabs, TabNext(t)
      PROVE  TokenInv'
  BY <1>2, PageTokens, ServeRefreshTokens, RefreshAnsweredTokens, RefreshFailedTokens,
     ServeCallTokens, DeliverOkTokens, DeliverRefusedTokens, LoseCallTokens DEF TabNext
<1>3. QED
  BY <1>1, <1>2 DEF Next

\* (lib/api.js:49-71) A tab presents a refresh token it has itself rotated only
\* when the answer of that rotation never reached the jar, for any number of
\* tabs and calls and whatever the network loses: the shared promise keeps a
\* tab from spending one token twice.
THEOREM ReplayedOnlyIfOrphanedTheorem == Spec => []ReplayedOnlyIfOrphaned
<1>1. Init => Sound /\ TokenInv
  BY InitSound, InitTokens
<1>2. Sound /\ TokenInv /\ [Next]_vars => Sound' /\ TokenInv'
  BY NextSound, NextTokens
<1>3. TokenInv => ReplayedOnlyIfOrphaned
  BY DEF TokenInv
<1>4. QED
  BY <1>1, <1>2, <1>3, PTL DEF Spec
=============================================================================
