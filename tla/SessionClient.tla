---------------------------- MODULE SessionClient ----------------------------
(***************************************************************************)
(* The dashboard's session: the fetch wrapper of lib/api.js, the           *)
(* AuthProvider, the guards and the shell, in several tabs of one browser. *)
(* The tabs share the cookie jar and localStorage and nothing else: the    *)
(* promise refreshInFlight, the React state and the calls under way belong *)
(* to one tab and die with its page.  A call is sent, served and delivered *)
(* in three steps, so answers of different calls overtake each other.      *)
(*                                                                         *)
(* The access token of a cookie pair is named by the refresh token minted  *)
(* with it: token 0 is "no cookie".                                        *)
(***************************************************************************)
EXTENDS Naturals, FiniteSets

CONSTANTS
    Tabs,        \* browser tabs of one profile
    SlotsOf,     \* per tab: the calls its page may have under way at once
    First,       \* the slot of the AuthProvider's own GET /auth/me
    Roles,       \* accounts, named by their role
    Views,       \* the shell's tabs that are modelled
    NoUser,      \* React's null user, and an empty localStorage
    MaxTokens,   \* bound: refresh tokens the server mints
    MaxLost,     \* bound: answers or requests the network loses
    MaxReloads,  \* bound: reloads by the person at the keyboard
    Walk,        \* bound: the public pages a person follows links to
    Returning    \* does the browser start with the cookies of an earlier login

ASSUME SlotsAssumption == \A t \in Tabs : First \in SlotsOf[t]
ASSUME BoundsAssumption == {MaxTokens, MaxLost, MaxReloads} \subseteq Nat
ASSUME ViewsAssumption == "dashboard" \in Views
\* The cookies of an earlier login hold a token the server has minted.
ASSUME ReturningAssumption == Returning \in BOOLEAN /\ (Returning => MaxTokens > 0)

VARIABLES
    jar,       \* the cookie pair: [access, token], both named by a token
    stored,    \* localStorage "app_user_data"
    page,      \* per tab: the route
    user,      \* per tab: AuthContext's user
    loading,   \* per tab: AuthContext's loading
    shown,     \* per tab: MainShell's activeTab
    refresh,   \* per tab: refreshInFlight and how far its request is
    calls,     \* per tab and slot: an apiFetch under way
    issued,    \* token -> session it belongs to, 0 before it is minted
    revoked,   \* tokens with revoked_at set
    expired,   \* access tokens past their exp
    ended,     \* sessions whose jti is blacklisted
    holder,    \* session -> the account that logged in
    rotatedFor, \* history: token -> tabs whose presentation rotated it
    replayed,  \* history: tokens a tab presented after its own rotation of them
    orphaned,  \* history: tokens presented whose answer never came back
    lost, reloads

vars == <<jar, stored, page, user, loading, shown, refresh, calls, issued,
          revoked, expired, ended, holder, rotatedFor, replayed, orphaned, lost, reloads>>

browser == <<jar, stored>>
server == <<issued, revoked, expired, ended, holder>>
tabVars == <<page, user, loading, shown>>

Tokens == 1..MaxTokens
Kinds == {"me", "login", "logout", "signup", "work"}
Pages == {"login", "signup", "pending", "app"}

NoCall == [kind |-> "work", phase |-> "free", access |-> 0,
           replay |-> FALSE, ok |-> FALSE, who |-> NoUser, runs |-> 0]
NoRefresh == [phase |-> "idle", token |-> 0, fresh |-> FALSE, minted |-> 0]

TypeOK ==
    /\ jar \in [access : 0..MaxTokens, token : 0..MaxTokens]
    /\ stored \in Roles \cup {NoUser}
    /\ page \in [Tabs -> Pages]
    /\ user \in [Tabs -> Roles \cup {NoUser}]
    /\ loading \in [Tabs -> BOOLEAN]
    /\ shown \in [Tabs -> Views]
    /\ refresh \in [Tabs -> [phase : {"idle", "sent", "served"},
                             token : 0..MaxTokens, fresh : BOOLEAN,
                             minted : 0..MaxTokens]]
    /\ DOMAIN calls = Tabs
    /\ \A t \in Tabs : calls[t] \in [SlotsOf[t] ->
            [kind : Kinds, replay : BOOLEAN, ok : BOOLEAN, runs : 0..2,
             phase : {"free", "sent", "served", "awaiting", "threw", "leaving"},
             access : 0..MaxTokens, who : Roles \cup {NoUser}]]
    /\ issued \in [Tokens -> 0..MaxTokens]
    /\ revoked \subseteq Tokens /\ expired \subseteq Tokens
    /\ ended \subseteq Tokens
    /\ holder \in [Tokens -> Roles \cup {NoUser}]
    /\ rotatedFor \in [Tokens -> SUBSET Tabs] /\ replayed \subseteq Tokens
    /\ orphaned \subseteq Tokens
    /\ lost \in 0..MaxLost /\ reloads \in 0..MaxReloads

-----------------------------------------------------------------------------
(* Who may see what: roles, navigation, guards.                            *)

\* The key a role string falls under; a name the table does not know, such
\* as the VIEWER an account without a role gets, is the master administrator.
RoleKey(r) ==
    IF r \in {"CAMPAIGN_MANAGER", "VERIFIER", "QA", "REPORTING_USER",
              "DEVOPS_IT", "DEVELOPER"} THEN r ELSE "MASTER_ADMIN"

\* NAVIGATION_CONFIG: the role keys each tab of the shell lists.
NavigationConfig ==
    LET managers == {"MASTER_ADMIN", "CAMPAIGN_MANAGER"} IN
    [dashboard  |-> managers \cup {"VERIFIER", "QA", "REPORTING_USER",
                                   "DEVOPS_IT", "DEVELOPER"},
     leads      |-> managers,
     campaigns  |-> managers \cup {"QA", "REPORTING_USER"},
     scripts    |-> managers \cup {"QA"},
     calls      |-> managers \cup {"VERIFIER", "QA", "REPORTING_USER", "DEVOPS_IT"},
     transfers  |-> managers \cup {"VERIFIER", "QA"},
     verifier   |-> {"MASTER_ADMIN", "VERIFIER"},
     qa         |-> managers \cup {"QA", "REPORTING_USER"},
     analytics  |-> managers \cup {"QA", "REPORTING_USER"},
     system     |-> {"MASTER_ADMIN", "DEVOPS_IT"},
     recording  |-> managers \cup {"VERIFIER", "QA"},
     audit_logs |-> {"MASTER_ADMIN", "QA", "DEVOPS_IT"},
     users      |-> {"MASTER_ADMIN", "DEVOPS_IT"},
     profile    |-> managers \cup {"VERIFIER", "QA", "REPORTING_USER",
                                   "DEVOPS_IT", "DEVELOPER"},
     settings   |-> managers \cup {"QA", "DEVOPS_IT"}]

\* The entries the sidebar lists for the account a tab shows.
SidebarOffers(t) == {v \in Views : RoleKey(user[t]) \in NavigationConfig[v]}

\* The view the shell renders: a tab that the role does not list, whether it
\* came from the address, the search box or a click, becomes the dashboard.
ViewTab(t) ==
    IF RoleKey(user[t]) \in NavigationConfig[shown[t]] THEN shown[t] ELSE "dashboard"

\* What ProtectedRoute and PendingGuard let through.  The account status the
\* second one reads is a field no profile of the API carries, so it is always
\* the default APPROVED and only the first one ever holds a tab back.
ShowsApp(t) == page[t] = "app" /\ ~loading[t] /\ user[t] # NoUser

-----------------------------------------------------------------------------
(* apiFetch: sending, and what the server makes of it.                     *)

Send(kind, who, again) ==
    [kind |-> kind, phase |-> "sent", access |-> jar.access,
     replay |-> again, ok |-> FALSE, who |-> who, runs |-> 0]

\* Endpoints whose 401 is final.
IsAuthEndpoint(kind) == kind \in {"login", "logout"}

StartCall(t, s, kind, who) ==
    /\ calls[t][s].phase \in {"free", "threw"}
    /\ calls' = [calls EXCEPT ![t][s] = Send(kind, who, FALSE)]

\* The tokens a page's teardown leaves without an answer in the jar.
Abandoned(t) == IF refresh[t].phase = "idle" THEN {} ELSE {refresh[t].token} \ {0}

\* A hard navigation or a reload: the tab's JavaScript is gone, a new page
\* mounts, shows the stored profile if there is one and asks for /auth/me.
Mount(t, target, view, cookies, profile) ==
    /\ page' = [page EXCEPT ![t] = target]
    /\ user' = [user EXCEPT ![t] = profile]
    /\ loading' = [loading EXCEPT ![t] = (profile = NoUser)]
    /\ shown' = [shown EXCEPT ![t] = view]
    /\ refresh' = [refresh EXCEPT ![t] = NoRefresh]
    /\ orphaned' = orphaned \cup Abandoned(t)
    /\ calls' = [calls EXCEPT ![t] = [s \in SlotsOf[t] |->
            IF s = First
            THEN [Send("me", NoUser, FALSE) EXCEPT !.access = cookies.access]
            ELSE NoCall]]

LiveAccess(a) == a # 0 /\ a \notin expired /\ issued[a] \notin ended

\* The server answers a call.  Login mints a session with its cookie pair;
\* logout ends the session its access token still names, once: a second logout
\* finds it revoked and commits nothing, not even the revocation of a token
\* minted meanwhile; anything else needs a live access token, and work that is
\* accepted has been done.
ServeCall(t, s) ==
    LET c == calls[t][s]
        minted == {k \in Tokens : issued[k] = 0}
        settle(ok) == calls' = [calls EXCEPT ![t][s].phase = "served",
                                             ![t][s].ok = ok, ![t][s].access = 0]
    IN
    /\ c.phase = "sent"
    /\ \/ /\ c.kind = "login"
          /\ \E n \in minted : (\A k \in minted : n <= k) /\
                /\ issued' = [issued EXCEPT ![n] = n]
                /\ holder' = [holder EXCEPT ![n] = c.who]
                /\ calls' = [calls EXCEPT ![t][s].phase = "served",
                                          ![t][s].ok = TRUE, ![t][s].access = n]
          /\ UNCHANGED <<revoked, ended>>
       \/ /\ c.kind \in {"login", "signup"}     \* wrong password, taken name
          /\ settle(FALSE)
          /\ UNCHANGED <<issued, holder, revoked, ended>>
       \/ /\ c.kind = "signup"
          /\ settle(TRUE)
          /\ UNCHANGED <<issued, holder, revoked, ended>>
       \/ /\ c.kind = "logout"
          /\ settle(TRUE)
          /\ IF LiveAccess(c.access)      \* otherwise nothing is committed
             THEN /\ ended' = ended \cup {issued[c.access]}
                  /\ revoked' = revoked \cup
                        {k \in Tokens : issued[k] = issued[c.access]}
             ELSE UNCHANGED <<ended, revoked>>
          /\ UNCHANGED <<issued, holder>>
       \/ /\ c.kind \in {"me", "work"}
          /\ calls' = [calls EXCEPT ![t][s] =
                IF LiveAccess(c.access)
                THEN [c EXCEPT !.phase = "served", !.ok = TRUE, !.access = 0,
                               !.who = IF c.kind = "me"
                                       THEN holder[issued[c.access]] ELSE c.who,
                               !.runs = c.runs + 1]
                ELSE [c EXCEPT !.phase = "served", !.ok = FALSE, !.access = 0]]
          /\ UNCHANGED <<issued, holder, revoked, ended>>
    /\ UNCHANGED <<browser, tabVars, refresh, expired, rotatedFor, replayed, orphaned, lost, reloads>>

\* The refresh endpoint.  A token that is not revoked is rotated.  A revoked
\* one revokes its family, unless it was still good when this request set out:
\* the row is read without a lock, so the server may have read it before the
\* other rotation committed and rotate it a second time.
ServeRefresh(t) ==
    LET k == refresh[t].token
        free == {n \in Tokens : issued[n] = 0}
        rotate == \E n \in free : (\A m \in free : n <= m) /\
            /\ issued' = [issued EXCEPT ![n] = issued[k]]
            /\ revoked' = revoked \cup {k}
            /\ refresh' = [refresh EXCEPT ![t].phase = "served", ![t].minted = n]
            /\ rotatedFor' = [rotatedFor EXCEPT ![k] = @ \cup {t}]
        refuse(dead) ==
            /\ revoked' = revoked \cup dead
            /\ refresh' = [refresh EXCEPT ![t].phase = "served"]
            /\ UNCHANGED <<issued, rotatedFor>>
    IN
    /\ refresh[t].phase = "sent"
    /\ \/ k = 0 /\ refuse({})
       \/ k # 0 /\ (k \notin revoked \/ refresh[t].fresh) /\ rotate
       \/ k # 0 /\ k \notin revoked /\ refuse({})   \* past its date, account closed
       \/ k # 0 /\ k \in revoked
          /\ refuse({n \in Tokens : issued[n] = issued[k]})
    /\ UNCHANGED <<browser, tabVars, calls, expired, ended, holder, replayed,
                   orphaned, lost, reloads>>

\* The access token's exp passes.
Expire ==
    /\ jar.access # 0 /\ jar.access \notin expired
    /\ expired' = expired \cup {jar.access}
    /\ UNCHANGED <<browser, tabVars, refresh, calls, issued, revoked, ended,
                   holder, rotatedFor, replayed, orphaned, lost, reloads>>

-----------------------------------------------------------------------------
(* apiFetch: the answers.                                                  *)

\* redirectToLogin: the profile is cleared and, unless the tab is there
\* already, the login page replaces this one.
RedirectToLogin(t) ==
    /\ stored' = NoUser
    /\ Mount(t, "login", "dashboard", jar, NoUser)

\* The caller of an apiFetch gets a response that is not ok (401, or status 0
\* of a transport failure): /auth/me keeps the profile and stops loading, a
\* refused login or sign-up shows its error, logout goes on regardless.
Settle(t, s) ==
    LET c == calls[t][s] IN
    IF c.kind = "logout"
    THEN /\ stored' = NoUser
         /\ Mount(t, "login", "dashboard", jar, NoUser)
    ELSE /\ calls' = [calls EXCEPT ![t][s] = NoCall]
         /\ loading' = IF c.kind = "work" THEN loading ELSE [loading EXCEPT ![t] = FALSE]
         /\ UNCHANGED <<stored, page, user, shown, refresh, orphaned>>

\* (mutant) Without refreshInFlight: every 401 sends its own refresh.
AwaitRefreshAlone(t, s) ==
    /\ calls' = [calls EXCEPT ![t][s].phase = "awaiting"]
    /\ refresh' = [refresh EXCEPT ![t] =
            [phase |-> "sent", token |-> jar.token, minted |-> 0,
             fresh |-> jar.token # 0 /\ jar.token \notin revoked]]
    /\ replayed' = replayed \cup {k \in Tokens : k = jar.token /\ t \in rotatedFor[k]}

\* refreshAccessToken for a call that met a 401: the promise in flight is
\* shared, and only when there is none a request is sent.
AwaitRefresh(t, s) ==
    /\ calls' = [calls EXCEPT ![t][s].phase = "awaiting"]
    /\ IF refresh[t].phase # "idle"
       THEN UNCHANGED <<refresh, replayed>>
       ELSE /\ refresh' = [refresh EXCEPT ![t] =
                 [phase |-> "sent", token |-> jar.token, minted |-> 0,
                  fresh |-> jar.token # 0 /\ jar.token \notin revoked]]
            /\ replayed' = replayed \cup {k \in Tokens : k = jar.token /\ t \in rotatedFor[k]}

\* An answer that is ok reaches its caller.
DeliverOk(t, s) ==
    LET c == calls[t][s] IN
    /\ c.phase = "served" /\ c.ok
    /\ \/ /\ c.kind = "me"
          /\ stored' = c.who
          /\ user' = [user EXCEPT ![t] = c.who]
          /\ loading' = [loading EXCEPT ![t] = FALSE]
          /\ calls' = [calls EXCEPT ![t][s] = NoCall]
          /\ UNCHANGED <<jar, page, shown, refresh, orphaned>>
       \/ /\ c.kind = "login"
          /\ jar' = [access |-> c.access, token |-> c.access]
          /\ stored' = c.who
          /\ user' = [user EXCEPT ![t] = c.who]
          /\ loading' = [loading EXCEPT ![t] = FALSE]
          /\ calls' = [calls EXCEPT ![t][s] = NoCall]
          /\ UNCHANGED <<page, shown, refresh, orphaned>>
       \/ /\ c.kind = "logout"
          /\ jar' = [access |-> 0, token |-> 0]
          /\ stored' = NoUser
          /\ Mount(t, "login", "dashboard", jar', NoUser)
       \/ /\ c.kind = "signup"
          /\ loading' = [loading EXCEPT ![t] = FALSE]
          /\ calls' = [calls EXCEPT ![t][s].phase = "leaving"]
          /\ UNCHANGED <<browser, page, user, shown, refresh, orphaned>>
       \/ /\ c.kind = "work"
          /\ calls' = [calls EXCEPT ![t][s] = NoCall]
          /\ UNCHANGED <<browser, tabVars, refresh, orphaned>>
    /\ UNCHANGED <<server, rotatedFor, replayed, lost, reloads>>

\* An answer that is not ok: the first 401 of a call waits for the refresh, a
\* 401 of an auth endpoint or of the replay is the caller's.
DeliverRefused(t, s) ==
    LET c == calls[t][s] IN
    /\ c.phase = "served" /\ ~c.ok
    /\ IF c.kind \in {"me", "work"} /\ ~IsAuthEndpoint(c.kind) /\ ~c.replay
       THEN AwaitRefresh(t, s) /\ UNCHANGED <<stored, tabVars, orphaned>>
       ELSE Settle(t, s) /\ UNCHANGED replayed
    /\ UNCHANGED <<jar, server, rotatedFor, lost, reloads>>

\* (mutant) A transport failure is retried like a 401.
LoseCallRetrying(t, s) ==
    LET c == calls[t][s] IN
    /\ c.phase \in {"sent", "served"} /\ lost < MaxLost
    /\ lost' = lost + 1
    /\ calls' = [calls EXCEPT ![t][s].phase = "sent", ![t][s].access = jar.access]
    /\ UNCHANGED <<browser, tabVars, refresh, orphaned, server, rotatedFor, replayed,
                   reloads>>

\* The network loses a request on its way or an answer on its way back.  The
\* wrapper turns the failure of the first attempt into a response; the
\* replay's promise is returned out of the try block, so its failure rejects.
LoseCall(t, s) ==
    LET c == calls[t][s] IN
    /\ c.phase \in {"sent", "served"} /\ lost < MaxLost
    /\ lost' = lost + 1
    /\ IF c.replay /\ c.kind = "work"
       THEN /\ calls' = [calls EXCEPT ![t][s].phase = "threw"]
            /\ UNCHANGED <<stored, tabVars, refresh, orphaned>>
       ELSE Settle(t, s)
    /\ UNCHANGED <<jar, server, rotatedFor, replayed, reloads>>

\* (mutant) Only the call that started the refresh is sent again.
RefreshAnsweredForOne(t) ==
    /\ refresh[t].phase = "served" /\ refresh[t].minted # 0
    /\ jar' = [access |-> refresh[t].minted, token |-> refresh[t].minted]
    /\ refresh' = [refresh EXCEPT ![t] = NoRefresh]
    /\ \E s \in SlotsOf[t] :
        /\ calls[t][s].phase = "awaiting"
        /\ calls' = [calls EXCEPT ![t][s].phase = "sent", ![t][s].replay = TRUE,
                                  ![t][s].access = refresh[t].minted]
    /\ UNCHANGED <<stored, tabVars, server, rotatedFor, replayed, orphaned, lost, reloads>>

\* The shared refresh ends well: the cookies are in the jar and every call
\* that waited is sent once more.
RefreshAnswered(t) ==
    /\ refresh[t].phase = "served" /\ refresh[t].minted # 0
    /\ jar' = [access |-> refresh[t].minted, token |-> refresh[t].minted]
    /\ refresh' = [refresh EXCEPT ![t] = NoRefresh]
    /\ calls' = [calls EXCEPT ![t] = [s \in SlotsOf[t] |->
            IF @[s].phase = "awaiting"
            THEN [@[s] EXCEPT !.phase = "sent", !.replay = TRUE,
                              !.access = refresh[t].minted]
            ELSE @[s]]]
    /\ UNCHANGED <<stored, tabVars, server, rotatedFor, replayed, orphaned, lost, reloads>>

\* It is refused or lost: either way the waiting callers get their 401 and the
\* tab goes to the login page.  The login page itself stays where it is.
RefreshFailed(t) ==
    /\ \/ refresh[t].phase = "served" /\ refresh[t].minted = 0 /\ UNCHANGED lost
       \/ refresh[t].phase # "idle" /\ lost < MaxLost /\ lost' = lost + 1
    /\ IF page[t] # "login"
       THEN RedirectToLogin(t)
       ELSE /\ stored' = NoUser
            /\ refresh' = [refresh EXCEPT ![t] = NoRefresh]
            /\ orphaned' = IF refresh[t].minted # 0 \/ refresh[t].phase = "sent"
                           THEN orphaned \cup Abandoned(t) ELSE orphaned
            /\ loading' = [loading EXCEPT ![t] =
                    IF \E s \in SlotsOf[t] : calls[t][s].phase = "awaiting" /\
                                        calls[t][s].kind = "me" THEN FALSE ELSE @]
            /\ calls' = [calls EXCEPT ![t] = [s \in SlotsOf[t] |->
                    IF @[s].phase = "awaiting" THEN NoCall ELSE @[s]]]
            /\ UNCHANGED <<page, user, shown>>
    /\ UNCHANGED <<jar, server, rotatedFor, replayed, reloads>>

-----------------------------------------------------------------------------
(* The pages.                                                              *)

\* The two forms: nothing but a spinner while the provider is loading, so
\* neither can be submitted before the mount's own /auth/me has settled, nor
\* twice.
LoginForm(t) == page[t] = "login" /\ ~loading[t]
SignupForm(t) == page[t] = "signup" /\ ~loading[t]

\* The login form is submitted; the provider is loading until the answer.
SubmitLogin(t, s) ==
    /\ LoginForm(t)
    /\ \E r \in Roles : StartCall(t, s, "login", r)
    /\ loading' = [loading EXCEPT ![t] = TRUE]
    /\ UNCHANGED <<browser, server, page, user, shown, refresh, rotatedFor, replayed,
                   orphaned, lost, reloads>>

\* The sign-up form: the same, and the account created waits for approval.
SubmitSignup(t, s) ==
    /\ SignupForm(t)
    /\ StartCall(t, s, "signup", NoUser)
    /\ loading' = [loading EXCEPT ![t] = TRUE]
    /\ UNCHANGED <<browser, server, page, user, shown, refresh, rotatedFor, replayed,
                   orphaned, lost, reloads>>

\* The timer of an accepted sign-up runs out: whichever page the tab shows by
\* then is left for the one that asks to wait for approval.
LeaveSignup(t) ==
    /\ \E s \in SlotsOf[t] : calls[t][s].phase = "leaving"
    /\ Mount(t, "pending", "dashboard", jar, stored)
    /\ UNCHANGED <<browser, server, rotatedFor, replayed, lost, reloads>>

\* The links between the public pages.
PublicLinks == {<<"login", "signup">>, <<"signup", "login">>,
                <<"pending", "login">>, <<"pending", "signup">>}

\* Client-side links keep the provider and everything under way.
FollowLink(t, target) ==
    /\ <<page[t], target>> \in PublicLinks /\ target \in Walk
    /\ page' = [page EXCEPT ![t] = target]
    /\ UNCHANGED <<browser, server, user, loading, shown, refresh, calls,
                   rotatedFor, replayed, orphaned, lost, reloads>>

\* The login page's effect: a tab that has a user goes to the shell.
EnterApp(t) ==
    /\ LoginForm(t) /\ user[t] # NoUser
    /\ Mount(t, "app", "dashboard", jar, stored)
    /\ UNCHANGED <<browser, server, rotatedFor, replayed, lost, reloads>>

\* ProtectedRoute's effect: a shell without a user goes to the login page.
LeaveApp(t) ==
    /\ page[t] = "app" /\ ~loading[t] /\ user[t] = NoUser
    /\ Mount(t, "login", "dashboard", jar, stored)
    /\ UNCHANGED <<browser, server, rotatedFor, replayed, lost, reloads>>

\* A click on an entry of the sidebar.
OpenTab(t, v) ==
    /\ ShowsApp(t) /\ v \in SidebarOffers(t) /\ shown[t] # v
    /\ shown' = [shown EXCEPT ![t] = v]
    /\ UNCHANGED <<browser, server, page, user, loading, refresh, calls,
                   rotatedFor, replayed, orphaned, lost, reloads>>

\* What a view asks for: on the profile a save is followed by refreshUser,
\* which is one more "me".
CallsOf(view) == IF view = "profile" THEN {"work", "me"} ELSE {"work"}

\* The view that is mounted calls the API.
ViewCalls(t, s) ==
    /\ ShowsApp(t)
    /\ \E kind \in CallsOf(ViewTab(t)) : StartCall(t, s, kind, NoUser)
    /\ UNCHANGED <<browser, server, tabVars, refresh, rotatedFor, replayed, orphaned, lost, reloads>>

\* The profile page's sign-out button.
SignOut(t, s) ==
    /\ ShowsApp(t) /\ ViewTab(t) = "profile"
    /\ StartCall(t, s, "logout", NoUser)
    /\ UNCHANGED <<browser, server, tabVars, refresh, rotatedFor, replayed, orphaned, lost, reloads>>

\* The person reloads the page, or types an address of the shell, whatever is
\* under way.
Reload(t) ==
    /\ reloads < MaxReloads
    /\ reloads' = reloads + 1
    /\ \E v \in Views : (page[t] = "app" \/ v = shown[t]) /\ Mount(t, page[t], v, jar, stored)
    /\ UNCHANGED <<browser, server, rotatedFor, replayed, lost>>

-----------------------------------------------------------------------------
\* The browser is opened on every tab at once: with nothing in it on the login
\* page, or in the shell with a session that token 1 and its cookies carry.
Init ==
    LET k == IF Returning THEN 1 ELSE 0 IN
    /\ \E r \in Roles :
        /\ stored = IF Returning THEN r ELSE NoUser
        /\ holder = [n \in Tokens |-> IF n = k THEN r ELSE NoUser]
    /\ jar = [access |-> k, token |-> k]
    /\ page = [t \in Tabs |-> IF Returning THEN "app" ELSE "login"]
    /\ user = [t \in Tabs |-> stored] /\ loading = [t \in Tabs |-> ~Returning]
    /\ shown = [t \in Tabs |-> "dashboard"]
    /\ refresh = [t \in Tabs |-> NoRefresh]
    /\ calls = [t \in Tabs |-> [s \in SlotsOf[t] |->
            IF s = First
            THEN [NoCall EXCEPT !.kind = "me", !.phase = "sent", !.access = k]
            ELSE NoCall]]
    /\ issued = [n \in Tokens |-> IF n = k THEN 1 ELSE 0]
    /\ revoked = {} /\ expired = {} /\ ended = {}
    /\ rotatedFor = [n \in Tokens |-> {}] /\ replayed = {} /\ orphaned = {}
    /\ lost = 0 /\ reloads = 0

TabNext(t) ==
    \/ EnterApp(t) \/ LeaveApp(t) \/ LeaveSignup(t) \/ Reload(t)
    \/ ServeRefresh(t) \/ RefreshAnswered(t) \/ RefreshFailed(t)
    \/ \E p \in Pages : FollowLink(t, p)
    \/ \E v \in Views : OpenTab(t, v)
    \/ \E s \in SlotsOf[t] :
        \/ SubmitLogin(t, s) \/ SubmitSignup(t, s)
        \/ ViewCalls(t, s) \/ SignOut(t, s)
        \/ ServeCall(t, s) \/ DeliverOk(t, s) \/ DeliverRefused(t, s)
        \/ LoseCall(t, s)

Next == Expire \/ \E t \in Tabs : TabNext(t)

\* The server answers what reaches it and the browser hands answers over; the
\* person at the keyboard owes nothing.
Fairness ==
    \A t \in Tabs :
        /\ WF_vars(ServeRefresh(t)) /\ WF_vars(RefreshAnswered(t))
        /\ WF_vars(RefreshFailed(t))
        /\ \A s \in SlotsOf[t] :
            WF_vars(ServeCall(t, s)) /\ WF_vars(DeliverOk(t, s) \/ DeliverRefused(t, s))

Spec == Init /\ [][Next]_vars /\ Fairness

-----------------------------------------------------------------------------
\* A tab presents a refresh token that its own refresh has already rotated
\* only when the answer of that rotation never reached the jar (lost, or its
\* page was torn down).  This is what refreshInFlight is for: the rotation has
\* revoked the token, and presenting it again revokes the whole family.
ReplayedOnlyIfOrphaned == replayed \subseteq orphaned

\* A call is carried out at most once, however many 401s, refreshes and
\* replays the wrapper goes through for it.
CarriedOutOnce == \A t \in Tabs : \A s \in SlotsOf[t] : calls[t][s].runs <= 1

\* Every call comes back to its caller: nothing waits for ever on the shared
\* refresh promise.
CallsSettle ==
    \A t \in Tabs : \A s \in SlotsOf[t] :
        calls[t][s].phase = "awaiting" ~> calls[t][s].phase # "awaiting"

\* Jar, tabs, calls and the server's sessions keep their types, and no call is
\* carried out twice (CarriedOutOnce).
Consistent == TypeOK /\ CarriedOutOnce
=============================================================================
