------------------------------- MODULE Shell -------------------------------
(***************************************************************************)
(* The frame around the desks of the dashboard: which tab and which part   *)
(* of it an address names, whom the tab is for, and the calls that a desk  *)
(* has sent (components/layout/MainShell.jsx, Sidebar.jsx, TopNavbar.jsx,  *)
(* config/navigation.js, lib/api.js).  A tab a role may not see shows the  *)
(* dashboard instead.  Sessions and sign-in are in SessionClient.          *)
(*                                                                         *)
(* Bounds: Clicks clicks, MaxCalls calls in flight.                        *)
(***************************************************************************)
EXTENDS Naturals

CONSTANTS
  Roles,    \* the roles of the user on screen
  MaxCalls, Clicks

ASSUME Bounds == {MaxCalls, Clicks} \subseteq Nat

VARIABLES
  role,   \* of the user
  tab,    \* viewTab
  route,  \* the part of the tab on screen
  calls,  \* the calls in flight
  clicks  \* what is left of the clicks

place == <<role, tab, route>>

None == "none"
Slots == 1..MaxCalls
Idle == [what |-> None, about |-> None, end |-> "open", mounted |-> FALSE]

\* The parts of a tab, and the one its bare address shows.
Bare == [dashboard |-> None, transfers |-> "monitor", verifier |-> "workspace",
         system |-> "health", recording |-> None, analytics |-> "overview",
         settings |-> "general"]
Subtabs == [dashboard |-> {}, transfers |-> {}, verifier |-> {"history"},
            system |-> {"alerts", "integrations"}, recording |-> {},
            analytics |-> {"campaigns", "scripts", "sources", "bot", "compliance",
                           "performance", "exports"},
            settings |-> {"general", "telephony", "stt", "tts", "llm", "qualification",
                          "recordings", "compliance", "security", "users", "roles"}]
Tabs == DOMAIN Bare
Routes(t) == Subtabs[t] \union {Bare[t]} \union IF t = "transfers" THEN {"failed"} ELSE {}
AllRoutes == UNION {Routes(t) : t \in Tabs}

\* Whom a tab is for, of the roles a run has.
RolesOf ==
  [dashboard |-> Roles,
   transfers |-> {"MASTER_ADMIN", "CAMPAIGN_MANAGER", "VERIFIER", "QA"},
   verifier |-> {"MASTER_ADMIN", "VERIFIER"},
   system |-> {"MASTER_ADMIN", "DEVOPS_IT"},
   recording |-> {"MASTER_ADMIN", "CAMPAIGN_MANAGER", "VERIFIER", "QA"},
   analytics |-> {"MASTER_ADMIN", "CAMPAIGN_MANAGER", "QA", "REPORTING_USER"},
   settings |-> {"MASTER_ADMIN", "CAMPAIGN_MANAGER", "QA", "DEVOPS_IT"}]
IsTabAllowed(t) == role \in RolesOf[t]

\* The integrations read a list of webhooks the state of the tab does not
\* contain: the page falls over, and no boundary catches it.
Crashed == tab = "system" /\ route = "integrations"

\* The frame as an address shows it.
Show(newTab, newRoute) ==
  /\ IF IsTabAllowed(newTab) THEN tab' = newTab /\ route' = newRoute
                             ELSE tab' = "dashboard" /\ route' = None
  /\ UNCHANGED role

Click == /\ clicks > 0 /\ ~Crashed
         /\ clicks' = clicks - 1

-----------------------------------------------------------------------------
\* A desk sends a call and waits for its end.
Send(what, about) ==
  \E s \in Slots :
    /\ calls[s].what = None
    /\ \A t \in 1..(s - 1) : calls[t].what # None
    /\ calls' = [calls EXCEPT ![s] = [Idle EXCEPT !.what = what, !.about = about,
                                                  !.mounted = TRUE]]

\* It is answered or refused, or the request was never heard of: both look alike
\* to the desk.  It is cut off when its replay is.
End(s, how) ==
  /\ calls[s].what # None /\ calls[s].end = "open"
  /\ calls' = [calls EXCEPT ![s].end = how]
  /\ UNCHANGED <<place, clicks>>

\* A desk that is left does not hear of its calls any more.
Orphaned == [s \in Slots |-> [calls[s] EXCEPT !.mounted = FALSE]]

ShellInit ==
  /\ role \in Roles
  /\ tab \in {t \in Tabs : IsTabAllowed(t)} /\ route \in Routes(tab)
  /\ calls = [s \in Slots |-> Idle]
  /\ clicks = Clicks

ShellTypes ==
  /\ role \in Roles /\ tab \in Tabs /\ route \in Routes(tab) /\ IsTabAllowed(tab)
  /\ \A s \in Slots : calls[s].end \in {"open", "answered", "lost"}
  /\ clicks \in 0..Clicks
=============================================================================
