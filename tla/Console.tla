---- MODULE Console ----
(***************************************************************************
 The console as one session sees it: App's routes, the token and role of
 store/useStore.ts, the links of Sidebar and Header, and the pages behind them.

 A login leads to the Dashboard; a logout, or an answer with status 401 to any
 apiFetch, drops the token, and with it everything the pages hold.  One page is
 mounted at a time.  What a page does in several places that share no state is
 explored one facet at a time: the Dashboard as a map, a desk and a page that
 polls, Logs as its queries or its AI hunt, and so on.

 Not modelled: tokens that outlive their role, the two collapsed side bars, and
 an address typed in (the routes look at the token only), except for the pages
 that look at the role themselves.
 ***************************************************************************)
EXTENDS Integers, Sequences, FiniteSets

CONSTANTS Roles,
          Rows, NoRow, Root, MaxOps, MaxCalls,
          Subjects, NoSubject, MaxAsks,
          Guests, NoGuest, Actions, Policies, Gap, MaxCmds,
          Hosts, Containers, Nodes, Hypervisors, Links, Added, MaxGen, MaxRefused, MaxUploads,
          MaxPolls, MaxKeys, MaxEdits,
          Ids, MaxBatch, Shape, StoreCap, LayoutCap, DashCap, TTL, MaxTime, Layers,
          Views, TopN, ChartBuckets, MaxJobs

ASSUME NamesAssumption ==
  /\ "none" \notin Roles
  /\ Root \in Rows /\ NoRow \notin Rows
  /\ NoSubject \notin Subjects
  /\ NoGuest \notin Guests
ASSUME BoundsAssumption ==
  /\ {MaxOps, MaxAsks, MaxCmds, MaxRefused, MaxUploads} \subseteq Nat
  /\ {MaxCalls, MaxGen} \subseteq Nat \ {0}
\* A container is on a host and has a name.
ASSUME ShapesAssumption == \A c \in Containers : c = [host |-> c.host, name |-> c.name]
\* A policy is as good in the other mode: the mode buttons keep the thresholds.
ASSUME PoliciesAssumption ==
  /\ Gap \in Nat
  /\ \A p \in Policies : p.on \in Int /\ p.off \in Int
  /\ \A p \in Policies, m \in {"auto", "max"} : [p EXCEPT !.mode = m] \in Policies
  /\ \E p \in Policies : p.mode = "auto" /\ p.off < p.on - Gap

\* Events are numbered as they come; the caps and times of the map.
ASSUME MapAssumption ==
  /\ IsFiniteSet(Ids) /\ Ids = 1..Cardinality(Ids) /\ 1 \in Ids
  /\ \A id \in Ids : Shape[id].at \in Int
  /\ {MaxBatch, LayoutCap, DashCap, TTL, TopN, ChartBuckets} \subseteq Nat
  /\ {StoreCap, MaxTime, MaxJobs} \subseteq Nat \ {0}
  /\ Views # {}

VARIABLES role,     \* userRole while there is a token, else "none"
          list, srv, rows, header, fetched, calls, ops, loading, denied, acting,
          form, running, settle, notice, clears, overlap, bad, refused,
          pane, subject, heading, flight, asks, busy, shown, failed, resets, crossing,
          desk, may, real, seen, confirming, agreed, busyWith, cmds, sentCmds,
          refreshes, policy, shownPolicy, draft, fanBusy, saves, edited, crossed,
          page, cache, asking, gen, failures, tab, host, container, runningOnly,
          dos, edges, own, removed, cut, drawn, selected, wsData, stream, pushed, restAsked,
          fstatus, jobId, results, aiAnalysis, uploads, jobState, requests, aiAsked, stray,
          place, now, store, arrived, stamps, data, layoutDue, display, flushed, layers, view,
          worker, jobs, postedView, arcs, drawArcs, effects, frames

L == INSTANCE Listings
Q == INSTANCE Questions
D == INSTANCE Desk
P == INSTANCE Queries
M == INSTANCE ThreatMap

listVars == <<list, srv, rows, header, fetched, calls, ops, loading, denied, acting,
              form, running, settle, notice, clears, overlap, bad, refused>>
paneVars == <<pane, subject, heading, flight, asks, busy, shown, failed, resets, crossing>>
deskVars == <<desk, may, real, seen, confirming, agreed, busyWith, cmds, sentCmds,
          refreshes, policy, shownPolicy, draft, fanBusy, saves, edited, crossed>>
pageVars == <<page, cache, asking, gen, failures, tab, host, container, runningOnly,
              dos, edges, own, removed, cut, drawn, selected, wsData, stream, pushed, restAsked,
              fstatus, jobId, results, aiAnalysis, uploads, jobState, requests, aiAsked, stray>>
mapVars == <<place, now, store, arrived, stamps, data, layoutDue, display, flushed, layers,
             view, worker, jobs, postedView, arcs, drawArcs, effects, frames>>
vars == <<role, listVars, paneVars, deskVars, pageVars, mapVars>>

----------------------------------------------------------------------------
\* Roles and links.

Admins == {"superadmin", "Super_Administrator"}
Controllers == Admins \cup {"DevOps_Engineer"}

\* navItems of Sidebar, with the roles each link is for; users is the extra link.
NavItems ==
  [dashboard      |-> Admins \cup {"SOC_Analyst_Tier2", "Security_Auditor"},
   topology       |-> Controllers,
   infrastructure |-> Controllers \cup {"SOC_Analyst_Tier2", "Security_Auditor"},
   map            |-> Admins \cup {"SOC_Analyst_Tier2", "Security_Auditor"},
   assets         |-> Controllers \cup {"Penetration_Tester"},
   incidents      |-> Admins \cup {"SOC_Analyst_Tier2", "Penetration_Tester"},
   intel          |-> Admins \cup {"SOC_Analyst_Tier2"},
   forensics      |-> Admins \cup {"SOC_Analyst_Tier2"},
   rules          |-> Controllers,
   logs           |-> Controllers \cup {"SOC_Analyst_Tier2", "Security_Auditor"},
   profile        |-> Controllers \cup {"SOC_Analyst_Tier2", "Security_Auditor", "Penetration_Tester"},
   settings       |-> Admins,
   users          |-> Admins]

\* The login's way to the Dashboard, Header's links to settings and, from a
\* notification, to incidents; users by its address, as it looks at the role.
Anyone == {"dashboard", "settings", "incidents", "users"}
Open(p) == role # "none" /\ (p \in Anyone \/ role \in NavItems[p])

----------------------------------------------------------------------------
\* Login and logout.

NoPage == list = "none" /\ pane = "none" /\ desk = "none" /\ page = "none" /\ place = "none"

Init == role = "none" /\ L!NoList /\ Q!NoPane /\ D!NoDesk /\ P!NoPage /\ M!NoMap

\* Without a token every route leads to the login form.
ProtectedRoute ==
  /\ role = "none" /\ NoPage /\ Q!MountPane("login")
  /\ UNCHANGED <<role, listVars, deskVars, pageVars, mapVars>>

\* The form's answer with a token: setToken, then the Dashboard.
LoggedIn ==
  /\ pane = "login" /\ flight # {} /\ role' \in Roles
  /\ Q!ClearPane
  /\ UNCHANGED <<listVars, deskVars, pageVars, mapVars>>

Clear ==
  /\ IF list # "none" THEN L!ClearList ELSE UNCHANGED listVars
  /\ IF pane # "none" THEN Q!ClearPane ELSE UNCHANGED paneVars
  /\ IF desk # "none" THEN D!ClearDesk ELSE UNCHANGED deskVars
  /\ IF page # "none" THEN P!ClearPage ELSE UNCHANGED pageVars
  /\ IF place # "none" THEN M!UnmountMap ELSE UNCHANGED mapVars

\* Sign out, or apiFetch meets a 401.
DropToken == role # "none" /\ role' = "none" /\ Clear

\* Another link: the page is unmounted.
Leave == role # "none" /\ ~NoPage /\ Clear /\ UNCHANGED role

----------------------------------------------------------------------------
\* The pages and their facets.

PageOf ==
  [users |-> "users", access |-> "users", incidents |-> "incidents", assets |-> "assets",
   feed |-> "intel", profile |-> "profile", settings |-> "settings",
   hunt |-> "logs", search |-> "intel", click |-> "map", lookup |-> "dashboard",
   summary |-> "incidents", validate |-> "rules", dryrun |-> "rules", discord |-> "settings",
   infra |-> "infrastructure", dash |-> "dashboard", logs |-> "logs",
   topology |-> "topology", rules |-> "rules", forensics |-> "forensics",
   map |-> "map", dashboard |-> "dashboard"]

VisitList ==
  /\ \E p \in L!Pages : Open(PageOf[p]) /\ L!MountList(p, role \in Admins)
  /\ UNCHANGED <<role, paneVars, deskVars, pageVars, mapVars>>

\* Settings shows its form to administrators only.
VisitPane ==
  /\ \E p \in Q!Panes \ {"login"} :
       /\ Open(PageOf[p]) /\ (p = "discord" => role \in Admins)
       /\ Q!MountPane(p)
  /\ UNCHANGED <<role, listVars, deskVars, pageVars, mapVars>>

VisitDesk ==
  /\ \E p \in {"infra", "dash"} :
       Open(PageOf[p]) /\ D!MountDesk(p, role \in Admins, role \in Controllers)
  /\ UNCHANGED <<role, listVars, paneVars, pageVars, mapVars>>

VisitPolling ==
  /\ \E p \in P!QueryPages : Open(PageOf[p]) /\ P!MountPage(p)
  /\ UNCHANGED <<role, listVars, paneVars, deskVars, mapVars>>

VisitMap ==
  /\ \E p \in {"map", "dashboard"} : Open(PageOf[p]) /\ M!MountMap(p)
  /\ UNCHANGED <<role, listVars, paneVars, deskVars, pageVars>>

\* A page of one module goes on, the other modules' variables stay.
OnList == list # "none" /\ UNCHANGED <<role, paneVars, deskVars, pageVars, mapVars>>
OnPane == pane # "none" /\ UNCHANGED <<role, listVars, deskVars, pageVars, mapVars>>
OnDesk == desk # "none" /\ UNCHANGED <<role, listVars, paneVars, pageVars, mapVars>>
OnPage == page # "none" /\ UNCHANGED <<role, listVars, paneVars, deskVars, mapVars>>
OnMap == place # "none" /\ UNCHANGED <<role, listVars, paneVars, deskVars, pageVars>>

Next ==
  \/ ProtectedRoute \/ LoggedIn \/ DropToken \/ Leave
  \/ NoPage /\ (VisitList \/ VisitPane \/ VisitDesk \/ VisitPolling \/ VisitMap)
  \/ OnList /\ L!LNext
  \/ OnPane /\ Q!QNext
  \/ OnDesk /\ D!DNext
  \/ OnPage /\ P!PNext
  \/ OnMap /\ M!MapNext

\* A page that stays goes on without the user: requests end and timers fire; on
\* Forensics the interval ticks and its polls are answered besides.
Spec ==
  /\ Init /\ [][Next]_vars
  /\ L!ListFairness /\ Q!PaneFairness /\ D!DeskFairness /\ P!PollFairness

----------------------------------------------------------------------------
\* Each property below begins with the type invariant of its module.

\* The map shows what the store holds: see ArcsFitDisplay, OneLoop, StampsFit and
\* PanelsFit of ThreatMap.
MapFits == M!MapTypeOK /\ M!MapFits

\* The answer a pane shows is the answer to its last question.
AnswerFits == Q!QTypeOK /\ Q!AnswerFits

\* A page at rest shows what the server holds.
ListFits == L!LTypeOK /\ L!ListFits

\* A polling page shows what it asked for, and nothing older than it has shown.
PollFits == P!PTypeOK /\ P!PollFits

\* The controls over the Proxmox host wait for their commands, ask before the
\* destructive ones, and show the policy in force; only the two kinds of role that
\* may control it have a command or a save in flight.
DeskFits ==
  /\ role \in Roles \cup {"none"} /\ D!DTypeOK /\ D!DeskFits
  /\ cmds # {} => role \in Controllers
  /\ saves # {} => desk = "infra" /\ role \in Controllers

Waiting == Q!Busy \/ L!Spinning \/ D!Commanding \/ P!Working

\* No page stays busy: spinners, running marks, disabled buttons, an upload, the
\* assessment and a job's "analyzing" all end, and so does the fan panel's own mark.
\* For a job that the back end lost when it started again Forensics polls for ever;
\* that wait is no part of Waiting.
Settles == (Waiting ~> ~Waiting) /\ (fanBusy ~> ~fanBusy)
====
