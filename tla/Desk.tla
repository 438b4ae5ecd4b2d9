---- MODULE Desk ----
(***************************************************************************
 The controls of the console over the Proxmox host: the guest actions of the
 Infrastructure page and of the Dashboard's node rows, and the fan policy of
 ThermalPanel.  What they show comes with the infrastructure stream (module
 InfraSocket); here the stream delivers the server's state at any time.

 A command is sent, takes effect at the server or is refused there, and is
 answered; the answer may be lost.  One page is mounted at a time.

 Abstracted: a guest is its status; the fan policy is a mode and two thresholds;
 what the panels draw of gauges, sensors, disks and storage is left out, as are
 the messages that expire and the pages the console buttons open.
 ***************************************************************************)
EXTENDS Integers, FiniteSets

CONSTANTS Guests,     \* the guests of one node
          NoGuest,
          Actions,      \* what the buttons ask: start, shutdown, reboot, isolate, snapshot
          Policies,     \* the fan policies of the model: mode, on, off
          Gap,          \* 3: degrees between the thresholds
          MaxCmds

VARIABLES desk,       \* "none", "infra" or "dash"
          may,        \* the role may control
          real,       \* the guests at the server
          seen,       \* the guests of the last overview
          confirming, \* the dialog: a guest and an action
          agreed,     \* what the user has confirmed and not sent yet (history)
          busyWith,   \* busy, actionLoading: a guest and an action
          cmds,       \* guest commands in flight
          sentCmds,   \* commands and saves so far
          refreshes,  \* pending refresh timers
          policy,     \* the fan policy at the server
          shownPolicy,\* the policy of the last overview
          draft,
          fanBusy,
          saves,      \* policy saves in flight
          edited,     \* the user moved a slider since draft was last set
          crossed     \* two changes came between overviews, or another's met a save (history)

cmdVars == <<may, real, seen, confirming, agreed, busyWith, cmds, refreshes>>
fanVars == <<policy, shownPolicy, draft, fanBusy, saves, edited, crossed>>
dVars == <<desk, cmdVars, sentCmds, fanVars>>

None == [guest |-> NoGuest, action |-> "none"]
Cmd(g, a) == [guest |-> g, action |-> a]
DESTRUCTIVE == {"stop", "shutdown", "reboot", "isolate"}
Running == [g \in Guests |-> "running"]
Default == CHOOSE p \in Policies : p.mode = "auto" /\ p.off < p.on - Gap

NoDesk ==
  /\ desk = "none" /\ may = FALSE /\ real = Running /\ seen = Running
  /\ confirming = None /\ agreed = None /\ busyWith = None /\ cmds = {}
  /\ sentCmds = 0 /\ refreshes = 0
  /\ policy = Default /\ shownPolicy = Default /\ draft = Default
  /\ fanBusy = FALSE /\ saves = {} /\ edited = FALSE /\ crossed = FALSE

ClearDesk ==
  /\ desk' = "none" /\ may' = FALSE /\ real' = Running /\ seen' = Running
  /\ confirming' = None /\ agreed' = None /\ busyWith' = None /\ cmds' = {}
  /\ sentCmds' = 0 /\ refreshes' = 0
  /\ policy' = Default /\ shownPolicy' = Default /\ draft' = Default
  /\ fanBusy' = FALSE /\ saves' = {} /\ edited' = FALSE /\ crossed' = FALSE

\* The page mounts with an overview; the Dashboard gives its buttons to administrators
\* only, the Infrastructure page to DevOps engineers as well.
MountDesk(p, admin, devops) ==
  /\ desk = "none" /\ desk' = p
  /\ may' = (admin \/ (p = "infra" /\ devops))
  /\ UNCHANGED <<real, seen, confirming, agreed, busyWith, cmds, refreshes,
                 sentCmds, fanVars>>

----------------------------------------------------------------------------
\* Guests.

\* The buttons of a row of NodeBlock, and of ProxmoxNodeRow.
Offered(g) ==
  IF desk = "infra"
  THEN IF seen[g] = "running" THEN {"shutdown", "reboot", "isolate", "snapshot"}
                              ELSE {"start", "snapshot"}
  ELSE {"snapshot"} \cup (IF seen[g] = "running" THEN {"isolate"} ELSE {})

\* The dialog covers the page; a button is disabled while a command runs.
Clickable(g, a) ==
  /\ desk # "none" /\ may /\ confirming = None /\ busyWith = None
  /\ a \in Offered(g) \cap Actions

Execute(g, a) ==
  /\ sentCmds < MaxCmds /\ sentCmds' = sentCmds + 1
  /\ busyWith' = Cmd(g, a)
  /\ cmds' = cmds \cup {[guest |-> g, action |-> a, stage |-> "sent", agreed |-> agreed']}

\* A destructive action asks first; the Dashboard never asks, as its actions only
\* create a request for approval.
handleAction(g, a) ==
  /\ Clickable(g, a) /\ agreed' = None
  /\ IF desk = "infra" /\ a \in DESTRUCTIVE
     THEN confirming' = Cmd(g, a) /\ UNCHANGED <<busyWith, cmds, sentCmds>>
     ELSE Execute(g, a) /\ UNCHANGED confirming
  /\ UNCHANGED <<desk, may, real, seen, refreshes, fanVars>>

\* The dialog's buttons.
Cancel ==
  /\ confirming # None /\ confirming' = None
  /\ UNCHANGED <<desk, may, real, seen, agreed, busyWith, cmds, refreshes, sentCmds, fanVars>>

Confirm ==
  /\ confirming # None /\ confirming' = None
  /\ agreed' = confirming
  /\ Execute(confirming.guest, confirming.action)
  /\ UNCHANGED <<desk, may, real, seen, refreshes, fanVars>>

\* The back end acts, or refuses; isolate and snapshot only ask for approval.
ServeCmd(c) ==
  /\ c \in cmds /\ c.stage = "sent"
  /\ \/ /\ real' = CASE c.action = "start" -> [real EXCEPT ![c.guest] = "running"]
                     [] c.action = "shutdown" -> [real EXCEPT ![c.guest] = "stopped"]
                     [] OTHER -> real
        /\ cmds' = (cmds \ {c}) \cup {[c EXCEPT !.stage = "ok"]}
     \/ UNCHANGED real /\ cmds' = (cmds \ {c}) \cup {[c EXCEPT !.stage = "refused"]}
  /\ UNCHANGED <<desk, may, seen, confirming, agreed, busyWith, refreshes, sentCmds, fanVars>>

CmdAnswerKeepsBusy(c, kind) ==
  /\ c \in cmds /\ kind \in {c.stage, "lost"} \ {"sent"}
  /\ cmds' = cmds \ {c}
  /\ busyWith' = IF kind = "ok" THEN None ELSE busyWith
  /\ UNCHANGED refreshes
  /\ UNCHANGED <<desk, may, real, seen, confirming, agreed, sentCmds, fanVars>>

\* The answer, or its loss: the buttons again, and on the Infrastructure page a
\* refresh 1.5 s after a success.
CmdAnswer(c, kind) ==
  /\ c \in cmds /\ kind \in {c.stage, "lost"} \ {"sent"}
  /\ cmds' = cmds \ {c} /\ busyWith' = None
  /\ refreshes' = IF desk = "infra" /\ kind = "ok" THEN refreshes + 1 ELSE refreshes
  /\ UNCHANGED <<desk, may, real, seen, confirming, agreed, sentCmds, fanVars>>

----------------------------------------------------------------------------
\* Overviews.

\* A new overview: the panel's effect takes the policy over when one of its fields
\* changed, whatever the user has typed.
Overview ==
  /\ seen' = real /\ shownPolicy' = policy
  /\ IF policy # shownPolicy
     THEN draft' = policy /\ edited' = FALSE /\ crossed' = (crossed /\ saves # {})
     ELSE UNCHANGED <<draft, edited, crossed>>

StreamDelivers ==
  /\ desk # "none" /\ <<seen, shownPolicy>> # <<real, policy>>
  /\ Overview
  /\ UNCHANGED <<desk, may, real, confirming, agreed, busyWith, cmds, refreshes, sentCmds,
                 policy, fanBusy, saves>>

\* The refresh after a command.
RefreshTimer ==
  /\ refreshes > 0 /\ refreshes' = refreshes - 1
  /\ Overview
  /\ UNCHANGED <<desk, may, real, confirming, agreed, busyWith, cmds, sentCmds,
                 policy, fanBusy, saves>>

\* Somebody else stops or starts a guest, or changes the policy.
OthersAct ==
  /\ desk # "none" /\ sentCmds < MaxCmds /\ sentCmds' = sentCmds + 1
  /\ \/ /\ \E g \in Guests, s \in {"running", "stopped"} : real' = [real EXCEPT ![g] = s]
        /\ UNCHANGED <<policy, crossed>>
     \/ /\ \E p \in Policies : p.off < p.on - Gap /\ policy' = p
        /\ crossed' = (crossed \/ saves # {} \/ policy # shownPolicy)
        /\ UNCHANGED real
  /\ UNCHANGED <<desk, may, seen, confirming, agreed, busyWith, cmds, refreshes,
                 shownPolicy, draft, fanBusy, saves, edited>>

----------------------------------------------------------------------------
\* The fan panel.

FanPanel == desk = "infra" /\ may /\ confirming = None

\* A slider; in mode max the sliders do not react.
MoveSlider(p) ==
  /\ FanPanel /\ draft.mode # "max" /\ p.mode = draft.mode /\ p # draft
  /\ (p.on = draft.on \/ p.off = draft.off)
  /\ draft' = p /\ edited' = TRUE
  /\ UNCHANGED <<desk, cmdVars, sentCmds, policy, shownPolicy, fanBusy, saves, crossed>>

SaveSends(next) ==
  /\ FanPanel /\ ~fanBusy /\ sentCmds < MaxCmds /\ sentCmds' = sentCmds + 1
  /\ fanBusy' = TRUE
  /\ saves' = saves \cup {[next |-> next, stage |-> "sent"]}
  /\ UNCHANGED <<desk, cmdVars, policy, shownPolicy, draft, edited, crossed>>

\* The mode buttons send the draft's thresholds along, checked or not.
saveMode(mode) == SaveSends([draft EXCEPT !.mode = mode])

\* The threshold button: disabled while they are too close, and in mode max.
saveThresholds ==
  /\ draft.mode # "max" /\ draft.off < draft.on - Gap
  /\ SaveSends(draft)

\* put_policy of the back end refuses thresholds that are too close.
ServeSave(s) ==
  /\ s \in saves /\ s.stage = "sent"
  /\ \/ /\ s.next.off < s.next.on - Gap
        /\ policy' = s.next /\ saves' = (saves \ {s}) \cup {[s EXCEPT !.stage = "ok"]}
        /\ crossed' = (crossed \/ policy # shownPolicy)
     \/ UNCHANGED <<policy, crossed>> /\ saves' = (saves \ {s}) \cup {[s EXCEPT !.stage = "refused"]}
  /\ UNCHANGED <<desk, cmdVars, sentCmds, shownPolicy, draft, fanBusy, edited>>

SaveAnswerKeepsDraft(s, kind) ==
  /\ s \in saves /\ kind \in {s.stage, "lost"} \ {"sent"}
  /\ saves' = saves \ {s} /\ fanBusy' = FALSE
  /\ edited' = IF kind = "ok" THEN FALSE ELSE edited
  /\ UNCHANGED <<desk, cmdVars, sentCmds, policy, shownPolicy, draft, crossed>>

\* What was saved becomes the draft, over what the user moved meanwhile, and an
\* overview is asked for.
SaveAnswer(s, kind) ==
  /\ s \in saves /\ kind \in {s.stage, "lost"} \ {"sent"}
  /\ saves' = saves \ {s} /\ fanBusy' = FALSE
  /\ IF kind = "ok"
     THEN draft' = s.next /\ edited' = FALSE /\ refreshes' = refreshes + 1
     ELSE UNCHANGED <<draft, edited, refreshes>>
  /\ UNCHANGED <<desk, may, real, seen, confirming, agreed, busyWith, cmds, sentCmds,
                 policy, shownPolicy, crossed>>

----------------------------------------------------------------------------
DeskOps ==
  \/ \E g \in Guests, a \in Actions : handleAction(g, a)
  \/ Cancel \/ Confirm \/ OthersAct \/ saveThresholds
  \/ \E p \in Policies : MoveSlider(p)
  \/ \E mode \in {"auto", "max"} : saveMode(mode)

\* Every request ends, timers fire, the stream delivers.
DeskWork ==
  \/ StreamDelivers \/ RefreshTimer
  \/ \E c \in cmds : ServeCmd(c) \/ \E kind \in {"ok", "refused", "lost"} : CmdAnswer(c, kind)
  \/ \E s \in saves : ServeSave(s) \/ \E kind \in {"ok", "refused", "lost"} : SaveAnswer(s, kind)

DNext == DeskOps \/ DeskWork

DeskFairness == WF_dVars(DeskWork)

DTypeOK ==
  /\ desk \in {"none", "infra", "dash"}
  /\ {may, fanBusy, edited, crossed} \subseteq BOOLEAN
  /\ {real, seen} \subseteq [Guests -> {"running", "stopped"}]
  /\ {confirming, agreed, busyWith} \subseteq
       {None} \cup [guest : Guests, action : Actions]
  /\ sentCmds \in 0..MaxCmds
  /\ {policy, shownPolicy, draft} \subseteq Policies

\* A node has one command in flight at most, its buttons wait for it and for nothing
\* else, and a destructive one was confirmed for that guest; the server never holds
\* thresholds that are too close, and once the overview has brought its policy, the
\* panel shows it until the user moves a slider (unless two changes
\* came between two overviews, as the old policy again is no change for the panel, or
\* another administrator's met a save, whose late answer overwrites it).
DeskFits ==
  /\ Cardinality(cmds) <= 1
  /\ busyWith = None <=> cmds = {}
  /\ \A c \in cmds : /\ busyWith = Cmd(c.guest, c.action)
                     /\ desk = "infra" /\ c.action \in DESTRUCTIVE => c.agreed = busyWith
  /\ cmds # {} \/ saves # {} => may
  /\ policy.off < policy.on - Gap
  /\ fanBusy <=> saves # {}
  /\ ~fanBusy /\ ~edited /\ ~crossed /\ shownPolicy = policy => draft = policy

\* A guest's command holds the buttons.
Commanding == busyWith # None
====
