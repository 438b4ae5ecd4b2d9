----------------------------- MODULE Detection -----------------------------
(***************************************************************************)
(* Detection rules and their evaluation: rule_manager keeps one list of    *)
(* rules (app/core/detection/rule_manager.py), the local pipeline worker   *)
(* evaluates every event against it and counts matches (engine.py), and    *)
(* POST /rules/dry-run (main.py) replaces the list by a draft, evaluates   *)
(* sample events with an engine of its own, and loads the list from disk   *)
(* again.                                                                  *)
(*                                                                         *)
(* Dry runs are handlers on the thread pool; the worker is on the event    *)
(* loop. Threads can switch at every access to the shared list, so each    *)
(* access is an action. A list is an object: the worker iterates over the  *)
(* one it got, while a loader appends to whichever is the current one.     *)
(***************************************************************************)
EXTENDS Integers, Sequences, SequencesExt

CONSTANTS
  Disk,      \* the rules on disk, in the order os.listdir gives them
  Drafts,    \* the rules that are tried in dry runs
  Raising,   \* the drafts that cannot be evaluated (selection: null)
  Name,      \* rule["name"]; a draft may be an edit of a rule on disk
  Threshold, \* N of its condition "count > N"
  DryRuns,   \* one member per call of dry_run_rule
  Window,    \* window_seconds, in clock ticks
  MaxEvents, \* bound: events of the one source IP address
  None

Rules == Drafts \cup ToSet(Disk)

ASSUME DetectionAssumption ==
  /\ Disk \in Seq(Rules)
  /\ Raising \subseteq Drafts
  /\ DOMAIN Name = Rules
  /\ Threshold \in [Rules -> Nat \ {0}]
  /\ \A i, j \in DOMAIN Disk : Name[Disk[i]] = Name[Disk[j]] => i = j
  /\ Window \in Nat /\ MaxEvents \in Nat
  /\ None \notin DryRuns

Names == {Name[r] : r \in Rules}

(* The list objects: the one loaded at import, and for each dry run its    *)
(* draft and the one it loads.                                             *)
ListIds == (DryRuns \cup {None}) \X {"draft", "load"}

VARIABLES
  lists,  \* the contents of each list object
  rules,  \* which of them rule_manager.rules is
  dry,    \* where each dry run is
  read,   \* the files a loading dry run has read
  draft,  \* the draft of each dry run
  ref,    \* the list the worker iterates over, or None between events
  at,     \* the index of its iterator
  state,  \* detection_engine.state of the source, by rule name
  ticks,  \* the age of first_seen of each entry
  events, \* events taken by the worker so far
  evaluated, \* history: the rules each dry run has evaluated
  attempts,  \* history: calls of _create_incident since the entry was reset
  since,     \* history: events since then
  overlapped \* history: whether two dry runs ever ran at a time

ruleVars == <<lists, rules, dry, read, draft, evaluated, overlapped>>
workerVars == <<ref, at, state, ticks, events, attempts, since>>
vars == <<ruleVars, workerVars>>

Absent == [count |-> 0, incident_created |-> FALSE]

Init ==
  /\ lists = [l \in ListIds |-> IF l = <<None, "load">> THEN Disk ELSE <<>>]
  /\ rules = <<None, "load">>
  /\ dry = [d \in DryRuns |-> "new"]
  /\ read = [d \in DryRuns |-> 0]
  /\ draft = [d \in DryRuns |-> None]
  /\ ref = None /\ at = 1
  /\ state = [n \in Names |-> Absent]
  /\ ticks = [n \in Names |-> 0]
  /\ events = 0
  /\ evaluated = [d \in DryRuns |-> {}]
  /\ attempts = [n \in Names |-> 0]
  /\ since = [n \in Names |-> 0]
  /\ overlapped = FALSE

Active == {d \in DryRuns : dry[d] \in {"testing", "restoring", "loading"}}

(* Sets the list rule_manager.rules is to l, with the contents s.          *)
Rebind(l, s) == rules' = l /\ lists' = [lists EXCEPT ![l] = s]
-----------------------------------------------------------------------------
SetDraftAppends(d, r) ==
  /\ dry[d] = "new"
  /\ dry' = [dry EXCEPT ![d] = "testing"]
  /\ draft' = [draft EXCEPT ![d] = r]
  /\ lists' = [lists EXCEPT ![rules] = Append(@, r)]
  /\ overlapped' = (overlapped \/ Active # {})
  /\ UNCHANGED <<rules, read, evaluated, workerVars>>

(* rule_manager.rules = [parsed]                                           *)
SetDraft(d, r) ==
  /\ dry[d] = "new"
  /\ dry' = [dry EXCEPT ![d] = "testing"]
  /\ draft' = [draft EXCEPT ![d] = r]
  /\ Rebind(<<d, "draft">>, <<r>>)
  /\ overlapped' = (overlapped \/ Active # {})
  /\ UNCHANGED <<read, evaluated, workerVars>>

(* One sample event against the rules of the moment; six in the code, of   *)
(* which any may be the last here. A rule that raises ends the dry run in  *)
(* its except clause, which restores nothing.                              *)
Test(d) ==
  LET current == ToSet(lists[rules]) IN
  /\ dry[d] = "testing"
  /\ evaluated' = [evaluated EXCEPT ![d] = @ \cup current]
  /\ IF current \cap Raising # {} THEN dry' = [dry EXCEPT ![d] = "failed"]
     ELSE dry' \in {dry, [dry EXCEPT ![d] = "restoring"]}
  /\ UNCHANGED <<lists, rules, read, draft, overlapped, workerVars>>

(* load_local_rules starts over with an empty list ...                     *)
ClearKeepsList(d) ==
  /\ dry[d] = "restoring"
  /\ dry' = [dry EXCEPT ![d] = "loading"]
  /\ UNCHANGED <<lists, rules, read, draft, evaluated, overlapped, workerVars>>

ClearAndSkip(d) ==
  /\ dry[d] = "restoring"
  /\ dry' = [dry EXCEPT ![d] = IF Active = {d} THEN "loading" ELSE "done"]
  /\ Rebind(<<d, "load">>, <<>>)
  /\ UNCHANGED <<read, draft, evaluated, overlapped, workerVars>>

Clear(d) ==
  /\ dry[d] = "restoring"
  /\ dry' = [dry EXCEPT ![d] = "loading"]
  /\ Rebind(<<d, "load">>, <<>>)
  /\ UNCHANGED <<read, draft, evaluated, overlapped, workerVars>>

(* ... and appends each rule it reads to what self.rules then is.          *)
Load(d) ==
  /\ dry[d] = "loading"
  /\ \/ /\ read[d] < Len(Disk)
        /\ read' = [read EXCEPT ![d] = @ + 1]
        /\ lists' = [lists EXCEPT ![rules] = Append(@, Disk[read[d] + 1])]
        /\ UNCHANGED dry
     \/ /\ read[d] = Len(Disk)
        /\ dry' = [dry EXCEPT ![d] = "done"]
        /\ UNCHANGED <<read, lists>>
  /\ UNCHANGED <<rules, draft, evaluated, overlapped, workerVars>>
-----------------------------------------------------------------------------
(* evaluate_event gets the list and iterates over it.                      *)
TakeEvent ==
  /\ ref = None
  /\ events < MaxEvents
  /\ events' = events + 1
  /\ ref' = rules /\ at' = 1
  /\ since' = [n \in Names |-> since[n] + 1]
  /\ UNCHANGED <<state, ticks, attempts, ruleVars>>

Rule == lists[ref][at]

Fresh(n) == state[n].count = 0 \/ ticks[n] > Window

(* _correlate: the entry of the rule's name counts the event, or starts    *)
(* over when its window has passed; from the threshold on it asks for an   *)
(* incident, once per entry, and remembers that it did.                    *)
CorrelateForgets(r) ==
  LET n == Name[r]
      count == IF Fresh(n) THEN 1 ELSE state[n].count + 1
      fires == count >= Threshold[r]
      before == IF Fresh(n) THEN 0 ELSE attempts[n]
  IN
  /\ state' = [state EXCEPT ![n] = [count |-> count, incident_created |-> FALSE]]
  /\ ticks' = [ticks EXCEPT ![n] = IF Fresh(n) THEN 0 ELSE @]
  /\ since' = [since EXCEPT ![n] = IF Fresh(n) THEN 1 ELSE @]
  /\ attempts' = [attempts EXCEPT ![n] = IF fires THEN before + 1 ELSE before]

Correlate(r) ==
  LET n == Name[r]
      old == IF Fresh(n) THEN Absent ELSE state[n]
      count == old.count + 1
      asks == count >= Threshold[r] /\ ~old.incident_created
  IN
  /\ state' = [state EXCEPT ![n] =
       [count |-> count, incident_created |-> old.incident_created \/ asks]]
  /\ ticks' = [ticks EXCEPT ![n] = IF Fresh(n) THEN 0 ELSE @]
  /\ since' = [since EXCEPT ![n] = IF Fresh(n) THEN 1 ELSE @]
  /\ attempts' = [attempts EXCEPT ![n] =
       (IF Fresh(n) THEN 0 ELSE @) + (IF asks THEN 1 ELSE 0)]

(* The next rule of the list: the event does not match it, or is counted.  *)
Evaluate ==
  /\ ref # None
  /\ at <= Len(lists[ref])
  /\ Rule \notin Raising
  /\ at' = at + 1
  /\ Correlate(Rule) \/ UNCHANGED <<state, ticks, since, attempts>>
  /\ UNCHANGED <<ref, events, ruleVars>>

(* Past the end of the list, or at a rule that raises.                     *)
EndEvent ==
  /\ ref # None
  /\ at <= Len(lists[ref]) => Rule \in Raising
  /\ ref' = None /\ at' = 1
  /\ UNCHANGED <<state, ticks, events, attempts, since, ruleVars>>

Aging == {n \in Names : state[n].count > 0 /\ ticks[n] <= Window}

Tick ==
  /\ Aging # {}
  /\ ticks' = [n \in Names |-> ticks[n] + (IF n \in Aging THEN 1 ELSE 0)]
  /\ UNCHANGED <<ref, at, state, events, attempts, since, ruleVars>>

Finished ==
  /\ events = MaxEvents /\ ref = None
  /\ \A d \in DryRuns : dry[d] \in {"done", "failed"}
  /\ UNCHANGED vars

Next ==
  \/ \E d \in DryRuns :
       \/ \E r \in Drafts : SetDraft(d, r)
       \/ Test(d) \/ Clear(d) \/ Load(d)
  \/ TakeEvent \/ Evaluate \/ EndEvent \/ Tick
  \/ Finished

Spec == Init /\ [][Next]_vars
-----------------------------------------------------------------------------
(* The values of the shared list, the dry runs and the engine's entries.   *)
TypeOK ==
  /\ lists \in [ListIds -> Seq(Rules)]
  /\ rules \in ListIds /\ ref \in ListIds \cup {None}
  /\ dry \in [DryRuns -> {"new", "testing", "restoring", "loading", "done",
                          "failed"}]
  /\ read \in [DryRuns -> 0 .. Len(Disk)]
  /\ draft \in [DryRuns -> Drafts \cup {None}]
  /\ at \in Nat /\ events \in 0 .. MaxEvents
  /\ state \in [Names -> [count : Nat, incident_created : BOOLEAN]]
  /\ ticks \in [Names -> 0 .. Window + 1]

Quiet == \A d \in DryRuns : dry[d] \in {"new", "done"}

(* Dry runs that end without an error lose no rule, however they overlap:  *)
(* the last to start over appends all of the disk after any other's draft. *)
NoRuleLost ==
  TypeOK /\ (Quiet => ToSet(Disk) \subseteq ToSet(lists[rules]))

(* Until two dry runs have overlapped, an event counts at most once for a  *)
(* rule, even when the list is exchanged and refilled under the iteration. *)
CountedOnce ==
  ~overlapped => \A n \in Names : state[n].count <= since[n]

(* Until then a dry run reports on its own draft alone.                    *)
OwnDraftOnly ==
  ~overlapped => \A d \in DryRuns : evaluated[d] \subseteq {draft[d]}

(* No alarm flood: within a window an incident is asked for once at most   *)
(* per rule name, also when an edit of the rule is tried meanwhile.        *)
OneAttemptPerWindow == \A n \in Names : attempts[n] <= 1

(* What the comment in dry_run_rule says it does: the actual rules are     *)
(* restored, those on disk and each of them once.                          *)
RulesRestored == Quiet => lists[rules] = Disk
=============================================================================
