---- MODULE HardwareAlerts ----
(***************************************************************************
 Incidents raised by machines: _raise_incidents of api/sensors.py, run by every
 ingest call on a thread of the pool, and that of core/proxmox_jobs.py, run by
 the poll job, of which there is one at a time.

 Both work through the alerts of one payload with the time they started at: look
 at the debounce table, look for an unresolved incident of the same title, insert
 one, write the table.  The table is memory, the incidents are in MongoDB, and no
 code that runs resolves one (see the README).  A failed call to MongoDB ends the
 handler; a failed insert may have been applied, by the time it raises at the latest.

 An alert is its key and its title; the readings behind it are abstracted.  The
 title of a temperature carries the reading, so a key has many titles; the title
 of a disk does not carry the host, so two keys may share one.
 ***************************************************************************)
EXTENDS Integers, Sequences, FiniteSets

CONSTANTS Handlers,        \* ingest calls in flight at once
          Payloads,        \* alerts of one payload of an agent, in order
          Warnings,        \* the same of one poll of Proxmox
          Cooldown,        \* 30 minutes in the code
          MaxTime          \* bound on the clock

VARIABLES clock,
          debounce,        \* when an alert was last seen, by key
          source,          \* "ingest" or "job": they share no table and no title
          incidents,       \* how many incidents have each title
          raisedAt,        \* time of a key's last incident in this life
          hasty,           \* incidents a key raised within the cooldown of one in the same life
          unacked,         \* inserts of a key that were applied though the call raised
          raising,         \* what each handler has left to do
          racedTitles,     \* titles two handlers found missing at once
          racedKeys        \* keys two handlers worked on at once

stay == <<clock, source>>
store == <<incidents, raisedAt, hasty, unacked>>
races == <<racedTitles, racedKeys>>

AlertsOf(ps) == UNION {{p[i] : i \in DOMAIN p} : p \in ps}
Alerts == AlertsOf(Payloads \cup Warnings)
Keys == {a.key : a \in Alerts}
Titles == {a.title : a \in Alerts}
Never == -1
Idle == [todo |-> << >>, at |-> 0, step |-> "idle"]

HInit ==
  /\ clock = 0 /\ source \in {"ingest", "job"}
  /\ debounce = [k \in Keys |-> Never]
  /\ incidents = [t \in Titles |-> 0]
  /\ raisedAt = [k \in Keys |-> Never]
  /\ hasty = [k \in Keys |-> 0] /\ unacked = [k \in Keys |-> 0]
  /\ raising = [h \in Handlers |-> Idle]
  /\ racedTitles = {} /\ racedKeys = {}

Alert(h) == Head(raising[h].todo)
At(h, step) == raising[h].step = step

\* What h does next, and with which alerts.
Work(h, todo, step) ==
  raising' = [raising EXCEPT ![h] = [todo |-> todo, at |-> raising[h].at, step |-> step]]
Go(h, step) == Work(h, raising[h].todo, step)
Stop(h) == raising' = [raising EXCEPT ![h] = Idle]

\* The handler goes on with its next alert, or ends.
Done(h) ==
  IF Len(raising[h].todo) = 1 THEN Stop(h) ELSE Work(h, Tail(raising[h].todo), "table")

\* ingest, or a poll, of which there is one: now is read once for the payload.
Begin(h) ==
  /\ At(h, "idle")
  /\ source = "job" => \A g \in Handlers : At(g, "idle")
  /\ \E p \in IF source = "job" THEN Warnings ELSE Payloads :
       raising' = [raising EXCEPT ![h] = [todo |-> p, at |-> clock, step |-> "table"]]
  /\ UNCHANGED <<stay, store, races, debounce>>

Debounced(h) ==
  LET last == debounce[Alert(h).key] IN last # Never /\ raising[h].at - last < Cooldown

\* The debounce table: an alert seen lately is skipped.
CheckTable(h) ==
  /\ At(h, "table")
  /\ IF Debounced(h) THEN Done(h) ELSE Go(h, "find")
  /\ racedKeys' = racedKeys \cup
       {Alert(g).key : g \in {g \in Handlers \ {h} :
          raising[g].step \in {"find", "insert", "note"} /\ Alert(g).key = Alert(h).key}}
  /\ UNCHANGED <<stay, store, debounce, racedTitles>>

FindsNothing(h) ==
  /\ At(h, "find")
  /\ Go(h, "insert")
  /\ UNCHANGED <<stay, store, races, debounce>>

\* find_one by title: an incident there is renews the debounce.
Find(h) ==
  /\ At(h, "find")
  /\ IF incidents[Alert(h).title] > 0
     THEN /\ debounce' = [debounce EXCEPT ![Alert(h).key] = raising[h].at]
          /\ Done(h)
          /\ UNCHANGED racedTitles
     ELSE /\ Go(h, "insert")
          /\ racedTitles' = racedTitles \cup
               {Alert(g).title : g \in {g \in Handlers \ {h} :
                  At(g, "insert") /\ Alert(g).title = Alert(h).title}}
          /\ UNCHANGED debounce
  /\ UNCHANGED <<stay, store, racedKeys>>

\* MongoDB has the incident of h's alert.
Applied(h) ==
  LET k == Alert(h).key
      now == raising[h].at
      last == raisedAt[k]
  IN /\ incidents' = [incidents EXCEPT ![Alert(h).title] = @ + 1]
     /\ raisedAt' = [raisedAt EXCEPT ![k] = now]
     /\ hasty' = IF last # Never /\ now - last < Cooldown THEN [hasty EXCEPT ![k] = @ + 1]
                 ELSE hasty

Insert(h) ==
  /\ At(h, "insert")
  /\ Applied(h) /\ Go(h, "note")
  /\ UNCHANGED <<stay, races, unacked, debounce>>

\* insert_one raises though the incident is there: the payload is dropped and the
\* debounce of its key stays as it was.
InsertUnacked(h) ==
  /\ At(h, "insert")
  /\ Applied(h) /\ Stop(h)
  /\ unacked' = [unacked EXCEPT ![Alert(h).key] = @ + 1]
  /\ UNCHANGED <<stay, races, debounce>>

\* The debounce table is written after the insert.
Note(h) ==
  /\ At(h, "note")
  /\ debounce' = [debounce EXCEPT ![Alert(h).key] = raising[h].at]
  /\ Done(h)
  /\ UNCHANGED <<stay, store, races>>

\* find_one or insert_one raises without effect: the callers log it and drop the payload.
MongoFails(h) ==
  /\ At(h, "find") \/ At(h, "insert")
  /\ Stop(h)
  /\ UNCHANGED <<stay, store, races, debounce>>

\* The process restarts: the table is empty, the incidents are there.
Restart ==
  /\ debounce' = [k \in Keys |-> Never] /\ raisedAt' = [k \in Keys |-> Never]
  /\ raising' = [h \in Handlers |-> Idle]
  /\ UNCHANGED <<races, clock, source, incidents, hasty, unacked>>

TimePasses ==
  /\ clock < MaxTime /\ clock' = clock + 1
  /\ UNCHANGED <<store, races, source, debounce, raising>>

HNext ==
  \/ \E h \in Handlers :
       \/ Begin(h) \/ CheckTable(h) \/ Find(h) \/ Insert(h) \/ Note(h)
       \/ InsertUnacked(h) \/ MongoFails(h)
  \/ Restart \/ TimePasses

----------------------------------------------------------------------------
HTypeOK ==
  /\ clock \in 0..MaxTime /\ source \in {"ingest", "job"}
  /\ debounce \in [Keys -> {Never} \cup 0..MaxTime]
  /\ incidents \in [Titles -> 0..Cardinality(Handlers)]
  /\ raisedAt \in [Keys -> {Never} \cup 0..MaxTime]
  /\ hasty \in [Keys -> Nat] /\ unacked \in [Keys -> Nat]
  /\ \A h \in Handlers :
       raising[h].step \in {"idle", "table", "find", "insert", "note"}
       /\ (At(h, "idle") <=> raising[h].todo = << >>)

\* One title, one incident, over restarts too, unless two handlers looked for it
\* before either inserted it; the poll job has no such race.
OneIncident ==
  /\ source = "job" => racedTitles = {} /\ racedKeys = {}
  /\ \A t \in Titles \ racedTitles : incidents[t] <= 1

\* In one life of the process a key that no two handlers worked on at once brings one
\* incident per cooldown, whatever titles its readings make, and one more for every
\* insert that was applied though it raised: such a loss repeats no second time.
CooldownHolds == \A k \in Keys \ racedKeys : hasty[k] <= unacked[k]

\* A key is silenced only if the operators have an incident of one of its titles.
SilenceIsFounded ==
  \A k \in Keys :
    debounce[k] # Never =>
      \E a \in Alerts : a.key = k /\ incidents[a.title] > 0

AlertsFit == HTypeOK /\ OneIncident /\ CooldownHolds /\ SilenceIsFounded
====
