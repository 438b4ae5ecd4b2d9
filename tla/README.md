# SOCX in TLA+

SOCX is a small security operations centre for a Proxmox host: a FastAPI
backend, agents on the host, and a React front end. This directory holds TLA+
models of the parts of it where order, failure or timing decide whether it is
right, the TLC runs that check them, and TLAPS proofs about them.

Paths below are relative to the repository; `backend/` stands for
`backend/app/`.

## 1. The system

| Component | State it keeps | Operations | Talks to |
|---|---|---|---|
| WebSocket fan-out (`backend/core/websockets.py`, `main.py`, `api/ws_proxmox.py`) | list of active sockets, list per user | endpoint: handshake, snapshot, receive loop; `broadcast`, `disconnect` | called by pipeline workers, detection, poll job |
| Enrichment pipeline (`core/pipeline.py`) | two bounded queues, rate window (`last_flush`, `events_sent_in_window`), two tasks | `enqueue_event`, `enqueue_global_feed`, workers, `stop` | API, threat intel, detection, fan-out, event store |
| Event store (`core/clickhouse.py`) | connection flag, row buffer | `initialize`, `store_event`, `_flush`, `close`, queries | pipeline; ClickHouse |
| Fan control (`agent/aegis_sensor_agent.py`, `api/sensors.py`, `core/mongodb.py`) | fan driver, `forced` flag, policy in memory, on disk, in MongoDB | read, decide, write, push, adopt, save, exit; `PUT /sensors/policy` | hp-wmi driver, backend, MongoDB |
| Detection (`core/detection/`, `main.py`) | shared rule list, counters per source and rule | `evaluate_event`, `_correlate`, `load_local_rules`, dry run | pipeline, MongoDB, incident response |
| Threat intel (`core/threat_intel.py`) | address cache | periodic pull, lookup | pipeline |
| Incident response (`core/response/`) | action requests, incidents, audit log in MongoDB | trigger, approve, reject | detection, API |
| Sensor ingest and alerts (`api/sensors.py`), Proxmox poll job (`core/proxmox_jobs.py`) | latest reading, last persisted, debounce table | ingest, poll, raise incident | agents, MongoDB, fan-out |
| Proxmox client (`services/proxmox.py`), overview (`core/infra_overview.py`) | TTL cache, backoff table, rate table | cached loads, rates | Proxmox API |
| Docker hosts (`core/docker_hosts.py`) | client and error tables under a lock | `get_client`, `call`, `drop_client` | Docker daemons over SSH |
| Access review, forensics (`api/`) | grants; job table | CRUD, daily job; upload, analyse | MongoDB, Discord |
| Front-end hooks (`frontend/src/hooks`, `store`) | sockets, timers, refs, event buffer, store | connect, reconnect, flush, cleanup | fan-out, poll job |
| Pages and panels (`frontend/src/pages`, `components`) | lists, forms, drafts, query cache, forensics job, map worker and draw loop | ask, edit, poll, upload, animate; login and logout | REST endpoints, hooks |
| eBPF agent (`agent/src`) | kernel ring buffer | poll, send with retries | API |

What is hard about it: coroutines that share lists and counters across awaits
(fan-out, pipeline); synchronous handlers on a thread pool next to the event
loop (dry runs, ingest, approve and reject); inserts that may have happened
although they failed (event store); a process that may end between a hardware
write and the flag that remembers it (fan agent); timers and close events of
sockets that were already replaced (hooks); answers, polls, worker messages and
animation frames that reach a page which has moved on (console). `PROJECT.json` lists each hazard at
its line with the properties that watch it, and each component with its status.

What makes each modelled component right:

* fan-out: the limit holds, both structures agree, nobody alive is dropped,
  dead clients go, a broadcast neither repeats nor needlessly skips;
* pipeline: the rate is bounded from both sides, order is kept, nobody who
  waits for room waits for ever, accepted events reach the store;
* event store: what is lost is old and lost only in a long outage, what is
  doubled was written without acknowledgement;
* fan control: hot machines are cooled, the flag tells the truth, no flapping,
  safe thresholds everywhere, the administrator's policy arrives unless the
  backend is left without MongoDB;
* detection: rules survive dry runs, an event counts once, one incident is
  asked for per window;
* approvals: a request is decided once and its trail tells the outcome;
* hardware alerts: one incident per title, one per key and cooldown (and one more
  for an insert whose acknowledgement was lost), no key silenced without one;
* Docker hosts: a marked host has no client, a registered client is open, and
  clients leak no faster than dials overlap;
* cached readings and rates: failures get their pause, the cache does not go
  back, the rates account for all traffic;
* socket hooks: one live socket, a truthful badge, no event shown twice,
  recovery from every loss;
* pages: what a page shows is what the last answer, the filters and the user's
  edits make it, and no page stays busy.

## 2. The modules

| Module | Models | State and actions |
|---|---|---|
| `ConnectionManager` | the fan-out | `active`, `userConns` are the manager's two structures; `pc` is each endpoint coroutine, `bc` each running broadcast with its iterator position. `Reject`, `Admit`, `Accept`, `AcceptFails`, `Greet`, `EndpointEnds` are the endpoint between two awaits; `BroadcastStarts`, `SendOk`, `SendFails` one turn of the loop in `broadcast` |
| `Pipeline` | the pipeline | `queue`, `feed`, `sent`, `flush` are the code's fields, `worker` and `hand` the two tasks. `PostEnters` and `PostBlocks` are the handlers, `Local...` and `Global...` the workers up to and after the awaited broadcast; the pull of threat intel and a failed dry run appear as `PullIntel`, `RulesBreak`, `RulesReload` |
| `LossyLog` | what an event store promises | accept, flush; the abstract specification |
| `ClickHouseBuffer` | the event store | `buffer` and `table`; one action per method, since none awaits |
| `FanAgent` | agent, policy endpoints, MongoDB | `fan`, `forced`, `policy`, `file`, `db`; one action per step a signal can separate |
| `Detection` | rules, correlation, dry runs | `lists` holds the list objects, `rules` which one is current, `ref` and `at` the worker's iterator; one action per access to a shared list |
| `Backend` | the threaded functions of the back end | chooses one of the four modules below; they share no state |
| `Approvals` | action requests | `deciding` is what each approve or reject call has done: `ReadRequest`, `WriteStatus`, `Audit`, and `StopDeciding` for the end of the process |
| `HardwareAlerts` | `_raise_incidents` of ingest and of the poll job | `raising` is each call's place in its payload: `CheckTable`, `Find`, `Insert` (or `InsertUnacked`: applied, yet it raises), `Note`; `Restart` empties the table and keeps MongoDB |
| `DockerHosts` | the registry, for one host | `registered`, `errorAt` are the registry's tables; `Get` looks at them under the lock, `DialOk` and `DialFails` end a dial outside it, `Transient` and `Broken` drop a client |
| `InfraReadings` | `_cached` under `_rates` | `cached`, `failUntil`, `entry` are the code's tables; `thread` is where each overview is between two accesses |
| `BrowserSocket` | the browser's sockets and timers | operators only, used by both hooks |
| `ThreatSocket`, `InfraSocket` | `useWebSocket.ts` and the store, `useInfrastructure.ts` | refs and store slices as variables; one action per handler, timer and effect |
| `Sockets` | the two hooks | chooses one; they share the kind of build |
| `Listings` | pages that list and change what the server holds | `rows` the page, `srv` the server, `calls` the requests with the stage each has reached |
| `Questions` | panes that ask one question | `flight`, `shown`, `busy` |
| `Desk` | guest commands and the fan policy | `real` and `seen` guests, `policy`, `shownPolicy` and `draft` |
| `Queries` | pages that poll: infrastructure, logs, topology, forensics, Dashboard | `cache` by query key, `asking` the requests; `removed`, `cut` and `own` what the user has deleted from and added to the drawn topology; `jobState` the back end's job table, which `JobsLost` empties |
| `ThreatMap` | the live map with its worker and draw loop | `store`, `data`, `display`, `jobs`, `arcs`, `frames`, in the order the code passes them on; each of `StoreChanges`, `LayoutEffect`, `FlushDisplay`, `WorkerAnswers`, `RunEffects` is a task of its own |
| `Console` | one session: login, roles, links, one page at a time | `role`, and the variables of the five modules above |
| `MC...` | instances for TLC | constants only |
| `..._proofs` | TLAPS proofs | theorems of section 5 |

Definitions named `SendFailsByIndex`, `CutNewest`, `LostUnnoticed` and
so on, each before the definition it varies, are plausible mistakes; `PROJECT.json`
names for each property a mistake that breaks it. They are not part of any
specification.

Abstractions that matter:

* **Scheduling.** On the event loop an action is what runs between two awaits.
  An await that would not suspend may be interleaved all the same, which only
  adds behaviours. In `Detection` each access to a shared list is an action, as
  the handlers run on threads.
* **Threads.** A plain endpoint runs on a thread of the pool: an action is one
  call to MongoDB, one section under a lock, or one access to a table.
* **The page's event loop.** An action is one task: a handler of an event, an
  effect, a timer, what follows an await. A request is sent, served or refused
  by the server, and answered, in three actions; the answer may be lost.
* **History variables** (`seen`, `accepted`, `lost`, `started`, `carried`,
  `old`, `fails`, `unacked`, `flushed`, `released`, `excuse`, `evaluated`, `attempts`,
  `since`, `overlapped`; `raced`, `unaudited`, `hasty`, `racedTitles`,
  `racedKeys`, `shared`, `innocent`, `overlaps`, `early`, `back`, `blank`, `loadsCrossed`,
  `ratesCrossed`; `late`, `ilate`, `crossing`, `overlap`, `bad`, `refused`,
  `crossed`, `stray`, `agreed`) are written and never read by guards, except that
  `overlaps` has a bound.
* **Time** is ticks with expiry. Temperatures and thresholds are integers on a
  reduced scale; NaN, which JSON answers cannot bring past the ranges of
  `FanPolicy`, is not a value.
* **A stop during a broadcast** cancels the worker in `Pipeline`;
  `ConnectionManager` does not model that cancellation (the process ends with
  the manager).
* **The fan** has the driver's two states; `dry-run` mode, boards without a
  channel and other programs that write to the channel are left out.
* **One facet at a time.** The pages of `Console` and the parts of `Backend`
  share no state, so a behaviour mounts one facet or runs one part; their product
  would add states and no behaviour of either.
* **Rules** are what correlation sees of them: a name, a threshold, and whether
  evaluating them raises. One source address stands for each.

## 3. The runs

| Run | Instance | Question and result |
|---|---|---|
| `ws_connections` | 3 sockets of 2 users, limit 1, 2 broadcasts, with snapshot | Consistency of both structures (`StructuresAgree`); the limit unless handshakes overlap (`LimitUnlessOverlap`); `NoDoubleSend`; a live client is skipped at most once per removal (`EachRemovalSkipsAtMostOne`); `LiveClientsTracked`; `DeadClientsForgotten`. All hold |
| `ws_limit` | same | `LimitPerUser`, the comment at `websockets.py:7`. **Violated**: two handshakes pass `can_connect` before either socket is counted |
| `pipeline` | 3 events, both queues of one, 2 feed items, 3 broadcasts per window of one tick | `WindowBound` (at most one over), `BudgetUsed` (throttled at most one early), `AcceptedInOrder`, `BlockedPostsEnter`. All hold |
| `pipeline_stores_all` | same | `AllEventsStored`, the comment at `pipeline.py:233`. **Violated**: an event whose rules raise is dropped |
| `event_store` | batches of 2, cap 4, 2 kept, 8 calls | `NewestKept`, `OutageTolerated`, `NoRepeatUnlessUnacked`, `LossOnlyInOutage`, and the refinement `KeepsTheLog`. All hold |
| `fan` | 5 temperatures, 2 accepted requests out of 4 kinds, 3 faults | `ForcedIsMax`, `MaxIsKnown`, `NoFlapping`, `HotGetsCooled`, `PolicyArrives` (the last accepted policy is followed for good, unless the backend ends up without MongoDB). All hold |
| `fan_exit` | same | `ExitReleases`, the agent's own header and `DEPLOYMENT.md:153`. **Violated**: SIGTERM between write and flag, or a refused write in `restore` |
| `detection` | 2 rules on disk, 2 dry runs with an edited or a raising draft, 3 events, a window of one tick | `NoRuleLost`, `CountedOnce`, `OwnDraftOnly`, `OneAttemptPerWindow`. All hold, the second and third until dry runs overlap |
| `sockets` | 4 sockets, 2 effect runs, 2 faults, 3 messages, store and caps of 1 or 2 | `SoleSocket`, `StatusAgrees`, `ShownOnce` and the liveness property `Recovers`, in the production and in the development build. All hold, unless a close event of an earlier effect run comes late, which the run shows to need the development build |
| `console` | 2 rows, 2 guests, 2 subjects, 5 topology nodes and 2 edits of them, 3 events on the map with a lifetime of one tick out of three, 2 roles, 2 uploads | `ListFits`, `AnswerFits`, `DeskFits`, `PollFits`, `MapFits` for the five kinds of page and the liveness property `Settles`. All hold, unless requests of one page cross; `Settles` leaves out the wait for a job the back end has lost, which has no end |
| `backend` | 2 requests and 2 administrators; 2 ingest calls, 3 payloads; 3 callers of a Docker host; 2 overviews | `DecisionsFit`, `AlertsFit`, `ClientsFit`, `ReadingsFit`. All hold, unless calls cross or MongoDB applies an insert that raises, and then with the stated bounds |
| `rules_restored` | same as `detection` | `RulesRestored`, the comment at `main.py:194`. **Violated**: two dry runs that reload at a time append to one list |

Each passing run has its type invariant: `TypeOK` in `pipeline` and `fan` (there
it says that every policy anywhere is safe), and as the first conjunct of
`StructuresAgree`, `NoRuleLost`, `ShownOnce` and of each property of `console` and
`backend` in the others. That of `event_store` is a theorem (`TypeCorrect`).

**Where calls cross.** Several properties say "unless", with a history variable
that records the crossing (`raced`, `late`, `crossing` and their like). The
variable is set by the race itself, never by its outcome: two administrators who
read a request as pending, two loads under way, a close event with the refs of
a later run. So the property states both what one caller may rely on and
which interleaving it takes to lose it; the invariants bound what is lost then
(`VerdictGiven`, `LeaksBounded`, `OwnClientDropped`).

**Why the bounds are enough.** Two tasks send in this program (the two workers),
so two broadcasters are all there are on the threat map. Two sockets of one
user make handshakes overlap, a third of another user is the live client that
is skipped or kept. With queues of one and three events, two handlers block and
compete. A budget of three is the least at which the window can be
exhausted with one broadcast carried over and one in excess. Eight rows fill a
cap of four, cut it and fill it again. Five degrees hold both thresholds, the
gap and a reading on either side; three faults allow an exit, a kill and a
backend restart. Two dry runs are what it takes for them to overlap, and
`detection` treats them as symmetric (`Symmetry`; there is no liveness property
in that run). Four sockets are two effect runs of the development build, one that
is closing and one that a second timer opens. In `console` two rows make one
row's answer meet another's edit, two uploads one job's poll meet another, and
three events share a place, a pair, and a type. The store holds three of them, the
layout looks at two and the dashboard at one (150, 100 and 50 in the code), and a
lifetime of one tick out of three lets an event expire while others arrive. Two administrators on two
requests race on one and not on the other; two payloads with one key and two
titles, and two keys with one title, are the ways the debounce and the search
can disagree (threads, requests and clients are symmetric there, and there is no
liveness property in that run); a third caller of a Docker host is the one that loses a client to
the other two. `sockets`, `console`, `backend` turn the deadlock check off: the
user may stop, machines may fall silent, and their bounds on time and calls end
a behaviour; that what must go on does is `Recovers` and `Settles`. `MaxPulled`, `MaxCalls`, `MaxWrites`, `MaxFaults`, `MaxEvents`
`MaxRuns`, `MaxMsgs`, `MaxOps`, `MaxAsks`, `MaxCmds`, `MaxGen`, `MaxUploads`,
`MaxTime`, `MaxSeconds`, `MaxTick`, `MaxTraffic`, `MaxBoots`, `MaxOverlaps` bound counters
that the code does not bound; each appears in guards, or caps a counter where
more would change nothing.

## 4. Fairness

* `ConnectionManager`: `accept`, the snapshot and the receive loop of a dead
  client end, as the event loop resumes what is ready and the server reports a
  disconnect. `send_text` gets none: the code sets no timeout, so a stalled
  client may hold a broadcast, and `DeadClientsForgotten` must not need it.
* `Pipeline`: the local worker runs, wakes and its broadcast returns (the
  server's ping timeout closes a client that stalls); a blocked handler
  gets strong fairness since `asyncio.Queue` wakes its waiters in turn and the
  room comes and goes.
* `FanAgent`: the loop runs, systemd restarts the agent (`Restart=always`), and
  the driver and the network do not refuse for ever (strong fairness of
  the writes and of an answered push). None for requests and faults.
* `Sockets`: a timer that is set fires, a handshake ends (opened, or refused at
  most `MaxFaults` times), the close event of a closed socket comes, a REST request
  is answered and the server's poll goes on. Nothing makes a user log in or out:
  `Recovers` is about a component that stays mounted.
* `Console`: every request a page has sent ends in some way (the browser's
  timeouts see to that), its timers fire, and the interval of Forensics keeps
  asking. A job of the back end ends (`analyze_pcap` catches what it raises) unless the
  back end starts again first: `JobsLost` has no fairness, takes the job's end away, and
  leaves the page polling. The user's steps have none.
* `ClickHouseBuffer`, `Detection` and `Backend` check safety only and state none.

## 5. The proofs

All for every value of the constants that meets the named assumptions in the
modules: `PipelineAssumption`, `BufferAssumption`, `FanAssumption`, `ManagerAssumption`,
`DetectionAssumption` (the rules on disk are a sequence with one name each),
`BackendAssumption` (a payload is a sequence of alerts; times and bounds are
naturals), `SlotsAssumption`, `BoundsAssumption` of `Sockets`, and those of `Console`:
`NamesAssumption`, `BoundsAssumption`, `ShapesAssumption`, `PoliciesAssumption`,
`MapAssumption` (events are numbered from 1, their times are integers, caps and times
naturals, and the store holds at least one event). TLC evaluates each on the instances of section 3.

* **`ConnectionManager_proofs`**: `ManagerStructuresAgree`, `ManagerLimitUnlessOverlap`,
  `ManagerNoDoubleSend`, `ManagerEachRemovalSkipsAtMostOne`, `ManagerLiveClientsTracked`.
  Filtering a list is a recursive function here (`Without`), and what it returns is
  shown by a smallest counterexample among the lengths (`Smallest`, `Induction`, over a
  set where the library's theorems take an operator): the kept elements keep their
  order, and an element moves forward by at most the number of those removed
  (`Places`). The invariant says where tracked sockets are (`TrackedRuns`), that those
  whose send failed are dead (`FailedAreGone`), that without an overlap the one
  handshake under way has room (`RoomForHandshake`), and that a broadcast has sent
  only to accepted sockets (`SentAccepted`). Then a removal leaves the iterator at
  most one client further on, and no socket it has sent to can be ahead of it again.
* **`Detection_proofs`**: `DryRunsLoseNoRule`, `EventsCountOnce`, `ReportsOwnDraft`,
  `NoAlarmFlood`. The invariant ties each list to the dry run that made it: which one
  is in use tells how far its dry run is (`Places`), and a reloaded list in use holds
  the files read so far, whoever appends to it too (`Contents`). Until dry runs
  overlap, a list is exactly its draft or a prefix of the disk (`Alone`), so the
  iterator meets a name once, and an event not yet seen by a name is not yet in its
  count (`Counted`). An attempt is recorded exactly while `incident_created` is set
  (`Attempted`), in whatever list.
* **`Pipeline_proofs`**: `TypeCorrect`, `RateLimit` (`WindowBound`),
  `NoEarlyThrottle` (`BudgetUsed`) and `NothingOvertakesOrVanishes`
  (`AcceptedInOrder`). The last speaks of the line of stored rows, hand and queue;
  each step appends to it, moves its parts on, or takes out the one event that is
  lost. It needs besides that an event is in `accepted` exactly when its handler has
  returned, and that only accepted events are lost (`Flow`). `WindowBound` is not inductive: what is
  counted lags behind what has started by the broadcasts in flight. The
  invariant relates the counter to the history: broadcasts started since the
  reset and those carried into the window add up to the ones counted and the
  ones in flight; a worker in `old` is sending; and what has started can exceed
  the budget only by what is in flight now. Each action changes both sides
  equally, and with two workers at most one broadcast is in flight when another
  starts, so the excess is one.
* **`ClickHouseBuffer_proofs`**: `TypeCorrect`, `NewestRows`, `Outage`,
  `NoRepeat`, `Loss` and `Refinement`. The invariant states that the buffer is
  the run of the latest calls (so its elements are determined by its length),
  that a row in the buffer and in the table is unacknowledged, and that the
  buffer is shorter than the limit plus the failures since a success. The step
  from failures to `LossOnlyInOutage` is arithmetic on the length of the buffer
  a cut needs. For the refinement each step maps to an accept, a flush, or a
  stutter of `LossyLog`, with the kept suffix as the witness.
* **`FanAgent_proofs`**: `TypeCorrect` (all policies safe), `FlagIsTrue`,
  `MaximumIsKnown`, `Hysteresis`, `AcceptedIsKept`. The invariant adds where the
  flag may be set (`forced` only while running and not while flagging) and that
  a reading at which the fan was let go is at most the followed policy's lower
  threshold; as every policy is safe, the next forcing is `Gap` degrees above.

* **`Backend_proofs`**: `Decisions`, `DockerClients`, `Readings` (`ReadingsFit`) and
  `Alarms` (`AlertsFit`). For decisions the
  invariant says what each status rests on: a pending request has no entry and
  nobody writing (`Untouched`), a decided one has an entry, a lost entry or a call
  about to write one (`Accounted`), and outside a race one call at most is at work
  on a request and its verdict is the status (`Alone`). For Docker clients, a client
  being dialled is open and nobody else's (`Dialling`), and until two dials have
  overlapped there is one dial at most, none beside a registered client, and,
  until a dropped client had two users, a client in use is the registered one (`Orderly`).
  The leaks need a potential: what has leaked, plus the dials under way that may
  still cost a client (all of them beside a registered client, else all but one),
  is at most the number of overlapping dials (`Budget`). A dial that ends turns a
  risk into a leak or removes it; only beginning one beside another adds a risk, and that
  step is counted. For readings, nothing is newer than the guest (`NoneNewer`); until two
  loads have crossed there is one, begun after the pause that stands (`OneLoad`);
  until two computations have, an entry is done or being computed, and what is
  reported is the difference from the base up to its sample (`OneComputation`). For
  alerts, a call about to insert counts as one that has (`Bounded`); for a title or a key
  that no two calls raced on, one call is at work on it at most, and the table was clear
  when it began or an unacknowledged insert accounts for the incident it does not know
  (`TitleFits`, `KeyFits`); and a call that notes a key has an
  incident to show for it (`Noted`).
* **`Sockets_proofs`**: `OneSocket` (`SoleSocket`), `BadgesAgree` (`StatusAgrees`) and
  `NothingShownTwice` (`ShownOnce`). Until a close event comes
  late, the only live socket is the ref's and of the latest effect run, and no
  timer is pending beside it; in the infrastructure hook, whose `connect` never
  looks at the ref, also that while the page is mounted every socket of the latest
  run is live. So a close event that finds the refs of its own run is the live
  socket's, and a timer fires only when there is none. The badges follow the live
  socket's state, and the keep-alive interval is its own (`Streaming`). Broadcasts are
  numbered; until a late close, those shown, those buffered, and those that wait at a
  socket come in rising order (`InTurn`), and a socket that is not open has none
  (`Deaf`); slicing and appending keep the order (`IsPart`, `Grown`).
* **`Console_proofs`**: `AnswersMatch` (`AnswerFits`), `DeskHolds` (`DeskFits`),
  `PollHolds` (`PollFits`), `ListsHold` (`ListFits`), `MapHolds` (`MapFits`). A step of the console leaves the
  variables of a module alone, mounts or clears its page, or is a step of that page
  (`PaneStep` and its like), so each has an invariant over one module. Unless requests
  crossed, one request at most is in flight, and the invariant follows it: what is
  shown, busy and kept while it waits, is served, and has been answered (`OneQuestion`
  and `PaneCounts`; `Commands` and `Fans`; `Idle`, and `ShowsOf` and `MarksOf` for each kind
  of request of the seven list pages). For the pages that poll: a datum of the logs is
  what its key says, which holds as the key names all that its address is built from
  (`Matches`); the drawing is the cached topology's without what was deleted since, and
  nothing drawn hangs on a deleted node (`DrawingFits`); unless a request
  outlived its upload, an upload in flight is the latest and alone and polls are about
  the present job (`JobsInTurn`).
  For the map, the invariant (`MapInvariant`) follows the events through its buffers: the
  store holds each id once, data and display keep the stamps and the ids apart, and what
  the map page displays was within its time when the display was last set (`MapShape`;
  filtering is shown by induction on the events it has read, `FreshKeeps`);
  the last message asks for what is displayed (`Messages`); when none waits, the arcs are
  the bundles of the display, and the draw loop has them once the effects have run
  (`UpToDate`). What the worker answers is shown by induction on the events it has read
  (`Bundled`: one arc for each key, its count the size of its share, its time the newest of
  it). A panel's order is total, so its labels take the places 0, 1, ... (`Places`) and the
  first `TopN` are its rows; a sum of counts is the count of the union (`Totals`), by induction on
  the size of the set summed over.

Every invariant and action property that a passing run checks is stated by a theorem.
Model-checked only is what speaks of liveness (fairness and ENABLED are out of TLAPS's
reach): `DeadClientsForgotten`, `BlockedPostsEnter`, `HotGetsCooled`, `PolicyArrives`,
`Recovers`, `Settles`. No module declares a RECURSIVE operator: recursion is by recursive
functions, whose values the proofs reach by induction over a set (`Induction`, `Steps`,
`Recursion`) where the library's theorems take an operator.

## 6. Observations beside the findings

The findings are in `PROJECT.json`. Met on the way, and in no run:

* `pipeline.py:61` logs that a full queue drops the event; `await put` waits
  instead, and the caller with it (`PostBlocks`).
* `engine.py:74` compares with `>=`, so "count > 5" fires at the fifth match.
* `engine.py:136` imports `json` inside `_create_incident`, which makes the
  name local to the whole function: line 119 raises, the except clause logs it,
  and no incident is ever inserted, while `incident_created` is set.
* `sensors.py:65` answers with the default policy, which is enabled, when the
  backend started without MongoDB; the agent adopts it and saves it over the policy an
  administrator wrote, although `sensors.py:245` answers that the agent will receive
  that one and `aegis_sensor_agent.py:336` that it is remembered to survive the
  loss of the backend. This is the case `PolicyArrives` leaves out.

Back end:

* No playbook runs: no incident is inserted by detection, and
  `executor.py:14` (`if not db`) would raise on a pymongo `Database`, as
  `access_review_jobs.py:10` does, so the daily access review ends there.
* No endpoint resolves an incident (the `PUT` the incident board sends has no
  route), so a title of a hardware alert is raised once for good; disk titles lack the
  host (`sensors.py:107`), so a failing disk of a second host is
  silenced by the first one's incident.
* `approve_action` and `reject_action` read and write in two calls: two that race
  are both audited, and the last write decides. Two ingest calls may insert one
  incident twice. Two first calls to a Docker host leak a client.
* An insert that MongoDB applied although the call raised leaves the debounce of its key
  unset (`sensors.py:128-139`): the next reading, with another title, makes a second
  incident within the cooldown (`InsertUnacked`). An exception without a text marks no
  Docker host (`docker_hosts.py:152`): the next call dials at once.
* `forensics.py:15` keeps the jobs in memory. After a restart a job is a 404, whose body
  has no status, and `Forensics.tsx:50-57` polls for ever (`JobsLost`). A completed job is
  not turned to failed by its Discord alert: `send_alert` swallows every exception
  (`discord.py:35-42`).
* The pause of ten minutes after a 403 is passed by the per-node reads that
  follow it, and is cut by a success or a shorter pause of a load that overlapped.
* The cache of `cluster:resources` (3 s) outlives the least interval of `_rates`
  (2 s): a REST overview in between reads the same sample, reports a rate of 0,
  and the next rate is too high. An older sample may replace a newer one.

Console:

* `useWebSocket.ts:105` does not reconnect on 4001 and 4002, but the server closes
  before it accepts (`main.py:70`), which a browser reports as 1006: the hook
  retries (`CloseCode`).
* The map shows all layers when no box is checked, takes coordinate 0 for
  unknown, and stamps its events afresh on each mount; on the dashboard events
  stay as long as something renders them again; a pan culls nothing until the
  next post. Inside a batch the store is not newest first.
* A policy that returns to its old value between overviews, or a save whose answer
  comes late, leaves a stale draft. The Dashboard isolates a guest without asking. The mode
  buttons send thresholds that were not checked.
* The AI assessment of an earlier capture may be shown beside a new job, and a late
  poll may complete it. The Dashboard's own socket is never reopened. Query cache,
  events and notifications survive a logout, and the badge may show the last
  session's state until the first open.
* `Topology.tsx:154-190` centres two layers of one row side by side without looking at
  their widths: with one hypervisor and six overlay peers boxes cover each other. Places
  of boxes are not modelled. What a user deletes from the topology is back after the next
  change of the data or of the switch.
* `IAMAccessReview.tsx:32-33` and `Settings.tsx:23-25` take any JSON body for data: an
  error makes the access page fail to draw (no error boundary is there to catch it), and
  Settings shows its form on it (`ListAnswer`).
* On the map page an event is shown for its 10 s from when the layout first saw it, and up to one
  interval longer; the age counts afresh on the next mount.
* Isolating a guest or taking a snapshot creates an incident and no action request.

## 7. Not modelled

* **eBPF agent.** Its events enter `Pipeline`; its ring buffer is the kernel's, and
  the code promises nothing about loss.
* **PCAP analysis on the server and the access review.** One task writes a
  job's states in a fixed order; grants are single-document writes. Their pages are
  modelled (`Queries`, `Listings`), with the server as those pages see it.
* **Playbooks and their action requests.** Unreachable, as said above.
* **The latest sensor reading, the interval of persisted readings, the payload
  kept for new clients.** Each is written by one statement and read by one.
* **Users, authentication, seed data, assets and topology on the server.** Single
  document reads and writes; a token is checked, never changed.
* **GeoIP, AI, Discord, Proxmox, Docker and browsers.** External; each appears as the
  answers it may give.
* **Markup, styles, charts, `AccessReview.tsx`** (nothing imports it), **deployment.**
* **Products of parts.** `Pipeline` hands rows to `ClickHouseBuffer` and messages
  to `ConnectionManager` by one call each; a failed insert does not reach the
  pipeline, and a stalled send is in `Pipeline` as a broadcast that has not returned.
  The composition would repeat both modules' states. The stop during a
  broadcast stays as said in section 2.
