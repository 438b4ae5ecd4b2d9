------------------------------ MODULE Pipeline ------------------------------
(***************************************************************************)
(* The enrichment pipeline of app/core/pipeline.py: API handlers put local *)
(* sensor events on a bounded asyncio queue, the threat-intel job puts     *)
(* feed items on another, and two worker tasks drain them through a shared *)
(* rate limit into the WebSocket broadcast and the ClickHouse store.       *)
(*                                                                         *)
(* The tasks share one event loop: an action is what a task does between   *)
(* two awaits. An await that finds nothing to wait for need not yield; the *)
(* model lets the other tasks in at every await, which allows more.        *)
(***************************************************************************)
EXTENDS Integers, Sequences, FiniteSets, Functions

CONSTANTS
  Events,             \* local sensor events, one per POST /events/network
  QueueSize,          \* maxsize of event_queue (10000 in the code)
  FeedSize,           \* maxsize of global_feed_queue (100000 in the code)
  MaxPulled,          \* bound: feed items the intel job ever hands over
  max_events_per_sec, \* broadcasts per window (20 in the code)
  WindowTicks,        \* length of the window, one second, in clock ticks
  None                \* no event

ASSUME PipelineAssumption ==
  /\ QueueSize \in Nat \ {0}
  /\ FeedSize \in Nat \ {0}
  /\ MaxPulled \in Nat
  /\ max_events_per_sec \in Nat \ {0}
  /\ WindowTicks \in Nat \ {0}
  /\ None \notin Events

VARIABLES
  phase,  \* "running" between Pipeline.start and Pipeline.stop
  posts,  \* the state of the POST handler of each event
  queue,  \* event_queue
  feed,   \* the number of items on global_feed_queue
  held,   \* the items enqueue_global_feed tasks have still to put there
  pulled, \* the items the intel job has handed over so far
  worker, \* where each of the two worker tasks is
  hand,   \* the event the local worker is broadcasting
  burst,  \* feed items the global worker took since it last slept
  intel,  \* whether threat_intel_service.malicious_ips is non-empty
  rules,  \* whether the loaded detection rules evaluate without raising
  flush,  \* last_flush, as the ticks since then (up to WindowTicks)
  sent,   \* events_sent_in_window
  stored, \* the local events handed to clickhouse_storage, in order
  accepted, \* history: the events in the order they entered the queue
  lost,     \* history: the events lost to a raising rule or to the stop
  started,  \* history: broadcasts begun since the window was reset
  carried,  \* history: older broadcasts that have returned since then
  old       \* history: workers whose older broadcast has yet to return

postVars == <<posts, queue, accepted>>
feedVars == <<feed, held, pulled, burst, intel>>
windowVars == <<flush, sent, started, carried, old>>
storeVars == <<hand, stored, lost>>
vars == <<phase, worker, rules, postVars, feedVars, windowVars, storeVars>>

Workers == {"local", "global"}

Init ==
  /\ phase = "running"
  /\ posts = [e \in Events |-> "new"]
  /\ queue = <<>>
  /\ feed = 0 /\ held = 0 /\ pulled = 0
  /\ worker = [w \in Workers |-> "ready"]
  /\ hand = None
  /\ burst = 0
  /\ intel = FALSE
  /\ rules = "fine"
  /\ flush = WindowTicks
  /\ sent = 0
  /\ stored = <<>>
  /\ accepted = <<>> /\ lost = {}
  /\ started = 0 /\ carried = 0 /\ old = {}
-----------------------------------------------------------------------------
(* enqueue_event: "await event_queue.put" goes ahead while there is room,  *)
(* and otherwise waits for room, possibly behind a later call.             *)
Enqueue(e) ==
  /\ posts[e] \in {"new", "blocked"}
  /\ posts' = [posts EXCEPT ![e] = "accepted"]
  /\ queue' = Append(queue, e)
  /\ accepted' = Append(accepted, e)

PostEntersBeyondRoom(e) ==
  /\ phase = "running"
  /\ Enqueue(e)
  /\ UNCHANGED <<phase, worker, rules, feedVars, windowVars, storeVars>>

PostEnters(e) ==
  /\ phase = "running"
  /\ Len(queue) < QueueSize
  /\ Enqueue(e)
  /\ UNCHANGED <<phase, worker, rules, feedVars, windowVars, storeVars>>

PostBlocks(e) ==
  /\ phase = "running"
  /\ posts[e] = "new"
  /\ Len(queue) >= QueueSize
  /\ posts' = [posts EXCEPT ![e] = "blocked"]
  /\ UNCHANGED <<phase, worker, rules, queue, accepted, feedVars, windowVars,
                 storeVars>>

(* pull_threat_intel: the new addresses join the cache, and a task starts  *)
(* to put them on the feed queue one by one.                               *)
PullIntel(n) ==
  /\ phase = "running"
  /\ pulled + n <= MaxPulled
  /\ intel' = TRUE
  /\ held' = held + n
  /\ pulled' = pulled + n
  /\ UNCHANGED <<phase, worker, rules, feed, burst, postVars, windowVars,
                 storeVars>>

FeedPut ==
  /\ phase = "running"
  /\ held > 0
  /\ feed < FeedSize
  /\ feed' = feed + 1
  /\ held' = held - 1
  /\ UNCHANGED <<phase, worker, rules, pulled, burst, intel, postVars,
                 windowVars, storeVars>>

(* A dry run that raises leaves its draft as the only live rule; reloading *)
(* the rules from disk (a later dry run) brings them back.                 *)
RulesBreak ==
  /\ phase = "running"
  /\ rules = "fine"
  /\ rules' = "raising"
  /\ UNCHANGED <<phase, worker, postVars, feedVars, windowVars, storeVars>>

RulesReload ==
  /\ phase = "running"
  /\ rules = "raising"
  /\ rules' = "fine"
  /\ UNCHANGED <<phase, worker, postVars, feedVars, windowVars, storeVars>>
-----------------------------------------------------------------------------
(* _throttle_and_broadcast up to the awaited broadcast. The window restarts*)
(* when a second has passed since last_flush; the broadcast counts only    *)
(* once it has returned.                                                   *)
Expired == flush >= WindowTicks

SentNow == IF Expired THEN 0 ELSE sent

WithinBudgetInclusive == SentNow <= max_events_per_sec

WithinBudget == SentNow < max_events_per_sec

(* What the window's history becomes when a broadcast starts: a reset      *)
(* makes the other worker's broadcast, if one is in flight, an old one.    *)
Begin(w) ==
  \/ /\ Expired
     /\ flush' = 0 /\ started' = 1 /\ carried' = 0
     /\ old' = {v \in Workers \ {w} : worker[v] = "sending"}
  \/ /\ ~Expired
     /\ started' = started + 1
     /\ UNCHANGED <<flush, carried, old>>

BroadcastCountedTwice(w) ==
  /\ worker[w] = "ready"
  /\ WithinBudget
  /\ Begin(w)
  /\ sent' = SentNow + 1
  /\ worker' = [worker EXCEPT ![w] = "sending"]

Broadcast(w) ==
  /\ worker[w] = "ready"
  /\ WithinBudget
  /\ Begin(w)
  /\ sent' = SentNow
  /\ worker' = [worker EXCEPT ![w] = "sending"]

Throttled(w, next) ==
  /\ worker[w] = "ready"
  /\ ~WithinBudget
  /\ worker' = [worker EXCEPT ![w] = next]
  /\ UNCHANGED windowVars

(* The broadcast returned: count it and go on.                             *)
BroadcastReturns(w, next) ==
  /\ worker[w] = "sending"
  /\ sent' = sent + 1
  /\ worker' = [worker EXCEPT ![w] = next]
  /\ carried' = IF w \in old THEN carried + 1 ELSE carried
  /\ old' = old \ {w}
  /\ UNCHANGED <<flush, started>>
-----------------------------------------------------------------------------
(* The local worker takes the next event, enriches it and evaluates the    *)
(* rules without yielding, then broadcasts and stores it.                  *)
LocalBroadcasts ==
  /\ phase = "running"
  /\ rules = "fine"
  /\ queue # <<>>
  /\ queue' = Tail(queue)
  /\ hand' = Head(queue)
  /\ Broadcast("local")
  /\ UNCHANGED <<phase, rules, posts, accepted, feedVars, stored, lost>>

LocalThrottlesUnstored ==
  /\ phase = "running"
  /\ rules = "fine"
  /\ queue # <<>>
  /\ queue' = Tail(queue)
  /\ Throttled("local", "ready")
  /\ UNCHANGED <<phase, rules, posts, accepted, feedVars, storeVars>>

LocalThrottles ==
  /\ phase = "running"
  /\ rules = "fine"
  /\ queue # <<>>
  /\ queue' = Tail(queue)
  /\ Throttled("local", "ready")
  /\ stored' = Append(stored, Head(queue))
  /\ UNCHANGED <<phase, rules, posts, accepted, feedVars, hand, lost>>

LocalRaisesAndEnds ==
  /\ phase = "running"
  /\ rules = "raising"
  /\ worker["local"] = "ready"
  /\ queue # <<>>
  /\ queue' = Tail(queue)
  /\ lost' = lost \cup {Head(queue)}
  /\ worker' = [worker EXCEPT !["local"] = "ended"]
  /\ UNCHANGED <<phase, rules, posts, accepted, feedVars, windowVars, hand,
                 stored>>

(* evaluate_event raised: the handler logs, sleeps, and the event is gone. *)
LocalRaises ==
  /\ phase = "running"
  /\ rules = "raising"
  /\ worker["local"] = "ready"
  /\ queue # <<>>
  /\ queue' = Tail(queue)
  /\ lost' = lost \cup {Head(queue)}
  /\ worker' = [worker EXCEPT !["local"] = "asleep"]
  /\ UNCHANGED <<phase, rules, posts, accepted, feedVars, windowVars, hand,
                 stored>>

LocalBroadcastReturns ==
  /\ BroadcastReturns("local", "ready")
  /\ stored' = Append(stored, hand)
  /\ hand' = None
  /\ UNCHANGED <<phase, rules, postVars, feedVars, lost>>

Wake(w) ==
  /\ worker[w] = "asleep"
  /\ worker' = [worker EXCEPT ![w] = "ready"]
  /\ UNCHANGED <<phase, rules, postVars, feedVars, windowVars, storeVars>>
-----------------------------------------------------------------------------
(* The global worker: with an empty queue it replays one known address and *)
(* sleeps; otherwise it takes up to two items before it sleeps.            *)
AfterItem(left, taken) == IF left = 0 \/ taken = 2 THEN "asleep" ELSE "ready"

GlobalTakes ==
  /\ phase = "running"
  /\ feed > 0
  /\ feed' = feed - 1
  /\ \/ /\ Broadcast("global")
        /\ burst' = burst + 1
     \/ LET next == AfterItem(feed - 1, burst + 1) IN
        /\ Throttled("global", next)
        /\ burst' = IF next = "asleep" THEN 0 ELSE burst + 1
  /\ UNCHANGED <<phase, rules, held, pulled, intel, postVars, storeVars>>

GlobalReplays ==
  /\ phase = "running"
  /\ burst = 0 /\ feed = 0
  /\ intel
  /\ \/ Broadcast("global") /\ burst' = 2
     \/ Throttled("global", "asleep") /\ UNCHANGED burst
  /\ UNCHANGED <<phase, rules, feed, held, pulled, intel, postVars, storeVars>>

GlobalHasNothing ==
  /\ phase = "running"
  /\ worker["global"] = "ready"
  /\ burst = 0 /\ feed = 0
  /\ ~intel
  /\ worker' = [worker EXCEPT !["global"] = "asleep"]
  /\ UNCHANGED <<phase, rules, postVars, feedVars, windowVars, storeVars>>

GlobalBroadcastReturns ==
  LET next == AfterItem(feed, burst) IN
  /\ BroadcastReturns("global", next)
  /\ burst' = IF next = "asleep" THEN 0 ELSE burst
  /\ UNCHANGED <<phase, rules, feed, held, pulled, intel, postVars, storeVars>>
-----------------------------------------------------------------------------
Tick ==
  /\ phase = "running"
  /\ flush < WindowTicks
  /\ flush' = flush + 1
  /\ UNCHANGED <<phase, worker, rules, sent, started, carried, old, postVars,
                 feedVars, storeVars>>

(* Pipeline.stop cancels both tasks; each sees CancelledError at its await *)
(* before it runs anything else. An event being broadcast goes with it.    *)
Stop ==
  /\ phase = "running"
  /\ phase' = "stopped"
  /\ worker' = [w \in Workers |-> "ended"]
  /\ lost' = lost \cup ({hand} \ {None})
  /\ hand' = None
  /\ old' = {}
  /\ UNCHANGED <<rules, stored, postVars, feedVars, flush, sent, started,
                 carried>>

Stopped ==
  /\ phase = "stopped"
  /\ UNCHANGED vars

Next ==
  \/ \E e \in Events : PostEnters(e) \/ PostBlocks(e)
  \/ \E n \in 1 .. MaxPulled : PullIntel(n)
  \/ FeedPut \/ RulesBreak \/ RulesReload
  \/ LocalBroadcasts \/ LocalThrottles \/ LocalRaises
  \/ LocalBroadcastReturns
  \/ GlobalTakes \/ GlobalReplays \/ GlobalHasNothing
  \/ GlobalBroadcastReturns
  \/ \E w \in Workers : Wake(w)
  \/ Tick \/ Stop \/ Stopped

(* The loop resumes every task that can run, timers fire, and a broadcast  *)
(* returns: the server's ping timeout closes a client that stalls it.      *)
Fairness ==
  /\ WF_vars(LocalBroadcasts \/ LocalThrottles \/ LocalRaises)
  /\ WF_vars(LocalBroadcastReturns)
  /\ WF_vars(Wake("local"))
  /\ \A e \in Events : SF_vars(PostEnters(e))

Spec == Init /\ [][Next]_vars /\ Fairness
-----------------------------------------------------------------------------
(* The values the pipeline's state takes; the queues respect their sizes.  *)
TypeOK ==
  /\ phase \in {"running", "stopped"}
  /\ posts \in [Events -> {"new", "blocked", "accepted"}]
  /\ queue \in Seq(Events) /\ Len(queue) <= QueueSize
  /\ feed \in 0 .. FeedSize /\ held \in Nat /\ pulled \in 0 .. MaxPulled
  /\ worker \in [Workers -> {"ready", "sending", "asleep", "ended"}]
  /\ hand \in Events \cup {None}
  /\ burst \in 0 .. 2
  /\ intel \in BOOLEAN
  /\ rules \in {"fine", "raising"}
  /\ flush \in 0 .. WindowTicks
  /\ sent \in Nat
  /\ stored \in Seq(Events)
  /\ accepted \in Seq(Events) /\ lost \in SUBSET Events
  /\ started \in Nat /\ carried \in Nat /\ old \in SUBSET Workers

(* The two workers check the budget before an awaited broadcast and count  *)
(* it after: between two resets of the window they may start one broadcast *)
(* more than max_events_per_sec, and never two.                            *)
WindowBound == started <= max_events_per_sec + 1

(* Throttling is never early by more than one: an event is withheld only   *)
(* when the window has seen max_events_per_sec - 1 broadcasts start, since *)
(* one that began in the window before may be counted in this one.         *)
BudgetUsed ==
  ~WithinBudget => started >= max_events_per_sec - 1

(* The events on their way, the oldest first: those handed to the store,   *)
(* the one in hand, and the queue.                                         *)
Line == stored \o (IF hand = None THEN <<>> ELSE <<hand>>) \o queue

KeepsOrder(line, order) ==
  \A i, j \in DOMAIN line :
    i < j => \E k, m \in DOMAIN order :
               k < m /\ order[k] = line[i] /\ order[m] = line[j]

(* No local event overtakes, repeats or vanishes on its way: the line      *)
(* holds every accepted event once, in the order of acceptance, except the *)
(* events lost to a raising rule or to the cancellation at stop.           *)
AcceptedInOrder ==
  /\ IsInjective(accepted)
  /\ Range(Line) = Range(accepted) \ lost
  /\ KeepsOrder(Line, accepted)

(* What the comment above store_event says: ALL events are stored, even    *)
(* throttled ones. An event taken off the queue is in hand or stored.      *)
AllEventsStored ==
  phase = "running" =>
    \A i \in 1 .. Len(accepted) :
      LET e == accepted[i] IN
      \/ e = hand
      \/ \E j \in 1 .. Len(queue) : queue[j] = e
      \/ \E j \in 1 .. Len(stored) : stored[j] = e

(* A handler held up by a full queue gets its event in, unless the         *)
(* pipeline is stopped, even while other handlers compete for the room and *)
(* rules raise on every event.                                             *)
BlockedPostsEnter ==
  \A e \in Events :
    posts[e] = "blocked" ~> posts[e] = "accepted" \/ phase = "stopped"
=============================================================================
