---- MODULE ThreatMap ----
(***************************************************************************
 The live map: ThreatMapLayout and DashboardMap, MapCore's EventRenderer with
 its web worker, the canvas layer that draws, and the panels beside the map.

   store --effect--> data --333 ms--> display --post--> worker --> arcs
                                                 arcs --effects--> draw loop

 Every arrow is a task of its own: while one runs the others work on the value
 they were given.  The store outlives the map; everything else starts again each
 time a map is mounted.  On the dashboard the store goes to the renderer directly,
 without stamps and without layers.

 Abstracted: a coordinate is one integer instead of two, a place (a country, or
 rounded coordinates when it is unknown) is a value, and drawing an arc is naming
 its key: its curve, colours and particles are left out, so are the clusters drawn at
 low zoom, the geojson of the countries and the collapsing of panels.
 ***************************************************************************)
EXTENDS Integers, Sequences, FiniteSets, FiniteSetsExt

CONSTANTS Ids,          \* the events, 1 to some number
          MaxBatch,     \* 10: events of one flush of the socket hook
          Shape,        \* the event of each id: source and target, type, kind, time
          StoreCap,     \* 150 in the code
          LayoutCap,    \* 100: what the layout looks at
          DashCap,      \* 50: what the dashboard's map gets
          TTL,          \* EVENT_TTL_MS and FADE_DURATION_MS, both 10 s
          MaxTime,
          Layers,       \* the layers that have a check box, all on at first
          Views,        \* the bounds the map may be panned and zoomed to
          TopN,         \* 5: rows of a panel
          ChartBuckets, \* 20 of 5 s in HeaderStats; one tick here
          MaxJobs       \* messages waiting for the worker

VARIABLES place,      \* "none", "map" or "dashboard"
          now,
          store,      \* threatEvents: ids, newest batch first
          arrived,    \* events that came so far, numbered as they come
          stamps,     \* receivedMap: the time an id was first seen, 0 for never
          data,       \* dataEventsRef
          layoutDue,  \* the layout's effect on the store has still to run
          display,    \* displayEvents, or the slice the dashboard passes
          flushed,    \* when displayEvents was last set
          layers,     \* activeLayers
          view,       \* the map's bounds, which boundsRef follows
          worker,     \* "up", or "none" when it could not be created
          jobs,       \* messages the worker has not answered, oldest first
          postedView, \* the view of the last message
          arcs,       \* canvasArcs
          drawArcs,   \* arcsRef.current, and the cluster index of the draw loop
          effects,    \* effects of the last render have still to run
          frames      \* animation frames requested and not cancelled

pipe == <<stamps, data, display, flushed, layoutDue, layers, view, worker, jobs,
          postedView, arcs, drawArcs, effects, frames>>
mapVars == <<place, now, store, arrived, pipe>>

NoTarget == "none"
\* slice(0, n)
FirstN(s, n) == SubSeq(s, 1, IF Len(s) < n THEN Len(s) ELSE n)
IdsOf(s) == {s[i] : i \in DOMAIN s}

----------------------------------------------------------------------------
\* The worker, and the main thread when there is none.

LayerOf(type) == IF type = "Malware" THEN "malicious_ip" ELSE type

\* An event of the watched site itself is never drawn; no box checked shows all.
Visible(e, active) ==
  /\ ~Shape[e.id].local
  /\ active = {} \/ LayerOf(Shape[e.id].type) \in active

\* Inside the view with 30 % padding; a coordinate of 0 counts as unknown.
InBounds(at, v) ==
  /\ at # 0
  /\ 10 * at >= 10 * v.low - 3 * (v.high - v.low)
  /\ 10 * at <= 10 * v.high + 3 * (v.high - v.low)

InView(e, v) == LET x == Shape[e.id] IN
  x.target = NoTarget \/ InBounds(x.from, v) \/ InBounds(x.to, v)

KeyOf(e) == LET x == Shape[e.id] IN
  IF x.target = NoTarget THEN <<"pt", e.id>> ELSE <<x.source, x.target, x.kind>>

\* _receivedAt || Date.now()
ReceivedAt(e, t) == IF e.got = 0 THEN t ELSE e.got

\* One more event for its bundle: it counts, and the newest time stands.
AddEvent(bundles, e, t) ==
  LET same == {a \in bundles : a.key = KeyOf(e)}
      r == ReceivedAt(e, t)
  IN IF same = {}
     THEN bundles \cup {[key |-> KeyOf(e), type |-> Shape[e.id].type,
                         count |-> 1, got |-> r]}
     ELSE LET a == CHOOSE b \in same : TRUE
          IN (bundles \ same) \cup
               {[a EXCEPT !.count = @ + 1, !.got = IF r > @ THEN r ELSE @]}

Kept(e, ls, v) == Visible(e, ls) /\ InView(e, v)

\* The answer to one message: filter by layer, cull by view, bundle.
Process(job, t) ==
  LET bundles[n \in 0..Len(job.events)] ==
        IF n = 0 THEN {}
        ELSE IF Kept(job.events[n], job.layers, job.view)
             THEN AddEvent(bundles[n - 1], job.events[n], t)
             ELSE bundles[n - 1]
  IN bundles[Len(job.events)]

----------------------------------------------------------------------------
\* Rendering.

\* setCanvasArcs: the effects of that render run in a later task.
SetArcs(new) == arcs' = new /\ effects' = TRUE

\* EventRenderer's effect on new events or layers.
Post(es, ls, v) ==
  LET job == [events |-> es, layers |-> ls, view |-> v] IN
  /\ postedView' = v
  /\ IF worker = "up"
     THEN /\ Len(jobs) < MaxJobs
          /\ jobs' = Append(jobs, job)
          /\ UNCHANGED <<arcs, effects>>
     ELSE SetArcs(Process(job, now)) /\ UNCHANGED jobs

WorkerAnswers ==
  /\ jobs # << >>
  /\ SetArcs(Process(Head(jobs), now))
  /\ jobs' = Tail(jobs)
  /\ UNCHANGED <<place, now, store, arrived, stamps, data, display, flushed, layoutDue,
                 layers, view, worker, postedView, drawArcs, frames>>

\* One frame asked for, after cancelling the one whose handle is kept.
Requested(n) == IF n > 0 THEN n ELSE 1

\* The effects of a render with new arcs: arcsRef follows, and the loop goes on
\* with a draw that has the new cluster index.
RunEffects ==
  /\ effects /\ effects' = FALSE
  /\ drawArcs' = arcs
  /\ frames' = Requested(frames)
  /\ UNCHANGED <<place, now, store, arrived, stamps, data, display, flushed, layoutDue,
                 layers, view, worker, jobs, postedView, arcs>>

\* What a frame drawn now shows before it asks for the next: expired arcs are skipped.
Painted == {a \in drawArcs : now - a.got <= TTL}

\* The user pans or zooms: boundsRef follows, the pending frame is asked for
\* again; nothing is posted until events or layers change.
MoveMap(v) ==
  /\ place # "none" /\ v # view
  /\ view' = v
  /\ frames' = Requested(frames)
  /\ UNCHANGED <<place, now, store, arrived, stamps, data, display, flushed, layoutDue,
                 layers, worker, jobs, postedView, arcs, drawArcs, effects>>

----------------------------------------------------------------------------
\* The layout.

\* The events still within their time.
Fresh(q) ==
  LET kept[n \in 0..Len(q)] ==
        IF n = 0 THEN << >>
        ELSE IF now - q[n].got <= TTL THEN Append(kept[n - 1], q[n]) ELSE kept[n - 1]
  IN kept[Len(q)]

\* The effect on the store: stamp what is new among the first LayoutCap events,
\* keep what is within its time, forget ids the store no longer has.
NewStamps(st, old) ==
  [id \in Ids |->
     IF id \notin IdsOf(st) THEN 0
     ELSE IF id \in IdsOf(FirstN(st, LayoutCap)) /\ old[id] = 0 THEN now ELSE old[id]]

Stamped(st, sm) ==
  LET seen == FirstN(st, LayoutCap)
  IN Fresh([i \in DOMAIN seen |-> [id |-> seen[i], got |-> sm[seen[i]]]])

\* What the dashboard passes to the renderer.
Unstamped(st) ==
  LET seen == FirstN(st, DashCap) IN [i \in DOMAIN seen |-> [id |-> seen[i], got |-> 0]]

\* addThreatEvents puts one batch of n events in front of the store.
StoreChanges(n) ==
  /\ place # "none" /\ arrived + n \in Ids
  /\ arrived' = arrived + n
  /\ store' = FirstN([i \in 1..n |-> arrived + i] \o store, StoreCap)
  /\ layoutDue' = (place = "map")
  /\ UNCHANGED <<place, now, stamps, data, display, flushed, layers, view, worker, jobs,
                 postedView, arcs, drawArcs, effects, frames>>

LayoutEffect ==
  /\ layoutDue /\ layoutDue' = FALSE
  /\ stamps' = NewStamps(store, stamps)
  /\ data' = Stamped(store, stamps')
  /\ UNCHANGED <<place, now, store, arrived, display, flushed, layers, view, worker, jobs,
                 postedView, arcs, drawArcs, effects, frames>>

FlushDisplayKeepsOld ==
  /\ place = "map"
  /\ display' = data /\ flushed' = now
  /\ Post(display', layers, view)
  /\ UNCHANGED <<place, now, store, arrived, stamps, data, layoutDue, layers, view, worker,
                 drawArcs, frames>>

\* The 333 ms interval: a new array, and so a new message, every time.
FlushDisplay ==
  /\ place = "map"
  /\ display' = Fresh(data) /\ flushed' = now
  /\ Post(display', layers, view)
  /\ UNCHANGED <<place, now, store, arrived, stamps, data, layoutDue, layers, view, worker,
                 drawArcs, frames>>

\* The Dashboard renders, for a change of the store or for a reason of its own (a poll,
\* an overview): the slice is a new array, so even the same events are posted again.
DashboardRenders ==
  /\ place = "dashboard"
  /\ display' = Unstamped(store)
  /\ Post(display', layers, view)
  /\ UNCHANGED <<place, now, store, arrived, stamps, data, flushed, layoutDue, layers, view,
                 worker, drawArcs, frames>>

\* A check box of the left panel.
ToggleLayer(l) ==
  /\ place = "map"
  /\ layers' = IF l \in layers THEN layers \ {l} ELSE layers \cup {l}
  /\ Post(display, layers', view)
  /\ UNCHANGED <<place, now, store, arrived, stamps, data, display, flushed, layoutDue,
                 view, worker, drawArcs, frames>>

Tick ==
  /\ place # "none" /\ now < MaxTime
  /\ now' = now + 1
  /\ UNCHANGED <<place, store, arrived, pipe>>

\* What holds while no map is mounted.
NoMap ==
  /\ place = "none" /\ now = 1 /\ store = << >> /\ arrived = 0
  /\ stamps = [id \in Ids |-> 0] /\ data = << >> /\ display = << >>
  /\ layoutDue = FALSE /\ flushed = 0
  /\ layers = {} /\ view = CHOOSE v \in Views : TRUE
  /\ worker = "none" /\ jobs = << >> /\ postedView = view
  /\ arcs = {} /\ drawArcs = {} /\ effects = FALSE /\ frames = 0

\* A map is mounted: the store may hold events of earlier pages, and the layout's effect
\* will stamp those anew.  EventRenderer makes its worker and posts, the loop starts.
MountMap(p) ==
  /\ place = "none" /\ place' = p
  /\ arrived' \in {0, 1} /\ store' = [i \in 1..arrived' |-> i]
  /\ worker' \in {"up", "none"}
  /\ layers' = IF p = "map" THEN Layers ELSE {}
  /\ layoutDue' = (p = "map")
  /\ display' = IF p = "map" THEN << >> ELSE Unstamped(store')
  /\ LET job == [events |-> display', layers |-> layers', view |-> view] IN
       /\ jobs' = IF worker' = "up" THEN <<job>> ELSE << >>
       /\ arcs' = IF worker' = "up" THEN {} ELSE Process(job, now)
  /\ postedView' = view /\ effects' = TRUE /\ frames' = 1
  /\ UNCHANGED <<now, stamps, data, flushed, view, drawArcs>>

\* Leaving: intervals are cleared, the worker is terminated with its messages,
\* the canvas is removed and the pending frame cancelled.
UnmountMap ==
  /\ place # "none"
  /\ place' = "none" /\ now' = 1 /\ store' = << >> /\ arrived' = 0
  /\ stamps' = [id \in Ids |-> 0] /\ data' = << >> /\ display' = << >>
  /\ layoutDue' = FALSE /\ flushed' = 0
  /\ layers' = {} /\ view' = CHOOSE v \in Views : TRUE
  /\ worker' = "none" /\ jobs' = << >> /\ postedView' = view'
  /\ arcs' = {} /\ drawArcs' = {} /\ effects' = FALSE /\ frames' = 0

MapNext ==
  \/ WorkerAnswers \/ RunEffects \/ LayoutEffect \/ FlushDisplay \/ DashboardRenders \/ Tick
  \/ \E v \in Views : MoveMap(v)
  \/ \E l \in Layers : ToggleLayer(l)
  \/ \E n \in 1..MaxBatch : StoreChanges(n)

----------------------------------------------------------------------------
\* The panels.

\* The rows of one list of StatsPanel: the TopN labels by count, the one that
\* occurs first in front when counts are equal.
CountOf(labels, l) == Cardinality({i \in DOMAIN labels : labels[i] = l})
FirstOf(labels, l) == CHOOSE i \in DOMAIN labels :
                        labels[i] = l /\ \A j \in 1..(i - 1) : labels[j] # l
Before(labels, l, m) ==
  \/ CountOf(labels, l) > CountOf(labels, m)
  \/ CountOf(labels, l) = CountOf(labels, m) /\ FirstOf(labels, l) < FirstOf(labels, m)
TopRows(labels) ==
  LET names == IdsOf(labels) IN
  {[label |-> l, count |-> CountOf(labels, l)] :
     l \in {n \in names : Cardinality({m \in names : Before(labels, m, n)}) < TopN}}

Vector(id) == IF Shape[id].kind = "global_threat_feed" THEN "Threat Intel Match"
              ELSE Shape[id].type
Sources(es) == [i \in DOMAIN es |-> Shape[es[i].id].source]
Targets(es) == [i \in DOMAIN es |-> IF Shape[es[i].id].target = NoTarget
                                    THEN "Unknown" ELSE Shape[es[i].id].target]
Vectors(es) == [i \in DOMAIN es |-> Vector(es[i].id)]

\* HeaderStats: the bucket of an event, the newest last; 0 when it is not charted
\* (older than the chart, or stamped after this clock's now).
Bucket(t, at, buckets, size) ==
  IF t >= at /\ t - at < buckets * size THEN buckets - ((t - at) \div size) ELSE 0
Chart(st, t, buckets, size) ==
  [b \in 1..buckets |-> Cardinality({id \in IdsOf(st) : Bucket(t, Shape[id].at, buckets, size) = b})]

----------------------------------------------------------------------------
MapTypeOK ==
  /\ place \in {"none", "map", "dashboard"} /\ now \in 1..MaxTime /\ arrived \in Ids \cup {0}
  /\ IdsOf(store) \subseteq Ids /\ Len(store) <= StoreCap
  /\ stamps \in [Ids -> 0..MaxTime]
  /\ \A q \in {data, display} : \A i \in DOMAIN q : q[i] \in [id : Ids, got : 0..MaxTime]
  /\ layoutDue \in BOOLEAN /\ flushed \in 0..MaxTime
  /\ layers \subseteq Layers /\ view \in Views /\ worker \in {"up", "none"}
  /\ Len(jobs) <= MaxJobs /\ effects \in BOOLEAN /\ frames \in Nat

\* What the map should show of the events es.
Shown(es, ls, v) == {i \in DOMAIN es : Kept(es[i], ls, v)}

\* Once every message is answered and every effect has run, the draw loop has one
\* arc for each pair of places among the displayed events, which counts them all, is
\* as old as the newest of them, and on the map page is drawn while one of them is
\* within its time.
ArcsFitDisplay ==
  jobs = << >> /\ ~effects /\ place # "none" =>
    LET es == display
        of == Shown(es, layers, postedView)
    IN /\ {a.key : a \in drawArcs} = {KeyOf(es[i]) : i \in of}
       /\ \A a \in drawArcs :
            LET mine == {i \in of : KeyOf(es[i]) = a.key} IN
            /\ a.count = Cardinality(mine)
            /\ \A i \in mine : es[i].got <= a.got
            /\ \E i \in mine : es[i].got \in {a.got, 0}
            /\ place = "map" => (a \in Painted <=> \E i \in mine : now - es[i].got <= TTL)

\* Exactly one animation frame is pending while a map is mounted, none after.
OneLoop == frames = IF place = "none" THEN 0 ELSE 1

\* The displayed events are distinct, and on the map page each was within its time, from
\* when the layout first saw it, when displayEvents was last set: nothing stays longer
\* than that time and one interval.  Once the layout's effect has run, ids that left the
\* store have left no stamp.
StampsFit ==
  /\ ~layoutDue => \A id \in Ids : stamps[id] > 0 => id \in IdsOf(store)
  /\ place = "map" => \A i \in DOMAIN display : flushed - display[i].got <= TTL
  /\ \A i, j \in DOMAIN display : display[i].id = display[j].id => i = j
  /\ \A i \in DOMAIN data : data[i].got > 0

Total(g) == MapThenSumSet(LAMBDA x : g[x], DOMAIN g)

RowsFit(labels) ==
  LET rows == TopRows(labels)
      names == IdsOf(labels)
      listed == {r.label : r \in rows}
  IN /\ Cardinality(rows) = IF Cardinality(names) < TopN THEN Cardinality(names) ELSE TopN
     /\ names = listed => Total([r \in rows |-> r.count]) = Len(labels)
     /\ \A r \in rows : \A n \in names \ listed : CountOf(labels, n) <= r.count

\* The panels account for the displayed events: TopN rows when there are as many
\* labels, none with fewer events than a label left out, and no event lost when every
\* label is listed; the chart counts each event of its window once.
PanelsFit ==
  /\ \A labels \in {Sources(display), Targets(display), Vectors(display)} : RowsFit(labels)
  /\ Total(Chart(store, now, ChartBuckets, 1))
       = Cardinality({i \in DOMAIN store : Shape[store[i]].at \in (now - ChartBuckets + 1)..now})

MapFits == ArcsFitDisplay /\ OneLoop /\ StampsFit /\ PanelsFit
====
