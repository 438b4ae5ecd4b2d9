-------------------------- MODULE Pipeline_proofs --------------------------
(***************************************************************************)
(* Proofs about the pipeline, for every queue size, every set of events,   *)
(* every budget and every window length: its state is well typed, the      *)
(* rate limit is overrun by one broadcast at most and withholds at most    *)
(* one too many, and no local event overtakes, repeats or vanishes.        *)
(***************************************************************************)
EXTENDS Pipeline, SequenceTheorems, TLAPS

(* What typing needs to know of where the workers are: the local worker    *)
(* holds an event exactly while it broadcasts, the global worker is never  *)
(* ready with its two items taken, and both have ended once stopped.       *)
WorkersInv ==
  /\ worker["local"] = "sending" <=> hand # None
  /\ worker["global"] \in {"ready", "asleep"} => burst < 2
  /\ phase = "stopped" => \A w \in Workers : worker[w] = "ended"

TypeInv == TypeOK /\ WorkersInv

WorkerStates == {"ready", "sending", "asleep", "ended"}

(* Broadcast(w) and its return keep the types of what they change.         *)
LEMMA BroadcastTypes ==
  ASSUME TypeOK, NEW w \in Workers, Broadcast(w)
  PROVE  /\ flush' \in 0 .. WindowTicks /\ sent' \in Nat
         /\ started' \in Nat /\ carried' \in Nat /\ old' \in SUBSET Workers
         /\ worker' \in [Workers -> WorkerStates]
  BY PipelineAssumption
  DEF TypeOK, Broadcast, Begin, SentNow, Expired, WorkerStates

LEMMA BroadcastReturnsTypes ==
  ASSUME TypeOK, NEW w \in Workers,
         NEW next \in {"ready", "asleep"}, BroadcastReturns(w, next)
  PROVE  /\ flush' \in 0 .. WindowTicks /\ sent' \in Nat
         /\ started' \in Nat /\ carried' \in Nat /\ old' \in SUBSET Workers
         /\ worker' \in [Workers -> WorkerStates]
  BY DEF TypeOK, BroadcastReturns, WorkerStates

(* An event taken off the queue leaves a shorter queue of events.          *)
LEMMA TakeTypes ==
  ASSUME TypeOK, queue # <<>>
  PROVE  /\ Head(queue) \in Events
         /\ Tail(queue) \in Seq(Events)
         /\ Len(Tail(queue)) <= QueueSize
  BY PipelineAssumption, HeadTailProperties DEF TypeOK

LEMMA TypeInit == Init => TypeInv
<1> SUFFICES ASSUME Init PROVE TypeInv
  OBVIOUS
<1>1. <<>> \in Seq(Events) /\ Len(<<>>) = 0
  BY EmptySeq
<1>2. TypeOK
  <2>1. queue \in Seq(Events) /\ stored \in Seq(Events) /\ accepted \in Seq(Events)
    BY <1>1 DEF Init
  <2>2. Len(queue) <= QueueSize
    BY <1>1, PipelineAssumption DEF Init
  <2>3. /\ flush \in 0 .. WindowTicks /\ feed \in 0 .. FeedSize
        /\ pulled \in 0 .. MaxPulled
    BY PipelineAssumption DEF Init
  <2>4. /\ phase \in {"running", "stopped"}
        /\ posts \in [Events -> {"new", "blocked", "accepted"}]
        /\ worker \in [Workers -> {"ready", "sending", "asleep", "ended"}]
    BY DEF Init
  <2>5. /\ held \in Nat /\ hand \in Events \cup {None} /\ burst \in 0 .. 2
        /\ rules \in {"fine", "raising"}
        /\ sent \in Nat /\ lost \in SUBSET Events
        /\ started \in Nat /\ carried \in Nat /\ old \in SUBSET Workers
    BY DEF Init
  <2>6. intel \in BOOLEAN
    BY DEF Init
  <2> QED
    BY <2>1, <2>2, <2>3, <2>4, <2>5, <2>6 DEF TypeOK
<1>3. WorkersInv
  BY PipelineAssumption DEF Init, WorkersInv, Workers
<1> QED
  BY <1>2, <1>3 DEF TypeInv

LEMMA TypeNext == TypeInv /\ [Next]_vars => TypeInv'
<1> SUFFICES ASSUME TypeInv, [Next]_vars PROVE TypeInv'
  OBVIOUS
<1> USE PipelineAssumption
    DEF TypeInv, postVars, feedVars, windowVars, storeVars
<1>a. "local" \in Workers /\ "global" \in Workers
  BY DEF Workers
<1>1. ASSUME NEW e \in Events, PostEnters(e) PROVE TypeInv'
  <2>1. queue' \in Seq(Events) /\ Len(queue') = Len(queue) + 1
    BY <1>1, AppendProperties DEF PostEnters, Enqueue, TypeOK
  <2>2. accepted' \in Seq(Events)
    BY <1>1, AppendProperties DEF PostEnters, Enqueue, TypeOK
  <2>3. Len(queue) \in Nat
    BY LenProperties DEF TypeOK
  <2> QED
    BY <1>1, <2>1, <2>2, <2>3 DEF PostEnters, Enqueue, TypeOK, WorkersInv
<1>2. ASSUME NEW e \in Events, PostBlocks(e) PROVE TypeInv'
  BY <1>2 DEF PostBlocks, TypeOK, WorkersInv
<1>3. ASSUME NEW n \in 1 .. MaxPulled, PullIntel(n) PROVE TypeInv'
  BY <1>3 DEF PullIntel, TypeOK, WorkersInv
<1>4. CASE FeedPut
  BY <1>4 DEF FeedPut, TypeOK, WorkersInv
<1>5. CASE RulesBreak \/ RulesReload
  BY <1>5 DEF RulesBreak, RulesReload, TypeOK, WorkersInv
<1>6. CASE LocalBroadcasts
  <2>1. Broadcast("local")
    BY <1>6 DEF LocalBroadcasts
  <2>2. hand' \in Events /\ queue' \in Seq(Events) /\ Len(queue') <= QueueSize
    BY <1>6, TakeTypes DEF LocalBroadcasts
  <2>3. TypeOK'
    BY <1>6, <1>a, <2>1, <2>2, BroadcastTypes
    DEF LocalBroadcasts, WorkerStates, TypeOK
  <2>4. WorkersInv'
    BY <1>6, <1>a, <2>1, <2>2
    DEF LocalBroadcasts, Broadcast, TypeOK, WorkersInv
  <2> QED
    BY <2>3, <2>4
<1>7. CASE LocalThrottles
  <2>1. stored' \in Seq(Events)
    BY <1>7, TakeTypes, AppendProperties DEF LocalThrottles, TypeOK
  <2> QED
    BY <1>7, <1>a, <2>1, TakeTypes
    DEF LocalThrottles, Throttled, TypeOK, WorkersInv
<1>8. CASE LocalRaises
  BY <1>8, <1>a, TakeTypes DEF LocalRaises, TypeOK, WorkersInv
<1>9. CASE LocalBroadcastReturns
  <2>1. BroadcastReturns("local", "ready")
    BY <1>9 DEF LocalBroadcastReturns
  <2>2. hand \in Events
    BY <2>1 DEF BroadcastReturns, TypeOK, WorkersInv
  <2>3. stored' \in Seq(Events)
    BY <1>9, <2>2, AppendProperties DEF LocalBroadcastReturns, TypeOK
  <2>4. TypeOK'
    BY <1>9, <1>a, <2>1, <2>3, BroadcastReturnsTypes
    DEF LocalBroadcastReturns, WorkerStates, TypeOK
  <2>5. WorkersInv'
    BY <1>9, <1>a, <2>1 DEF LocalBroadcastReturns, BroadcastReturns, TypeOK, WorkersInv
  <2> QED
    BY <2>4, <2>5
<1>10. CASE GlobalTakes
  <2>1. CASE Broadcast("global")
    <3>1. worker["global"] = "ready" /\ burst' = burst + 1
      BY <1>10, <2>1 DEF GlobalTakes, Broadcast, Throttled
    <3>2. TypeOK'
      BY <1>10, <1>a, <2>1, <3>1, BroadcastTypes
      DEF GlobalTakes, WorkerStates, TypeOK, WorkersInv
    <3>3. WorkersInv'
      BY <1>10, <1>a, <2>1 DEF GlobalTakes, Broadcast, TypeOK, WorkersInv
    <3> QED
      BY <3>2, <3>3
  <2>2. CASE ~Broadcast("global")
    <3> DEFINE next == AfterItem(feed - 1, burst + 1)
    <3>1. /\ Throttled("global", next) /\ next \in {"ready", "asleep"}
          /\ burst' = IF next = "asleep" THEN 0 ELSE burst + 1
      BY <1>10, <2>2 DEF GlobalTakes, AfterItem
    <3>2. worker["global"] = "ready" /\ burst \in 0 .. 1
      BY <3>1 DEF Throttled, TypeOK, WorkersInv
    <3>3. burst' \in 0 .. 1
      BY <3>1, <3>2 DEF AfterItem
    <3>4. worker' \in [Workers -> WorkerStates] /\ UNCHANGED windowVars
      BY <3>1, <1>a DEF Throttled, WorkerStates, TypeOK
    <3>5. TypeOK'
      BY <1>10, <3>3, <3>4 DEF GlobalTakes, WorkerStates, TypeOK
    <3>6. WorkersInv'
      BY <1>10, <1>a, <3>1, <3>3 DEF GlobalTakes, Throttled, TypeOK, WorkersInv
    <3> QED
      BY <3>5, <3>6
  <2> QED
    BY <2>1, <2>2
<1>11. CASE GlobalReplays
  <2>1. CASE Broadcast("global")
    <3>1. worker["global"] = "ready" /\ burst' = 2
      BY <1>11, <2>1 DEF GlobalReplays, Broadcast, Throttled
    <3>2. TypeOK'
      BY <1>11, <1>a, <2>1, <3>1, BroadcastTypes
      DEF GlobalReplays, WorkerStates, TypeOK
    <3>3. WorkersInv'
      BY <1>11, <1>a, <2>1 DEF GlobalReplays, Broadcast, TypeOK, WorkersInv
    <3> QED
      BY <3>2, <3>3
  <2>2. CASE ~Broadcast("global")
    BY <1>11, <1>a, <2>2 DEF GlobalReplays, Throttled, TypeOK, WorkersInv
  <2> QED
    BY <2>1, <2>2
<1>12. CASE GlobalHasNothing
  BY <1>12, <1>a DEF GlobalHasNothing, TypeOK, WorkersInv
<1>13. CASE GlobalBroadcastReturns
  <2> DEFINE next == AfterItem(feed, burst)
  <2>1. BroadcastReturns("global", next) /\ next \in {"ready", "asleep"}
    BY <1>13 DEF GlobalBroadcastReturns, AfterItem
  <2>2. burst' \in 0 .. 2
    BY <1>13 DEF GlobalBroadcastReturns, TypeOK
  <2>3. TypeOK'
    BY <1>13, <1>a, <2>1, <2>2, BroadcastReturnsTypes
    DEF GlobalBroadcastReturns, WorkerStates, TypeOK
  <2>4. WorkersInv'
    BY <1>13, <1>a, <2>1
    DEF GlobalBroadcastReturns, BroadcastReturns, AfterItem, TypeOK, WorkersInv
  <2> QED
    BY <2>3, <2>4
<1>14. ASSUME NEW w \in Workers, Wake(w) PROVE TypeInv'
  BY <1>14 DEF Wake, TypeOK, WorkersInv
<1>15. CASE Tick
  BY <1>15 DEF Tick, TypeOK, WorkersInv
<1>16. CASE Stop
  BY <1>16, <1>a DEF Stop, TypeOK, WorkersInv
<1>17. CASE Stopped \/ UNCHANGED vars
  BY <1>17 DEF Stopped, vars, TypeOK, WorkersInv
<1> QED
  BY <1>1, <1>2, <1>3, <1>4, <1>5, <1>6, <1>7, <1>8, <1>9, <1>10, <1>11,
     <1>12, <1>13, <1>14, <1>15, <1>16, <1>17 DEF Next

(* Every reachable state of the pipeline is well typed; in particular      *)
(* neither queue ever holds more than its maxsize.                         *)
THEOREM TypeCorrect == Spec => []TypeOK
<1>1. TypeInv => TypeOK
  BY DEF TypeInv
<1> QED
  BY <1>1, TypeInit, TypeNext, PTL DEF Spec
-----------------------------------------------------------------------------
(* The accounting behind the rate limit. Of the broadcasts started in the  *)
(* window those that returned are in sent, together with the carried ones  *)
(* that began before it; the rest are in flight and not old. As the worker *)
(* that resets the window is not in flight itself, at most one broadcast   *)
(* per window is old or carried.                                           *)
One(w, S) == IF w \in S THEN 1 ELSE 0

New == {w \in Workers : worker[w] = "sending" /\ w \notin old}

Count(S) == One("local", S) + One("global", S)

Accounting ==
  /\ \A w \in old : worker[w] = "sending"
  /\ phase = "running" => started + carried = sent + Count(New)
  /\ carried + Count(old) <= 1
  /\ started <= max_events_per_sec + 1
  /\ sent <= started + 1

(* A broadcast starts only within the budget, and leaves room for the      *)
(* other worker's.                                                         *)
LEMMA AccountingBroadcast ==
  ASSUME TypeOK, Accounting, phase = "running", phase' = "running",
         NEW w \in Workers, Broadcast(w)
  PROVE  Accounting'
<1> USE DEF Workers
<1>1. w = "local" \/ w = "global"
  OBVIOUS
<1>2. CASE Expired
  <2>1. /\ started' = 1 /\ carried' = 0 /\ sent' = 0
        /\ old' = {v \in Workers \ {w} : worker[v] = "sending"}
        /\ worker' = [worker EXCEPT ![w] = "sending"]
    BY <1>2 DEF Broadcast, Begin, SentNow
  <2>2. New' = {w}
    BY <2>1 DEF New, TypeOK
  <2>3. Count(New') = 1 /\ Count(old') <= 1
    BY <1>1, <2>1, <2>2 DEF Count, One
  <2>4. \A v \in old' : worker'[v] = "sending"
    BY <2>1 DEF TypeOK
  <2> QED
    BY <2>1, <2>3, <2>4, PipelineAssumption DEF Accounting, Count, One, New
<1>3. CASE ~Expired
  <2>1. /\ started' = started + 1 /\ carried' = carried /\ sent' = sent
        /\ old' = old /\ sent < max_events_per_sec
        /\ worker' = [worker EXCEPT ![w] = "sending"] /\ worker[w] = "ready"
    BY <1>3 DEF Broadcast, Begin, SentNow, WithinBudget
  <2>2. w \notin old /\ w \notin New
    BY <2>1 DEF Accounting, New
  <2>3. New' = New \cup {w}
    BY <2>1, <2>2 DEF New, TypeOK
  <2>4. Count(New') = Count(New) + 1 /\ Count(New) \in 0 .. 1
    BY <1>1, <2>2, <2>3 DEF Count, One
  <2>5. started + 1 <= max_events_per_sec + 1
    BY <2>1, <2>4, PipelineAssumption DEF Accounting, TypeOK
  <2>6. started' + carried' = sent' + Count(New')
    BY <2>1, <2>4 DEF Accounting, TypeOK
  <2>7. \A v \in old' : worker'[v] = "sending"
    BY <2>1 DEF Accounting, TypeOK
  <2>8. sent' <= started' + 1 /\ carried' + Count(old') <= 1
    BY <2>1 DEF Accounting, TypeOK
  <2> QED
    BY <2>1, <2>5, <2>6, <2>7, <2>8 DEF Accounting, Count, One, New
<1> QED
  BY <1>2, <1>3

(* A returning broadcast moves from in flight to sent, or from old to      *)
(* carried and sent.                                                       *)
LEMMA AccountingReturns ==
  ASSUME TypeOK, Accounting, phase = "running", phase' = "running",
         NEW w \in Workers, NEW next \in {"ready", "asleep"},
         BroadcastReturns(w, next)
  PROVE  Accounting'
<1> USE DEF Workers
<1>1. w = "local" \/ w = "global"
  OBVIOUS
<1>2. /\ started' = started /\ sent' = sent + 1 /\ old' = old \ {w}
      /\ carried' = IF w \in old THEN carried + 1 ELSE carried
      /\ worker' = [worker EXCEPT ![w] = next] /\ worker[w] = "sending"
  BY DEF BroadcastReturns
<1>3. New' = New \ {w}
  BY <1>2 DEF New, TypeOK
<1>4. \A v \in old' : worker'[v] = "sending"
  BY <1>2 DEF Accounting, TypeOK
<1>5. CASE w \in old
  <2>1. w \notin New /\ New' = New
    BY <1>3, <1>5 DEF New
  <2>2. Count(old') = Count(old) - 1
    BY <1>1, <1>2, <1>5 DEF Count, One
  <2>3. carried' = carried + 1
    BY <1>2, <1>5
  <2>4. Count(New') = Count(New) /\ Count(New) \in Nat /\ Count(old) \in Nat
    BY <2>1 DEF Count, One
  <2>5. started' + carried' = sent' + Count(New')
    <3>1. started + carried = sent + Count(New)
      BY DEF Accounting
    <3>2. started \in Nat /\ carried \in Nat /\ sent \in Nat
      BY DEF TypeOK
    <3> QED
      BY <1>2, <2>3, <2>4, <3>1, <3>2
  <2>6. carried' + Count(old') <= 1 /\ started' <= max_events_per_sec + 1
    BY <1>2, <2>2, <2>3, <2>4 DEF Accounting, TypeOK
  <2>7. carried' <= 1
    BY <2>6, <1>1, <1>2 DEF Count, One, TypeOK
  <2>8. sent' <= started' + 1
    BY <2>5, <2>7, <2>4, <1>2, <2>3 DEF TypeOK
  <2> QED
    BY <1>4, <2>5, <2>6, <2>8 DEF Accounting, Count, One, New
<1>6. CASE w \notin old
  <2>1. w \in New
    BY <1>2, <1>6 DEF New
  <2>2. Count(New') = Count(New) - 1
    BY <1>1, <1>3, <2>1 DEF Count, One
  <2>3. old' = old /\ carried' = carried
    BY <1>2, <1>6
  <2>4. started' + carried' = sent' + Count(New')
    BY <1>2, <2>2, <2>3 DEF Accounting, TypeOK, Count, One
  <2>5. carried <= 1
    BY DEF Accounting, Count, One, TypeOK
  <2>6. Count(New') \in Nat
    BY DEF Count, One
  <2>7. sent' <= started' + 1
    BY <1>2, <2>3, <2>4, <2>5, <2>6 DEF TypeOK
  <2> QED
    BY <1>2, <1>4, <2>3, <2>4, <2>7 DEF Accounting, Count, One, New
<1> QED
  BY <1>5, <1>6

(* A step that moves no worker into or out of "sending" and leaves the     *)
(* window alone, but for its age, keeps the accounting.                    *)
LEMMA AccountingFrame ==
  ASSUME TypeOK, Accounting, phase' = phase,
         sent' = sent, started' = started, carried' = carried, old' = old,
         \A w \in Workers : worker'[w] = "sending" <=> worker[w] = "sending"
  PROVE  Accounting'
<1>1. New' = New
  BY DEF New, TypeOK
<1> QED
  BY <1>1 DEF Accounting, Count, One, TypeOK

Inv == TypeInv /\ Accounting

LEMMA AccountingInit == Init => Accounting
  BY PipelineAssumption DEF Init, Accounting, Count, One, New, Workers

LEMMA AccountingNext == Inv /\ [Next]_vars => Accounting'
<1> SUFFICES ASSUME Inv, [Next]_vars PROVE Accounting'
  OBVIOUS
<1>a. TypeOK /\ Accounting /\ WorkersInv
  BY DEF Inv, TypeInv
<1>b. "local" \in Workers /\ "global" \in Workers
  BY DEF Workers
<1> USE DEF postVars, feedVars, windowVars, storeVars
<1>1. ASSUME NEW e \in Events, PostEnters(e) \/ PostBlocks(e)
      PROVE  Accounting'
  BY <1>1, <1>a, AccountingFrame DEF PostEnters, PostBlocks
<1>2. ASSUME NEW n \in 1 .. MaxPulled, PullIntel(n) PROVE Accounting'
  BY <1>2, <1>a, AccountingFrame DEF PullIntel
<1>3. CASE FeedPut \/ RulesBreak \/ RulesReload
  BY <1>3, <1>a, AccountingFrame DEF FeedPut, RulesBreak, RulesReload
<1>4. CASE LocalBroadcasts
  BY <1>4, <1>a, <1>b, AccountingBroadcast DEF LocalBroadcasts
<1>5. CASE LocalThrottles
  BY <1>5, <1>a, <1>b, AccountingFrame DEF LocalThrottles, Throttled, TypeOK
<1>6. CASE LocalRaises
  BY <1>6, <1>a, <1>b, AccountingFrame DEF LocalRaises, TypeOK
<1>7. ASSUME NEW w \in Workers, NEW next \in {"ready", "asleep"},
             BroadcastReturns(w, next), phase' = phase
      PROVE  Accounting'
  <2>1. phase = "running"
    BY <1>7, <1>a DEF BroadcastReturns, WorkersInv, TypeOK
  <2> QED
    BY <1>7, <1>a, <2>1, AccountingReturns
<1>8. CASE LocalBroadcastReturns
  BY <1>7, <1>8, <1>b DEF LocalBroadcastReturns
<1>9. CASE GlobalTakes \/ GlobalReplays
  <2>1. phase = "running" /\ phase' = "running"
    BY <1>9 DEF GlobalTakes, GlobalReplays
  <2>2. CASE Broadcast("global")
    BY <2>1, <2>2, <1>a, <1>b, AccountingBroadcast
  <2>3. ASSUME NEW next \in {"ready", "asleep"}, Throttled("global", next)
        PROVE  Accounting'
    BY <2>1, <2>3, <1>a, <1>b, AccountingFrame DEF Throttled, TypeOK
  <2> QED
    BY <1>9, <2>2, <2>3 DEF GlobalTakes, GlobalReplays, AfterItem
<1>10. CASE GlobalHasNothing
  BY <1>10, <1>a, <1>b, AccountingFrame DEF GlobalHasNothing, TypeOK
<1>11. CASE GlobalBroadcastReturns
  BY <1>7, <1>11, <1>b DEF GlobalBroadcastReturns, AfterItem
<1>12. ASSUME NEW w \in Workers, Wake(w) PROVE Accounting'
  BY <1>12, <1>a, AccountingFrame DEF Wake, TypeOK
<1>13. CASE Tick
  BY <1>13, <1>a, AccountingFrame DEF Tick
<1>14. CASE Stop
  BY <1>14, <1>a DEF Stop, Accounting, Count, One, TypeOK
<1>15. CASE Stopped \/ UNCHANGED vars
  BY <1>15, <1>a, AccountingFrame DEF Stopped, vars
<1> QED
  BY <1>1, <1>2, <1>3, <1>4, <1>5, <1>6, <1>8, <1>9, <1>10, <1>11, <1>12,
     <1>13, <1>14, <1>15 DEF Next

LEMMA Invariance == Spec => []Inv
<1>1. Init => Inv
  BY TypeInit, AccountingInit DEF Inv
<1>2. Inv /\ [Next]_vars => Inv'
  BY TypeNext, AccountingNext DEF Inv
<1> QED
  BY <1>1, <1>2, PTL DEF Spec

(* The rate limit for every budget: between two resets of the window the   *)
(* workers start at most max_events_per_sec + 1 broadcasts.                *)
THEOREM RateLimit == Spec => []WindowBound
<1>1. Inv => WindowBound
  BY DEF Inv, Accounting, WindowBound
<1> QED
  BY <1>1, Invariance, PTL

(* Nor does it withhold early: when an event is throttled, all but one of  *)
(* the window's broadcasts have been started in it.                        *)
THEOREM NoEarlyThrottle == Spec => []BudgetUsed
<1>1. Inv => BudgetUsed
  <2> SUFFICES ASSUME Inv, ~WithinBudget
               PROVE  started >= max_events_per_sec - 1
    BY DEF BudgetUsed
  <2>1. ~Expired
    BY PipelineAssumption DEF WithinBudget, SentNow
  <2>2. sent >= max_events_per_sec
    BY <2>1, PipelineAssumption DEF WithinBudget, SentNow, Inv, TypeInv, TypeOK
  <2> QED
    BY <2>2, PipelineAssumption DEF Inv, TypeInv, TypeOK, Accounting
<1> QED
  BY <1>1, Invariance, PTL
-----------------------------------------------------------------------------
(* The order of the events. Range and positions of a longer sequence, and  *)
(* of one from which an entry in the middle was taken.                     *)
LEMMA AppendRange ==
  ASSUME NEW S, NEW s \in Seq(S), NEW x \in S
  PROVE  Range(Append(s, x)) = Range(s) \cup {x}
<1>1. /\ DOMAIN s = 1 .. Len(s) /\ Len(s) \in Nat
      /\ DOMAIN Append(s, x) = 1 .. Len(s) + 1
      /\ \A i \in 1 .. Len(s) : Append(s, x)[i] = s[i]
      /\ Append(s, x)[Len(s) + 1] = x
  BY AppendProperties, LenProperties
<1>2. Range(Append(s, x)) \subseteq Range(s) \cup {x}
  BY <1>1 DEF Range
<1>3. Range(s) \subseteq Range(Append(s, x)) /\ x \in Range(Append(s, x))
  BY <1>1 DEF Range
<1> QED
  BY <1>2, <1>3

(* A sequence appended to before or after a concatenation.                 *)
LEMMA AppendOutside ==
  ASSUME NEW S, NEW s \in Seq(S), NEW t \in Seq(S), NEW x \in S
  PROVE  s \o Append(t, x) = Append(s \o t, x)
<1> DEFINE y == <<x>>
<1>1. y \in Seq(S)
  OBVIOUS
<1>2. /\ Append(t, x) = t \o y /\ s \o t \in Seq(S)
      /\ Append(s \o t, x) = (s \o t) \o y
  <2>1. s \o t \in Seq(S)
    BY ConcatProperties
  <2> QED
    BY <2>1, AppendIsConcat
<1> HIDE DEF y
<1> QED
  BY <1>1, <1>2, ConcatAssociative

LEMMA MoveFirst ==
  ASSUME NEW S, NEW s \in Seq(S), NEW q \in Seq(S), q # <<>>
  PROVE  s \o q = Append(s, Head(q)) \o Tail(q)
<1> DEFINE x == Head(q)
           t == Tail(q)
           u == Append(s, x)
           l == s \o q
           r == u \o t
<1>1. /\ x \in S /\ t \in Seq(S) /\ Len(t) = Len(q) - 1
      /\ \A i \in 1 .. Len(t) : t[i] = q[i + 1]
      /\ x = q[1]
  BY HeadTailProperties
<1>2. Len(s) \in Nat /\ Len(q) \in Nat /\ Len(q) > 0
  BY LenProperties, EmptySeq
<1> HIDE DEF x, t
<1>3. /\ l \in Seq(S) /\ Len(l) = Len(s) + Len(q)
      /\ \A i \in 1 .. Len(s) + Len(q) :
           l[i] = IF i <= Len(s) THEN s[i] ELSE q[i - Len(s)]
  BY ConcatProperties
<1>4. /\ u \in Seq(S) /\ Len(u) = Len(s) + 1
      /\ \A i \in 1 .. Len(s) : u[i] = s[i]
      /\ u[Len(s) + 1] = x
  BY <1>1, AppendProperties
<1> HIDE DEF u
<1>5. /\ r \in Seq(S) /\ Len(r) = Len(s) + 1 + Len(t)
      /\ \A i \in 1 .. Len(s) + 1 + Len(t) :
           r[i] = IF i <= Len(s) + 1 THEN u[i] ELSE t[i - (Len(s) + 1)]
  <2>1. u \in Seq(S) /\ t \in Seq(S)
    BY <1>1, <1>4
  <2>2. /\ r \in Seq(S) /\ Len(r) = Len(u) + Len(t)
        /\ \A i \in 1 .. Len(u) + Len(t) :
             r[i] = IF i <= Len(u) THEN u[i] ELSE t[i - Len(u)]
    BY <2>1, ConcatProperties
  <2>3. Len(u) = Len(s) + 1
    BY <1>4
  <2> QED
    BY <2>2, <2>3
<1> HIDE DEF l, r
<1>6. ASSUME NEW i \in 1 .. Len(l) PROVE l[i] = r[i]
  <2>1. i \in Int /\ 1 <= i /\ i <= Len(s) + Len(q)
        /\ i \in 1 .. Len(s) + Len(q) /\ i \in 1 .. Len(s) + 1 + Len(t)
    BY <1>1, <1>2, <1>3
  <2>2. CASE i <= Len(s)
    <3>1. i \in 1 .. Len(s)
      BY <1>2, <2>1, <2>2
    <3>2. l[i] = s[i]
      BY <1>3, <2>1, <2>2
    <3>3. i <= Len(s) + 1
      BY <1>2, <2>1, <2>2
    <3>4. r[i] = u[i]
      BY <1>5, <2>1, <3>3
    <3> QED
      BY <1>4, <3>1, <3>2, <3>4
  <2>3. CASE i = Len(s) + 1
    <3>1. ~(i <= Len(s)) /\ i <= Len(s) + 1 /\ i - Len(s) = 1
      BY <1>2, <2>3
    <3>2. l[i] = q[1] /\ r[i] = u[Len(s) + 1]
      BY <1>3, <1>5, <2>1, <2>3, <3>1
    <3> QED
      BY <1>1, <1>4, <3>2
  <2>4. CASE i > Len(s) + 1
    <3>1. /\ ~(i <= Len(s)) /\ ~(i <= Len(s) + 1)
          /\ i - (Len(s) + 1) \in 1 .. Len(t)
          /\ (i - (Len(s) + 1)) + 1 = i - Len(s)
      BY <1>1, <1>2, <2>1, <2>4
    <3>2. l[i] = q[i - Len(s)] /\ r[i] = t[i - (Len(s) + 1)]
      BY <1>3, <1>5, <2>1, <3>1
    <3> QED
      BY <1>1, <3>1, <3>2
  <2> QED
    BY <1>2, <2>1, <2>2, <2>3, <2>4
<1>7. Len(l) = Len(r)
  BY <1>1, <1>2, <1>3, <1>5
<1>8. l = r
  BY <1>3, <1>5, <1>6, <1>7, SeqEqual
<1> QED
  BY <1>8 DEF l, r, u, x, t

LEMMA AppendOrder ==
  ASSUME NEW S, NEW l \in Seq(S), NEW a \in Seq(S), NEW x \in S,
         Range(l) \subseteq Range(a), KeepsOrder(l, a)
  PROVE  KeepsOrder(Append(l, x), Append(a, x))
<1> DEFINE ll == Append(l, x)
           aa == Append(a, x)
<1>1. /\ DOMAIN l = 1 .. Len(l) /\ DOMAIN a = 1 .. Len(a)
      /\ Len(l) \in Nat /\ Len(a) \in Nat
  BY LenProperties
<1>2. /\ DOMAIN ll = 1 .. Len(l) + 1 /\ DOMAIN aa = 1 .. Len(a) + 1
      /\ \A i \in 1 .. Len(l) : ll[i] = l[i]
      /\ \A i \in 1 .. Len(a) : aa[i] = a[i]
      /\ ll[Len(l) + 1] = x /\ aa[Len(a) + 1] = x
  BY AppendProperties, LenProperties
<1> HIDE DEF ll, aa
<1>3. ASSUME NEW i \in DOMAIN ll, NEW j \in DOMAIN ll, i < j
      PROVE  \E k, m \in DOMAIN aa : k < m /\ aa[k] = ll[i] /\ aa[m] = ll[j]
  <2>1. i \in DOMAIN l
    BY <1>1, <1>2, <1>3
  <2>2. CASE j \in DOMAIN l
    <3>1. PICK k \in DOMAIN a, m \in DOMAIN a :
                 k < m /\ a[k] = l[i] /\ a[m] = l[j]
      BY <1>3, <2>1, <2>2 DEF KeepsOrder
    <3> QED
      BY <1>1, <1>2, <2>1, <2>2, <3>1
  <2>3. CASE j \notin DOMAIN l
    <3>1. j = Len(l) + 1
      BY <1>1, <1>2, <2>3
    <3>2. PICK k \in DOMAIN a : a[k] = l[i]
      BY <2>1 DEF Range
    <3>3. /\ k \in DOMAIN aa /\ Len(a) + 1 \in DOMAIN aa /\ k < Len(a) + 1
          /\ aa[k] = ll[i] /\ aa[Len(a) + 1] = ll[j]
      BY <1>1, <1>2, <2>1, <3>1, <3>2
    <3> QED
      BY <3>3
  <2> QED
    BY <2>2, <2>3
<1> QED
  BY <1>3 DEF KeepsOrder, ll, aa

LEMMA AppendOnce ==
  ASSUME NEW S, NEW a \in Seq(S), NEW x \in S,
         IsInjective(a), x \notin Range(a)
  PROVE  IsInjective(Append(a, x))
<1>1. /\ DOMAIN a = 1 .. Len(a) /\ Len(a) \in Nat
      /\ DOMAIN Append(a, x) = 1 .. Len(a) + 1
      /\ \A i \in 1 .. Len(a) : Append(a, x)[i] = a[i]
      /\ Append(a, x)[Len(a) + 1] = x
  BY AppendProperties, LenProperties
<1>2. \A i \in 1 .. Len(a) : a[i] # x
  BY <1>1 DEF Range
<1> QED
  BY <1>1, <1>2 DEF IsInjective

LEMMA OrderIsInjective ==
  ASSUME NEW S, NEW l \in Seq(S), NEW a \in Seq(S),
         IsInjective(a), KeepsOrder(l, a)
  PROVE  \A i, j \in DOMAIN l : i < j => l[i] # l[j]
<1> SUFFICES ASSUME NEW i \in DOMAIN l, NEW j \in DOMAIN l, i < j
             PROVE  l[i] # l[j]
  OBVIOUS
<1>1. PICK k \in DOMAIN a, m \in DOMAIN a :
             k < m /\ a[k] = l[i] /\ a[m] = l[j]
  BY DEF KeepsOrder
<1>2. k \in Nat /\ m \in Nat
  BY LenProperties
<1> QED
  BY <1>1, <1>2 DEF IsInjective

LEMMA Removal ==
  ASSUME NEW S, NEW s \in Seq(S), NEW t \in Seq(S), NEW x \in S,
         NEW a \in Seq(S), NEW gone,
         NEW u \in Seq(S), u = Append(s, x),
         IsInjective(a), KeepsOrder(u \o t, a),
         Range(u \o t) = Range(a) \ gone
  PROVE  /\ Range(s \o t) = Range(a) \ (gone \cup {x})
         /\ KeepsOrder(s \o t, a)
<1> DEFINE l == u \o t
           r == s \o t
           Old(i) == IF i <= Len(s) THEN i ELSE i + 1
<1>1. Len(s) \in Nat /\ Len(t) \in Nat
  BY LenProperties
<1>2. /\ Len(u) = Len(s) + 1
      /\ \A i \in 1 .. Len(s) : u[i] = s[i]
      /\ u[Len(s) + 1] = x
  BY AppendProperties
<1>3. /\ l \in Seq(S) /\ DOMAIN l = 1 .. Len(s) + 1 + Len(t)
      /\ \A i \in 1 .. Len(s) + 1 + Len(t) :
           l[i] = IF i <= Len(s) + 1 THEN u[i] ELSE t[i - (Len(s) + 1)]
  BY <1>1, <1>2, ConcatProperties, LenProperties
<1>4. /\ l \in Seq(S) /\ DOMAIN l = 1 .. Len(s) + 1 + Len(t)
      /\ \A i \in 1 .. Len(s) : l[i] = s[i]
      /\ l[Len(s) + 1] = x
      /\ \A i \in 1 .. Len(t) : l[Len(s) + 1 + i] = t[i]
  BY <1>1, <1>2, <1>3
<1>5. /\ r \in Seq(S) /\ DOMAIN r = 1 .. Len(s) + Len(t)
      /\ \A i \in 1 .. Len(s) + Len(t) :
           r[i] = IF i <= Len(s) THEN s[i] ELSE t[i - Len(s)]
  BY <1>1, ConcatProperties, LenProperties
<1>6. \A i, j \in DOMAIN l : i < j => l[i] # l[j]
  BY <1>4, OrderIsInjective
<1> HIDE DEF l, r
<1>7. ASSUME NEW i \in DOMAIN r
      PROVE  Old(i) \in DOMAIN l /\ r[i] = l[Old(i)] /\ Old(i) # Len(s) + 1
  <2>1. CASE i <= Len(s)
    <3>1. i \in 1 .. Len(s) /\ Old(i) = i
      BY <1>1, <1>5, <2>1
    <3>2. i \in DOMAIN l /\ l[i] = s[i] /\ i # Len(s) + 1
      BY <1>1, <1>4, <3>1
    <3>3. r[i] = s[i]
      BY <1>5, <2>1
    <3> QED
      BY <3>1, <3>2, <3>3
  <2>2. CASE i > Len(s)
    <3>1. i - Len(s) \in 1 .. Len(t) /\ Len(s) + 1 + (i - Len(s)) = i + 1
      BY <1>1, <1>5, <2>2
    <3> QED
      <4>1. Old(i) = i + 1 /\ i + 1 \in 1 .. Len(s) + 1 + Len(t)
        BY <1>1, <1>5, <2>2
      <4>2. l[i + 1] = t[i - Len(s)]
        BY <1>4, <3>1
      <4>3. i \in 1 .. Len(s) + Len(t) /\ ~(i <= Len(s))
        BY <1>1, <1>5, <2>2
      <4>4. r[i] = t[i - Len(s)]
        BY <1>5, <4>3
      <4>5. i + 1 # Len(s) + 1
        BY <1>1, <4>3
      <4> QED
        BY <1>4, <4>1, <4>2, <4>4, <4>5
  <2> QED
    BY <1>1, <1>5, <2>1, <2>2
<1>8. KeepsOrder(r, a)
  <2> SUFFICES ASSUME NEW i \in DOMAIN r, NEW j \in DOMAIN r, i < j
               PROVE  \E k, m \in DOMAIN a :
                        k < m /\ a[k] = r[i] /\ a[m] = r[j]
    BY DEF KeepsOrder
  <2>1. Old(i) < Old(j)
    BY <1>1, <1>5
  <2>2. PICK k \in DOMAIN a, m \in DOMAIN a :
               k < m /\ a[k] = l[Old(i)] /\ a[m] = l[Old(j)]
    <3>1. KeepsOrder(l, a)
      BY DEF l
    <3> QED
      BY <1>7, <2>1, <3>1 DEF KeepsOrder
  <2> QED
    BY <1>7, <2>2
<1>9. Range(r) = Range(l) \ {x}
  <2>1. ASSUME NEW i \in DOMAIN r PROVE r[i] \in Range(l) \ {x}
    <3>1. ASSUME NEW p \in DOMAIN l, p # Len(s) + 1 PROVE l[p] # x
      <4>1. Len(s) + 1 \in DOMAIN l /\ (p < Len(s) + 1 \/ Len(s) + 1 < p)
        BY <1>1, <1>4, <3>1
      <4> QED
        BY <1>4, <1>6, <4>1
    <3>2. r[i] = l[Old(i)] /\ l[Old(i)] # x /\ Old(i) \in DOMAIN l
      BY <1>7, <3>1
    <3> QED
      BY <3>2 DEF Range
  <2>2. ASSUME NEW p \in DOMAIN l, l[p] # x PROVE l[p] \in Range(r)
    <3>1. p # Len(s) + 1
      BY <1>4, <2>2
    <3>2. CASE p <= Len(s)
      <4>1. p \in DOMAIN r /\ r[p] = l[p]
        BY <1>1, <1>4, <1>5, <3>2
      <4> QED
        BY <4>1 DEF Range
    <3>3. CASE p > Len(s) + 1
      <4>1. p - 1 \in DOMAIN r /\ Old(p - 1) = p
        BY <1>1, <1>4, <1>5, <3>3
      <4>2. r[p - 1] = l[p]
        BY <1>7, <4>1
      <4> QED
        BY <4>1, <4>2 DEF Range
    <3> QED
      BY <1>1, <1>4, <3>1, <3>2, <3>3
  <2>3. Range(r) \subseteq Range(l) \ {x}
    BY <2>1 DEF Range
  <2>4. Range(l) \ {x} \subseteq Range(r)
    BY <2>2 DEF Range
  <2> QED
    BY <2>3, <2>4
<1> QED
  BY <1>8, <1>9 DEF l, r
-----------------------------------------------------------------------------
(* What orders the events: an event is accepted once its handler is, so a  *)
(* handler that has yet to enter brings a new one.                         *)
InHand == IF hand = None THEN <<>> ELSE <<hand>>

Flow ==
  /\ AcceptedInOrder
  /\ \A e \in Events : posts[e] = "accepted" <=> e \in Range(accepted)
  /\ lost \subseteq Range(accepted)

LEMMA LineParts ==
  ASSUME TypeOK
  PROVE  /\ InHand \in Seq(Events) /\ Line = (stored \o InHand) \o queue
         /\ Line \in Seq(Events) /\ stored \in Seq(Events)
         /\ queue \in Seq(Events) /\ accepted \in Seq(Events)
<1>1. InHand \in Seq(Events)
  BY DEF TypeOK, InHand
<1>2. stored \o InHand \in Seq(Events)
  BY <1>1, ConcatProperties DEF TypeOK
<1> QED
  BY <1>1, <1>2, ConcatProperties DEF TypeOK, InHand, Line

LEMMA FlowInit == Init => Flow
<1> SUFFICES ASSUME Init PROVE Flow
  OBVIOUS
<1>1. Line = <<>>
  <2>1. <<>> \in Seq(Events)
    OBVIOUS
  <2> QED
    BY <2>1, ConcatEmptySeq DEF Init, Line
<1>2. DOMAIN <<>> = {} /\ Range(<<>>) = {}
  BY DEF Range
<1> QED
  BY <1>1, <1>2 DEF Init, Flow, AcceptedInOrder, KeepsOrder, IsInjective

(* Whatever leaves the line, the accepted events and the lost ones alone   *)
(* keeps the flow, when it lets no handler in.                             *)
LEMMA FlowFrame ==
  ASSUME Flow, Line' = Line, accepted' = accepted, lost' = lost,
         \A e \in Events : posts'[e] = "accepted" <=> posts[e] = "accepted"
  PROVE  Flow'
  BY DEF Flow, AcceptedInOrder

LEMMA FlowEnters ==
  ASSUME TypeOK, Flow, NEW e \in Events, PostEnters(e)
  PROVE  Flow'
<1>1. /\ queue' = Append(queue, e) /\ accepted' = Append(accepted, e)
      /\ posts' = [posts EXCEPT ![e] = "accepted"] /\ posts[e] # "accepted"
      /\ hand' = hand /\ stored' = stored /\ lost' = lost
  BY DEF PostEnters, Enqueue, storeVars
<1>2. e \notin Range(accepted)
  BY <1>1 DEF Flow
<1>3. Line' = Append(Line, e)
  <2> DEFINE ahead == stored \o InHand
  <2>1. ahead \in Seq(Events) /\ Line = ahead \o queue
    BY LineParts, ConcatProperties
  <2>2. Line' = ahead \o Append(queue, e)
    BY <1>1 DEF Line, InHand
  <2> HIDE DEF ahead
  <2> QED
    BY <2>1, <2>2, LineParts, AppendOutside
<1>4. IsInjective(accepted')
  BY <1>1, <1>2, LineParts, AppendOnce DEF Flow, AcceptedInOrder
<1>5. Range(accepted') = Range(accepted) \cup {e}
  BY <1>1, LineParts, AppendRange
<1>6. Range(Line') = Range(Line) \cup {e}
  BY <1>3, LineParts, AppendRange
<1>7. KeepsOrder(Line, accepted)' = KeepsOrder(Line', accepted')
  BY DEF KeepsOrder
<1>8. KeepsOrder(Line', accepted')
  BY <1>1, <1>3, LineParts, AppendOrder DEF Flow, AcceptedInOrder
<1>9. e \notin lost
  BY <1>2 DEF Flow
<1>10. AcceptedInOrder'
  BY <1>1, <1>4, <1>5, <1>6, <1>7, <1>8, <1>9 DEF AcceptedInOrder, Flow
<1>11. (\A f \in Events : posts[f] = "accepted" <=> f \in Range(accepted))'
  BY <1>1, <1>5 DEF Flow, TypeOK
<1> QED
  BY <1>1, <1>5, <1>10, <1>11 DEF Flow

(* An event lost at the front of the queue, or in hand.                    *)
LEMMA FlowLoses ==
  ASSUME TypeOK, Flow, NEW x \in Events, NEW t \in Seq(Events),
         Line = Append(stored, x) \o t, Line' = stored \o t,
         lost' = lost \cup {x}, accepted' = accepted, posts' = posts
  PROVE  Flow'
<1>1. /\ IsInjective(accepted) /\ KeepsOrder(Line, accepted)
      /\ Range(Line) = Range(accepted) \ lost
  BY DEF Flow, AcceptedInOrder
<1>2. /\ Range(Line') = Range(accepted) \ lost'
      /\ KeepsOrder(Line', accepted)
  <2> DEFINE u == Append(stored, x)
  <2>1. u \in Seq(Events) /\ Line = u \o t
    BY LineParts, AppendProperties
  <2> HIDE DEF u
  <2>2. KeepsOrder(u \o t, accepted) /\ Range(u \o t) = Range(accepted) \ lost
    BY <1>1, <2>1
  <2>3. u = Append(stored, x)
    BY DEF u
  <2>4. /\ Range(stored \o t) = Range(accepted) \ (lost \cup {x})
        /\ KeepsOrder(stored \o t, accepted)
    BY <1>1, <2>1, <2>2, <2>3, LineParts, Removal
  <2> QED
    BY <2>4
<1>3. x \in Range(Line)
  <2> DEFINE u == Append(stored, x)
  <2>1. u \in Seq(Events) /\ x \in Range(u) /\ Line = u \o t
    BY LineParts, AppendRange, AppendProperties
  <2> HIDE DEF u
  <2> QED
    BY <2>1, RangeConcatenation
<1>4. KeepsOrder(Line, accepted)' = KeepsOrder(Line', accepted')
  BY DEF KeepsOrder
<1>5. AcceptedInOrder'
  BY <1>1, <1>2, <1>4 DEF AcceptedInOrder
<1> QED
  BY <1>1, <1>3, <1>5 DEF Flow

(* The first of the queue moves up, past an empty hand.                    *)
LEMMA FrontOfQueue ==
  ASSUME TypeOK, hand = None, queue # <<>>
  PROVE  /\ Line = Append(stored, Head(queue)) \o Tail(queue)
         /\ Head(queue) \in Events /\ Tail(queue) \in Seq(Events)
<1>1. Head(queue) \in Events /\ Tail(queue) \in Seq(Events)
  BY TakeTypes
<1>2. Line = stored \o queue
  BY LineParts, ConcatEmptySeq DEF InHand
<1> QED
  BY <1>1, <1>2, LineParts, MoveFirst

LEMMA FlowNext == TypeInv /\ Flow /\ [Next]_vars => Flow'
<1> SUFFICES ASSUME TypeInv, Flow, [Next]_vars PROVE Flow'
  OBVIOUS
<1>a. TypeOK /\ WorkersInv
  BY DEF TypeInv
<1>b. "local" \in Workers /\ "global" \in Workers
  BY DEF Workers
<1>c. worker["local"] = "ready" => hand = None
  BY <1>a DEF WorkersInv
<1> USE DEF postVars, feedVars, windowVars, storeVars
<1>1. ASSUME NEW e \in Events, PostEnters(e) PROVE Flow'
  BY <1>1, <1>a, FlowEnters
<1>2. ASSUME NEW e \in Events, PostBlocks(e) PROVE Flow'
  <2>1. \A f \in Events : posts'[f] = "accepted" <=> posts[f] = "accepted"
    BY <1>2, <1>a DEF PostBlocks, TypeOK
  <2> QED
    BY <1>2, <2>1, FlowFrame DEF PostBlocks, Line
<1>3. ASSUME NEW n \in 1 .. MaxPulled, PullIntel(n) PROVE Flow'
  BY <1>3, FlowFrame DEF PullIntel, Line
<1>4. CASE FeedPut \/ RulesBreak \/ RulesReload \/ Tick
  BY <1>4, FlowFrame DEF FeedPut, RulesBreak, RulesReload, Tick, Line
<1>5. CASE LocalBroadcasts
  <2>1. hand = None /\ queue # <<>>
    BY <1>5, <1>c DEF LocalBroadcasts, Broadcast
  <2>2. Line' = Append(stored, Head(queue)) \o Tail(queue)
    <3>1. /\ hand' = Head(queue) /\ hand' # None
          /\ stored' = stored /\ queue' = Tail(queue)
      BY <1>5, <1>a, <2>1, FrontOfQueue, PipelineAssumption
      DEF LocalBroadcasts
    <3>2. Line' = (stored \o <<Head(queue)>>) \o Tail(queue)
      BY <3>1 DEF Line
    <3> QED
      BY <1>a, <2>1, <3>2, FrontOfQueue, LineParts, AppendIsConcat
  <2> QED
    BY <1>5, <1>a, <2>1, <2>2, FrontOfQueue, FlowFrame DEF LocalBroadcasts
<1>6. CASE LocalThrottles
  <2>1. hand = None /\ queue # <<>>
    BY <1>6, <1>c DEF LocalThrottles, Throttled
  <2>2. stored' = Append(stored, Head(queue)) /\ stored' \in Seq(Events)
    BY <1>6, <1>a, <2>1, FrontOfQueue, LineParts, AppendProperties
    DEF LocalThrottles
  <2>3. Line' = stored' \o Tail(queue)
    BY <1>6, <2>1, <2>2, ConcatEmptySeq DEF LocalThrottles, Line
  <2> QED
    BY <1>6, <1>a, <2>1, <2>2, <2>3, FrontOfQueue, FlowFrame
    DEF LocalThrottles
<1>7. CASE LocalRaises
  <2>1. hand = None /\ queue # <<>>
    BY <1>7, <1>c DEF LocalRaises
  <2>2. Line' = stored \o Tail(queue)
    BY <1>7, <1>a, <2>1, LineParts, ConcatEmptySeq DEF LocalRaises, Line
  <2>3. /\ Line = Append(stored, Head(queue)) \o Tail(queue)
        /\ Head(queue) \in Events /\ Tail(queue) \in Seq(Events)
    BY <1>a, <2>1, FrontOfQueue
  <2>4. lost' = lost \cup {Head(queue)} /\ accepted' = accepted /\ posts' = posts
    BY <1>7 DEF LocalRaises
  <2> QED
    BY <1>a, <2>2, <2>3, <2>4, FlowLoses
<1>8. CASE LocalBroadcastReturns
  <2>1. hand \in Events /\ hand # None
    BY <1>8, <1>a
    DEF LocalBroadcastReturns, BroadcastReturns, WorkersInv, TypeOK
  <2>2. stored' = stored \o <<hand>> /\ stored' \in Seq(Events)
    BY <1>8, <1>a, <2>1, LineParts, AppendIsConcat, AppendProperties
    DEF LocalBroadcastReturns
  <2>3. Line' = stored' \o queue
    BY <1>8, <2>2, ConcatEmptySeq DEF LocalBroadcastReturns, Line
  <2>4. Line' = Line
    BY <2>1, <2>2, <2>3 DEF Line
  <2> QED
    BY <1>8, <2>4, FlowFrame DEF LocalBroadcastReturns
<1>9. CASE GlobalTakes \/ GlobalReplays \/ GlobalHasNothing
           \/ GlobalBroadcastReturns
  BY <1>9, FlowFrame
  DEF GlobalTakes, GlobalReplays, GlobalHasNothing, GlobalBroadcastReturns, Line
<1>10. ASSUME NEW w \in Workers, Wake(w) PROVE Flow'
  BY <1>10, FlowFrame DEF Wake, Line
<1>11. CASE Stop
  <2>1. CASE hand = None
    BY <1>11, <2>1, FlowFrame DEF Stop, Line
  <2>2. CASE hand # None
    <3>1. hand \in Events /\ lost' = lost \cup {hand}
      BY <1>11, <1>a, <2>2 DEF Stop, TypeOK
    <3>2. Line = Append(stored, hand) \o queue
      BY <1>a, <2>2, <3>1, LineParts, AppendIsConcat DEF Line
    <3>3. Line' = stored \o queue
      BY <1>11, <1>a, LineParts, ConcatEmptySeq DEF Stop, Line
    <3>4. accepted' = accepted /\ posts' = posts
      BY <1>11 DEF Stop
    <3> QED
      BY <1>a, <3>1, <3>2, <3>3, <3>4, LineParts, FlowLoses
  <2> QED
    BY <2>1, <2>2
<1>12. CASE Stopped \/ UNCHANGED vars
  BY <1>12, FlowFrame DEF Stopped, vars, Line
<1> QED
  BY <1>1, <1>2, <1>3, <1>4, <1>5, <1>6, <1>7, <1>8, <1>9, <1>10, <1>11,
     <1>12 DEF Next

(* For any number of events and any interleaving of handlers, worker and   *)
(* stop: what reaches the store, in hand and on the queue is the accepted  *)
(* events in their order, each once, without those named as lost.          *)
THEOREM NothingOvertakesOrVanishes == Spec => []AcceptedInOrder
<1>1. Init => TypeInv /\ Flow
  BY TypeInit, FlowInit
<1>2. TypeInv /\ Flow /\ [Next]_vars => TypeInv' /\ Flow'
  BY TypeNext, FlowNext
<1>3. Flow => AcceptedInOrder
  BY DEF Flow
<1> QED
  BY <1>1, <1>2, <1>3, PTL DEF Spec
=============================================================================
