---- MODULE InfraReadings ----
(***************************************************************************
 From a counter of Proxmox to a rate on the infrastructure page: the cached read
 of services/proxmox.py under build_overview of core/infra_overview.py, run by
 the poll job and by the REST endpoint, each on a thread of its own.

 _cached reads the clock, then the backoff, then the cache, and may then load for
 long; the backoff of a failure counts from the start of the load.  _rates keeps
 one entry per guest: it is replaced under the lock by one whose rates are zero
 (not done), and, after the computation, again by one with the rates.

 One key of the cache (cluster:resources) and one counter of one guest, each read
 carrying the number of the guest's boot; of a rate, the traffic it reports.
 Without that read build_overview asks each node for its guests, past the cache.
 The other reads of build_overview change nothing here.
 ***************************************************************************)
EXTENDS Integers

CONSTANTS Overviews,    \* threads in build_overview at once
          Ttl,          \* 3 seconds in the code
          Soon,         \* 2 seconds in the code
          TooLong,      \* 600 seconds in the code
          Backoff,      \* [failed |-> 30, denied |-> 600] in the code
          MaxTick,      \* bound on the clock
          MaxTraffic,   \* bound on the counter
          MaxBoots

VARIABLES tick,         \* the clock
          guest,        \* the counter and boot of the guest
          cached,       \* _cache: value and time, or Nothing
          failUntil,    \* _fail_until, 0 if absent
          thread,       \* what each thread does
          entry,        \* _rate_state: time, sample, rates done, or Nothing
          base,         \* the sample from which every byte was reported
          reported,     \* bytes in the rates computed since then
          pauseEnd,     \* the longest pause the failures since a success ask for
          early,        \* a load began before that pause ended, no loads having crossed
          back,         \* the cache went back to an older sample, likewise
          loadsCrossed, \* two loads at once
          blank,        \* zeros of an entry not done were shown, no threads having crossed
          ratesCrossed  \* two threads in _rates at once, or an older sample after a newer

world == <<tick, guest>>
cacheVars == <<cached, failUntil, pauseEnd, early, back, loadsCrossed>>
rateVars == <<entry, base, reported, blank, ratesCrossed>>

Nothing == [at |-> -1]
Out == [step |-> "out"]

RInit ==
  /\ tick = 0 /\ guest = [count |-> 0, boot |-> 1]
  /\ cached = Nothing /\ failUntil = 0 /\ entry = Nothing
  /\ thread = [t \in Overviews |-> Out]
  /\ base = [count |-> 0, boot |-> 1] /\ reported = 0
  /\ pauseEnd = 0 /\ blank = FALSE
  /\ early = FALSE /\ back = FALSE /\ loadsCrossed = FALSE /\ ratesCrossed = FALSE

Older(s, t) == s.boot < t.boot \/ (s.boot = t.boot /\ s.count < t.count)
Others(t, steps) == \E u \in Overviews \ {t} : thread[u].step \in steps
Set(t, r) == thread' = [thread EXCEPT ![t] = r]

\* build_overview without the read: the guests of each node, or none.
AskNodes(t) == Set(t, Out) \/ Set(t, [step |-> "rates", sample |-> guest])

\* _cached: the clock first, then the backoff, then the cache, then a load.
ReadCache(t) ==
  /\ thread[t] = Out
  /\ CASE failUntil > tick -> AskNodes(t) /\ UNCHANGED <<early, loadsCrossed>>
       [] failUntil <= tick /\ cached # Nothing /\ tick - cached.at <= Ttl ->
            /\ Set(t, [step |-> "rates", sample |-> cached.sample])
            /\ UNCHANGED <<early, loadsCrossed>>
       [] OTHER ->
            /\ Set(t, [step |-> "load", start |-> tick])
            /\ loadsCrossed' = (loadsCrossed \/ Others(t, {"load", "loaded"}))
            /\ early' = (early \/ (~loadsCrossed' /\ tick < pauseEnd))
  /\ UNCHANGED <<world, rateVars, cached, failUntil, pauseEnd, back>>

\* Proxmox answers; the answer is on its way.
Load(t) ==
  /\ thread[t].step = "load"
  /\ Set(t, [step |-> "loaded", sample |-> guest])
  /\ UNCHANGED <<world, cacheVars, rateVars>>

\* The rest of _cached after a load: no backoff, a new value in the cache.
Store(t) ==
  /\ thread[t].step = "loaded"
  /\ failUntil' = 0 /\ pauseEnd' = 0
  /\ cached' = [at |-> tick, sample |-> thread[t].sample]
  /\ back' = (back \/ (~loadsCrossed /\ cached # Nothing /\ Older(thread[t].sample, cached.sample)))
  /\ Set(t, [step |-> "rates", sample |-> thread[t].sample])
  /\ UNCHANGED <<world, rateVars, early, loadsCrossed>>

\* What the pauses of all failures ask for (the code keeps the last one only).
Failed(t, kind) ==
  LET until == thread[t].start + Backoff[kind] IN
  pauseEnd' = IF pauseEnd > until THEN pauseEnd ELSE until

FailsNoPause(t, kind) ==
  /\ thread[t].step = "load"
  /\ Failed(t, kind)
  /\ AskNodes(t)
  /\ UNCHANGED <<world, rateVars, cached, failUntil, early, back, loadsCrossed>>

\* It fails, or is denied for lack of rights: the pause counts from the start.
Fails(t, kind) ==
  /\ thread[t].step = "load"
  /\ failUntil' = thread[t].start + Backoff[kind]
  /\ Failed(t, kind)
  /\ AskNodes(t)
  /\ UNCHANGED <<world, rateVars, cached, early, back, loadsCrossed>>

Restarted(s) == base' = s /\ reported' = 0

\* _rates, the first section: soon after the last, its rates are returned again;
\* otherwise the entry gets the new sample and, for now, rates of zero.
EnterRates(t) ==
  /\ thread[t].step = "rates"
  /\ LET s == thread[t].sample
         prev == entry
         soon == prev # Nothing /\ tick - prev.at < Soon
     IN /\ ratesCrossed' = (ratesCrossed \/ Others(t, {"compute"})
                               \/ (~soon /\ prev # Nothing /\ Older(s, prev.sample)))
        /\ blank' = (blank \/ (~ratesCrossed' /\ soon /\ ~prev.done))
        /\ CASE soon -> Set(t, Out) /\ UNCHANGED <<entry, base, reported>>
             [] ~soon /\ (prev = Nothing \/ tick - prev.at > TooLong) ->
                  /\ entry' = [at |-> tick, sample |-> s, done |-> TRUE]
                  /\ Set(t, Out) /\ Restarted(s)
             [] OTHER ->
                  /\ entry' = [at |-> tick, sample |-> s, done |-> FALSE]
                  /\ Set(t, [step |-> "compute", sample |-> s, now |-> tick, from |-> prev.sample])
                  /\ UNCHANGED <<base, reported>>
  /\ UNCHANGED <<world, cacheVars>>

\* The computation and the second section: the entry is replaced again, whatever
\* is there by now.  A counter that went back keeps its rate of zero.
WriteRates(t) ==
  /\ thread[t].step = "compute"
  /\ LET s == thread[t].sample
         delta == s.count - thread[t].from.count
     IN /\ entry' = [at |-> thread[t].now, sample |-> s, done |-> TRUE]
        /\ IF s.boot # thread[t].from.boot
           THEN Restarted(s)
           ELSE reported' = reported + (IF delta < 0 THEN 0 ELSE delta) /\ UNCHANGED base
  /\ Set(t, Out)
  /\ UNCHANGED <<world, cacheVars, blank, ratesCrossed>>

\* The guest reads or writes, or boots and counts from zero.
Traffic ==
  /\ guest.count < MaxTraffic
  /\ guest' = [guest EXCEPT !.count = @ + 1]
  /\ UNCHANGED <<cacheVars, rateVars, tick, thread>>

Reboot ==
  /\ guest.boot < MaxBoots
  /\ guest' = [count |-> 0, boot |-> guest.boot + 1]
  /\ UNCHANGED <<cacheVars, rateVars, tick, thread>>

SecondPasses ==
  /\ tick < MaxTick /\ tick' = tick + 1
  /\ UNCHANGED <<cacheVars, rateVars, guest, thread>>

RNext ==
  \/ \E t \in Overviews :
       \/ ReadCache(t) \/ Load(t) \/ Store(t) \/ EnterRates(t) \/ WriteRates(t)
       \/ \E kind \in DOMAIN Backoff : Fails(t, kind)
  \/ Traffic \/ Reboot \/ SecondPasses

----------------------------------------------------------------------------
Sample == [count : 0..MaxTraffic, boot : 1..MaxBoots]

RTypeOK ==
  /\ tick \in 0..MaxTick /\ failUntil \in Nat /\ guest \in Sample
  /\ cached = Nothing \/ cached \in [at : 0..MaxTick, sample : Sample]
  /\ entry = Nothing \/ entry.sample \in Sample
  /\ \A t \in Overviews :
       thread[t].step \in {"out", "load", "loaded", "rates", "compute"}

\* Unless two loads were under way at once, Proxmox has its pause after a failure
\* and what the cache holds never gets older.
CacheFits == ~early /\ ~back

\* Nobody is shown the zeros of an entry that is being computed, unless two threads
\* were in _rates at once.
NoBlankRates == ~blank

\* Rates leave nothing out and count nothing twice: the traffic in the rates since
\* the last gap or boot is that between the samples, unless two computations ran at
\* once or an older sample came after a newer one.
TrafficConserved ==
  ~ratesCrossed /\ entry # Nothing /\ (\A t \in Overviews : thread[t].step # "compute") =>
    /\ entry.sample.boot = base.boot
    /\ reported = entry.sample.count - base.count

ReadingsFit == RTypeOK /\ CacheFits /\ NoBlankRates /\ TrafficConserved
====
