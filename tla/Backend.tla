---- MODULE Backend ----
(***************************************************************************
 The parts of the back end whose functions run on several threads: plain
 endpoints on the thread pool of FastAPI, asyncio.to_thread, executors.  They
 share no state with each other, so a behaviour is one of one part, chosen at the
 start; the others stay in their initial states.
 ***************************************************************************)
EXTENDS Integers, Sequences, FiniteSets

CONSTANTS Requests, Deciders,
          Handlers, Payloads, Warnings, Cooldown, MaxTime,
          Callers, Clients, NoClient, RetryAfter, MaxSeconds, MaxOverlaps,
          Overviews, Ttl, Soon, TooLong, Backoff, MaxTick, MaxTraffic, MaxBoots

VARIABLES part,
          status, deciding, audit, unaudited, raced,
          clock, source, debounce, incidents, raisedAt, hasty, unacked, raising,
          racedTitles, racedKeys,
          second, registered, errorAt, open, calls, overlaps, shared, innocent,
          tick, guest, cached, failUntil, thread, entry, base, reported, pauseEnd, early,
          back, loadsCrossed, blank, ratesCrossed

A == INSTANCE Approvals
H == INSTANCE HardwareAlerts
K == INSTANCE DockerHosts
R == INSTANCE InfraReadings

ASSUME BackendAssumption ==
  /\ NoClient \notin Clients /\ MaxSeconds \in Nat /\ MaxOverlaps \in Nat
  /\ IsFiniteSet(Handlers) /\ Cooldown \in Nat /\ MaxTime \in Nat
  /\ Payloads \cup Warnings \subseteq Seq(H!Alerts) \ {<< >>}
  /\ Soon \in Nat \ {0} /\ \A kind \in DOMAIN Backoff : Backoff[kind] \in Nat
  /\ MaxTick \in Nat /\ MaxTraffic \in Nat /\ MaxBoots \in Nat \ {0}

avars == <<status, deciding, audit, unaudited, raced>>
hvars == <<clock, source, debounce, incidents, raisedAt, hasty, unacked, raising,
          racedTitles, racedKeys>>
dvars == <<second, registered, errorAt, open, calls, overlaps, shared, innocent>>
rvars == <<tick, guest, cached, failUntil, thread, entry, base, reported, pauseEnd, early,
           back, loadsCrossed, blank, ratesCrossed>>
vars == <<part, avars, hvars, dvars, rvars>>

Init ==
  /\ part \in {"approvals", "alerts", "docker", "readings"}
  /\ A!AInit /\ H!HInit /\ K!KInit /\ R!RInit

Next ==
  /\ UNCHANGED part
  /\ \/ part = "approvals" /\ A!ANext /\ UNCHANGED <<hvars, dvars, rvars>>
     \/ part = "alerts" /\ H!HNext /\ UNCHANGED <<avars, dvars, rvars>>
     \/ part = "docker" /\ K!KNext /\ UNCHANGED <<avars, hvars, rvars>>
     \/ part = "readings" /\ R!RNext /\ UNCHANGED <<avars, hvars, dvars>>

Spec == Init /\ [][Next]_vars

----------------------------------------------------------------------------
\* A request is decided once, and the audit trail tells the outcome; see
\* DecidedOnce, TrailFits and VerdictGiven of Approvals for what a race may do.
DecisionsFit == A!DecisionsFit

\* One title brings one incident and one key one incident per cooldown, unless
\* handlers race or MongoDB applies an insert that raises, and no key is silenced
\* without an incident: see HardwareAlerts.
AlertsFit == H!AlertsFit

\* A marked Docker host has no client, a registered client is open, and clients leak
\* only from overlapping dials: see DockerHosts.
ClientsFit == K!ClientsFit

\* The cache keeps the pause after a failure and never gets older, and the rates
\* account for all traffic, unless overviews cross: see InfraReadings.
ReadingsFit == R!ReadingsFit
====
