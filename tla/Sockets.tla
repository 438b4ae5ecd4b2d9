---- MODULE Sockets ----
(***************************************************************************
 The two reconnecting sockets of the console.  They share nothing, so a
 behaviour is one of the threat-map hook or one of the infrastructure hook,
 chosen at the start; the idle one stays in its initial state.
 ***************************************************************************)
EXTENDS BrowserSocket

CONSTANTS MaxRuns, MaxFaults, MaxMsgs, MaxAttempts, BufferCap, FlushBatch,
          StoreCap, NoteCap, MaxGen, MaxAsks

VARIABLES hook, build,
          sock, run, mounted, current, attempts, timer, connected, opened,
          buffer, events, notes, sent, faults, late,
          isock, irun, imounted, iref, retry, itimer, ping, status, error,
          overview, gen, asked, ifaults, ilate

T == INSTANCE ThreatSocket
I == INSTANCE InfraSocket

\* The development build runs the effect of a mounted instance twice.
ASSUME BoundsAssumption ==
  /\ MaxRuns \in Nat \ {0, 1} /\ MaxGen \in Nat \ {0}
  /\ {MaxFaults, MaxMsgs, MaxAttempts, MaxAsks} \subseteq Nat
  /\ {BufferCap, FlushBatch, StoreCap, NoteCap} \subseteq Nat

threatVars == <<sock, run, mounted, current, attempts, timer, opened, connected,
                buffer, events, notes, sent, faults, late>>
infraVars == <<isock, irun, imounted, iref, retry, itimer, ping, status, error,
               overview, asked, gen, ifaults, ilate>>
vars == <<hook, build, threatVars, infraVars>>

Init == hook \in {"threat-map", "infrastructure"} /\ T!TInit /\ I!IInit

Next ==
  /\ UNCHANGED hook
  /\ \/ hook = "threat-map" /\ T!TNext /\ UNCHANGED infraVars
     \/ hook = "infrastructure" /\ I!INext /\ UNCHANGED threatVars

\* The fair actions of the idle hook are never enabled.
Spec == Init /\ [][Next]_vars /\ T!TFairness /\ I!IFairness

TypeOK == hook \in {"threat-map", "infrastructure"} /\ T!TTypeOK /\ I!ITypeOK

\* Each hook keeps at most one live socket, and none when its component is gone,
\* unless the close event of an earlier effect run came late (development build).
SoleSocket == T!TSoleSocket /\ I!ISoleSocket

\* What the console says of its connection is the state of the socket it holds.
StatusAgrees == T!TBadgeAgrees /\ I!StreamAgrees

\* No broadcast of the back end is shown twice, unless the close event of an earlier
\* effect run came late, which may leave two sockets open; and the refs, stores and
\* counters of both hooks stay within their types and the stores within their caps (the
\* buffer has one at each flush only).
ShownOnce == TypeOK /\ T!ShownOnce

\* A component that stays mounted gets over every refusal and loss, and the
\* infrastructure page ends on the newest overview.
Recovers == T!TRecovers /\ I!IRecovers
====
