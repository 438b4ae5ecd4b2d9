---- MODULE InfraSocket ----
(***************************************************************************
 The infrastructure stream of the console: hooks/useInfrastructure.ts.  A page
 that uses the hook gets the overview by REST when it mounts and on demand, and
 keeps it live over a socket that is opened again after every loss.

 Refs and state belong to one mounted instance; in the development build the
 effect runs twice on one instance, as in ThreatSocket.  An overview is the
 number of the poll it was built from: a REST answer is built between the
 request and its arrival, a push when the server sends it, so that an answer may
 replace a newer push.

 Abstracted: the wording of the error; the keep-alive ping is the socket its
 interval writes to.  A failed connection fires error and close in one task.
 A 401 answer to REST leaves the page (module Console).
 ***************************************************************************)
EXTENDS BrowserSocket

CONSTANTS MaxRuns, MaxFaults, MaxAttempts,
          MaxGen,     \* overviews the server builds
          MaxAsks     \* REST requests in flight

VARIABLES build, isock,
          irun,       \* number of the last effect run
          imounted,   \* ~closedRef.current
          iref,       \* wsRef.current
          retry,      \* retryRef.current
          itimer,     \* pending reconnect timers
          ping,       \* the socket whose interval pingRef.current holds
          status,     \* the hook's status
          error,      \* error # null
          overview,   \* the overview in data, 0 for null
          gen,        \* the last overview the server built
          asked,      \* REST requests in flight, by gen when they were sent
          ifaults, ilate

ihook == <<imounted, iref, retry, itimer, ping, status, error, overview, asked>>
ivars == <<build, isock, irun, ihook, gen, ifaults, ilate>>

InFlight == {g \in 0..MaxGen : asked[g] > 0}
NoneAsked == [g \in 0..MaxGen |-> 0]

IInit ==
  /\ build \in {"production", "dev"}
  /\ isock = [s \in Slots |-> Free]
  /\ irun = 0 /\ imounted = FALSE /\ iref = NoSock /\ retry = 0
  /\ itimer = NoTimer /\ ping = NoSock
  /\ status = "connecting" /\ error = FALSE /\ overview = 0
  /\ gen = 1 /\ asked = NoneAsked /\ ifaults = 0 /\ ilate = FALSE

IInstanceMounted(s) == imounted /\ (build = "dev" \/ isock[s].run = irun)

\* refresh(): one more request; what is asked beyond MaxAsks is not modelled.
Ask(a, n) == IF a[gen] + n <= MaxAsks THEN [a EXCEPT ![gen] = @ + n] ELSE a

\* connect() always opens a new socket unless the cleanup has run.
IConnect(ws, r) ==
  /\ HasFree(ws)
  /\ iref' = FreeSlot(ws)
  /\ isock' = [ws EXCEPT ![FreeSlot(ws)] = New(r)]

\* The page mounts: a REST request and a socket for each run of the effect.
MountStream ==
  /\ ~imounted
  /\ IF build = "dev" THEN irun = 0 ELSE irun < MaxRuns
  /\ irun' = IF build = "dev" THEN 2 ELSE irun + 1
  /\ LET a == FreeSlot(isock)
         first == Closing([isock EXCEPT ![a] = New(1)], a)
     IN IConnect(IF build = "dev" THEN first ELSE isock, irun')
  /\ imounted' = TRUE /\ retry' = 0 /\ itimer' = NoTimer /\ ping' = NoSock
  /\ status' = "connecting" /\ error' = FALSE /\ overview' = 0
  /\ asked' = Ask(NoneAsked, IF build = "dev" THEN 2 ELSE 1)
  /\ UNCHANGED <<build, gen, ifaults, ilate>>

\* The page is left: the cleanup clears timer and ping and closes the socket;
\* answers that come later set the state of nothing.
UnmountStream ==
  /\ imounted
  /\ imounted' = FALSE
  /\ itimer' = ClearTimer(itimer)
  /\ ping' = NoSock
  /\ isock' = Closing(isock, iref)
  /\ UNCHANGED <<build, irun, iref, retry, status, error, overview, gen, asked, ifaults, ilate>>

\* onopen: this socket's interval replaces the one pingRef holds.  The server
\* sends the overview of its last poll first.
IOnOpen(s) ==
  /\ isock[s].state = "connecting"
  /\ isock' = [isock EXCEPT ![s] = Socket("open", @.run, <<gen>>)]
  /\ retry' = 0 /\ status' = "live" /\ ping' = s
  /\ UNCHANGED <<build, irun, imounted, iref, itimer, error, overview, gen, asked, ifaults, ilate>>

\* scheduleReconnect(): the REST poll goes on while the stream is down.
ScheduleReconnect ==
  /\ status' = "reconnecting"
  /\ retry' = IF retry < MaxAttempts THEN retry + 1 ELSE retry
  /\ asked' = Ask(asked, 1)
  /\ itimer' = SetTimer(itimer)

\* onclose, whichever run the socket is of: the ping that pingRef holds stops,
\* even when it is a newer socket's.
IOnClose(s, code) ==
  /\ isock' = Freed(isock, s)
  /\ IF build = "dev" \/ isock[s].run = irun
     THEN ping' = NoSock
     ELSE UNCHANGED ping
  /\ IF ~IInstanceMounted(s)
     THEN UNCHANGED <<status, error, retry, asked, itimer, ilate>>
     ELSE /\ ilate' = (ilate \/ isock[s].run # irun)
          /\ IF code = 4001
             THEN /\ status' = "offline" /\ error' = TRUE
                  /\ UNCHANGED <<retry, asked, itimer>>
             ELSE ScheduleReconnect /\ UNCHANGED error

\* The browser's code is 1006 for every close before the handshake is over
\* (ws_proxmox.py refuses before accepting).
IRefused(s, given) ==
  /\ isock[s].state = "connecting" /\ ifaults < MaxFaults
  /\ ifaults' = ifaults + 1
  /\ IOnClose(s, IF isock[s].state = "connecting" THEN 1006 ELSE given)
  /\ UNCHANGED <<build, irun, imounted, iref, overview, gen>>

ILost(s) ==
  /\ isock[s].state = "open" /\ ifaults < MaxFaults
  /\ ifaults' = ifaults + 1
  /\ IOnClose(s, 1006)
  /\ UNCHANGED <<build, irun, imounted, iref, overview, gen>>

ICloseDone(s) ==
  /\ isock[s].state = "closing"
  /\ IOnClose(s, 1000)
  /\ UNCHANGED <<build, irun, imounted, iref, overview, gen, ifaults>>

\* A timer fires; connect() returns at once when the cleanup has run.
IReconnect ==
  /\ itimer' \in Fired(itimer)
  /\ IF imounted THEN IConnect(isock, irun) ELSE UNCHANGED <<isock, iref>>
  /\ UNCHANGED <<build, irun, imounted, retry, ping, status, error, overview,
                 gen, asked, ifaults, ilate>>

\* The poll of the back end builds the next overview and pushes it; once the
\* bound is reached it pushes the same one again, as an idle cluster does.  Polls
\* while no page is mounted change nothing here; one push waits at most.
IPush ==
  /\ imounted
  /\ gen' = IF gen < MaxGen THEN gen + 1 ELSE gen
  /\ \A s \in Slots : isock[s].inbox = << >>
  /\ isock' = Sent(isock, gen')
  /\ UNCHANGED <<build, irun, ihook, ifaults, ilate>>

\* applyPayload() of a pushed overview.
IOnMessage(s) ==
  /\ isock[s].state = "open" /\ isock[s].inbox # << >>
  /\ isock' = Taken(isock, s)
  /\ IF imounted
     THEN overview' = Head(isock[s].inbox) /\ error' = FALSE
     ELSE UNCHANGED <<overview, error>>
  /\ UNCHANGED <<build, irun, imounted, iref, retry, itimer, ping, status, gen,
                 asked, ifaults, ilate>>

\* The answer to a request sent at overview g: built since, applied now.
RestAnswer(g) ==
  /\ asked[g] > 0 /\ imounted
  /\ asked' = [asked EXCEPT ![g] = @ - 1]
  /\ overview' \in g..gen /\ error' = FALSE
  /\ UNCHANGED <<build, isock, irun, imounted, iref, retry, itimer, ping, status,
                 gen, ifaults, ilate>>

\* An answer that is no success, or none: the error stands until the next payload.
RestFails(g) ==
  /\ asked[g] > 0 /\ imounted /\ ifaults < MaxFaults
  /\ asked' = [asked EXCEPT ![g] = @ - 1]
  /\ error' = TRUE /\ ifaults' = ifaults + 1
  /\ UNCHANGED <<build, isock, irun, imounted, iref, retry, itimer, ping, status,
                 overview, gen, ilate>>

INext ==
  \/ MountStream \/ UnmountStream \/ IReconnect \/ IPush
  \/ \E s \in Slots :
       \/ IOnOpen(s) \/ ILost(s) \/ ICloseDone(s) \/ IOnMessage(s)
       \/ \E given \in {1006, 4001, 4002} : IRefused(s, given)
  \/ \E g \in 0..MaxGen : RestAnswer(g) \/ RestFails(g)

\* Timers fire, handshakes and closes end, requests are answered, the poll runs.
IFairness ==
  /\ WF_ivars(IReconnect) /\ WF_ivars(IPush)
  /\ \A s \in Slots : /\ WF_ivars(IOnOpen(s)) /\ WF_ivars(ICloseDone(s))
                      /\ WF_ivars(IOnMessage(s))
  /\ \A g \in 0..MaxGen : WF_ivars(RestAnswer(g))

ISpec == IInit /\ [][INext]_ivars /\ IFairness

ITypeOK ==
  /\ build \in {"production", "dev"}
  /\ isock \in SocketsOver(1..MaxGen, 0..MaxRuns)
  /\ irun \in 0..MaxRuns /\ ifaults \in 0..MaxFaults /\ retry \in 0..MaxAttempts
  /\ {imounted, error, ilate} \subseteq BOOLEAN
  /\ {iref, ping} \subseteq Slots \cup {NoSock}
  /\ itimer \in [held : BOOLEAN, loose : Nat]
  /\ status \in {"connecting", "live", "reconnecting", "offline"}
  /\ overview \in 0..MaxGen /\ gen \in 1..MaxGen
  /\ asked \in [0..MaxGen -> Nat]

\* One live socket while the page is there and none after it, unless a close
\* event of an earlier effect run met the refs of a later one (dev build only).
ISoleSocket ==
  /\ ilate => build = "dev"
  /\ ~ilate => Cardinality(Live(isock)) <= IF imounted THEN 1 ELSE 0

\* The status reads "live" exactly while the page's socket is open, and then the
\* keep-alive interval is that socket's.
StreamAgrees ==
  ~ilate /\ imounted =>
    /\ status = "live" <=> \E s \in Slots : isock[s].state = "open"
    /\ status = "live" => isock[ping].state = "open"

\* A page that stays ends up live on the newest overview with no error standing:
\* an answer that overtook a push is corrected by the next push.
IRecovers == <>[]imounted => <>[](status = "live" /\ overview = gen /\ ~error)
====
