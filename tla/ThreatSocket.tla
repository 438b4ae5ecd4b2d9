---- MODULE ThreatSocket ----
(***************************************************************************
 The threat-map socket of the console: hooks/useWebSocket.ts, the slices of
 store/useStore.ts it writes, and the Layout that mounts it.

 The hook lives while Layout is mounted, that is from a login to the next
 logout.  Its refs (ws.current, isComponentMounted, reconnectAttempts,
 reconnectTimeout, eventBuffer) belong to one mounted instance.  In the
 production build an instance runs its effect once.  In the development build
 main.tsx wraps the app in StrictMode, so React runs the effect, its cleanup
 and the effect again on one instance: a socket of the first run outlives its
 cleanup by one close event, and the refs it will read are those of the second.

 Abstracted: an event is its number; the two event formats (pipeline and the
 legacy threat_alert) both end in the buffer and are one kind.  The keep-alive
 ping changes no state.  Layout is mounted only with a token (ProtectedRoute),
 so the branch without url is not taken.
 ***************************************************************************)
EXTENDS BrowserSocket

CONSTANTS MaxRuns,      \* effect runs
          MaxFaults,    \* refusals and lost connections
          MaxMsgs,      \* messages the server broadcasts
          MaxAttempts,  \* cap of the counter behind the backoff
          BufferCap,    \* 100 in the code
          FlushBatch,   \* 10 in the code
          StoreCap,     \* 150 in the code
          NoteCap       \* 50 in the code

VARIABLES build,      \* "production" or "dev", fixed at the start
          sock,       \* the browser's sockets
          run,        \* number of the last effect run
          mounted,    \* isComponentMounted.current
          current,    \* ws.current
          attempts,   \* reconnectAttempts.current
          timer,      \* pending reconnect timers
          connected,  \* wsConnected of the store
          opened,     \* the mounted instance has seen onopen
          buffer,     \* eventBuffer.current
          events,     \* threatEvents of the store
          notes,      \* notifications of the store
          sent,       \* number of messages broadcast so far
          faults,     \* refusals and losses so far
          late        \* a close event met the refs of a later effect run

refs == <<mounted, current, attempts, timer, opened>>
shown == <<buffer, events, notes, sent>>
tvars == <<build, sock, run, refs, connected, shown, faults, late>>

Newest(s, n) == SubSeq(s, 1, IF Len(s) < n THEN Len(s) ELSE n)
Last(s, n) == IF Len(s) > n THEN SubSeq(s, Len(s) - n + 1, Len(s)) ELSE s

\* Messages: what the event carries does not matter here, its kind does.
Messages == [id : 1..MaxMsgs, kind : {"event", "notification"}]

TInit ==
  /\ build \in {"production", "dev"}
  /\ sock = [s \in Slots |-> Free]
  /\ run = 0 /\ mounted = FALSE /\ current = NoSock /\ attempts = 0
  /\ timer = NoTimer /\ connected = FALSE /\ opened = FALSE
  /\ buffer = << >> /\ events = << >> /\ notes = << >> /\ sent = 0
  /\ faults = 0 /\ late = FALSE

\* The refs a handler of socket s reads belong to the mounted instance.
InstanceMounted(s) == mounted /\ (build = "dev" \/ sock[s].run = run)

\* connect(): nothing if the current socket is live, else a new socket.
Connect(ws, r) ==
  IF current # NoSock /\ current \in Live(ws)
  THEN sock' = ws /\ UNCHANGED current
  ELSE /\ HasFree(ws)
       /\ current' = FreeSlot(ws)
       /\ sock' = [ws EXCEPT ![FreeSlot(ws)] = New(r)]

\* A login mounts Layout.  In dev the first run's socket is created and closed
\* before the second run creates its own.  Dev is explored for one instance.
MountHook ==
  /\ ~mounted
  /\ IF build = "dev" THEN run = 0 ELSE run < MaxRuns
  /\ run' = IF build = "dev" THEN 2 ELSE run + 1
  /\ LET a == FreeSlot(sock)
         first == Closing([sock EXCEPT ![a] = New(1)], a)
         ws == IF build = "dev" THEN first ELSE sock
     IN Connect(ws, run')
  /\ mounted' = TRUE /\ opened' = FALSE
  /\ attempts' = 0 /\ timer' = NoTimer /\ buffer' = << >>
  /\ UNCHANGED <<build, connected, events, notes, sent, faults, late>>

\* A logout unmounts it: the cleanup clears the held timer and closes the
\* current socket; wsConnected keeps its value.
UnmountHookNoClear ==
  /\ mounted
  /\ mounted' = FALSE
  /\ sock' = Closing(sock, current)
  /\ current' = NoSock
  /\ UNCHANGED <<build, run, attempts, opened, connected, shown, timer, faults, late>>

UnmountHook ==
  /\ mounted
  /\ mounted' = FALSE
  /\ timer' = ClearTimer(timer)
  /\ sock' = Closing(sock, current)
  /\ current' = NoSock
  /\ UNCHANGED <<build, run, attempts, opened, connected, shown, faults, late>>

\* The handshake succeeds: onopen.
OnOpen(s) ==
  /\ sock[s].state = "connecting"
  /\ IF InstanceMounted(s)
     THEN /\ sock' = Opened(sock, s)
          /\ connected' = TRUE /\ attempts' = 0 /\ opened' = TRUE
     ELSE /\ sock' = Closing(sock, s)
          /\ UNCHANGED <<connected, attempts, opened>>
  /\ UNCHANGED <<build, run, mounted, current, timer, shown, faults, late>>

\* The code the browser reports: a close before the handshake is over is 1006,
\* whatever code the server gave (main.py closes before accepting, so that its 4001
\* and 4002 never get here).
CloseCode(state, given) == IF state = "connecting" THEN 1006 ELSE given

StopsOnAnyFailure(code) == code \in {1006, 4001, 4002}

\* The codes after which the hook does not reconnect.
StopsRetrying(code) == code \in {4001, 4002}

\* onclose: the shared refs are reset whichever socket it is that closed.
OnClose(s, code) ==
  /\ sock' = Freed(sock, s)
  /\ IF ~InstanceMounted(s)
     THEN UNCHANGED <<connected, current, attempts, timer, late>>
     ELSE /\ connected' = FALSE
          /\ current' = NoSock
          /\ late' = (late \/ sock[s].run # run)
          /\ IF StopsRetrying(code)
             THEN UNCHANGED <<attempts, timer>>
             ELSE /\ attempts' = IF attempts < MaxAttempts THEN attempts + 1 ELSE attempts
                  /\ timer' = SetTimer(timer)

\* The server refuses the handshake (token or connection limit), or it fails.
Refused(s, given) ==
  /\ sock[s].state = "connecting" /\ faults < MaxFaults
  /\ faults' = faults + 1
  /\ OnClose(s, CloseCode(sock[s].state, given))
  /\ UNCHANGED <<build, run, mounted, opened, shown>>

LostUnnoticed(s) ==
  /\ sock[s].state = "open" /\ faults < MaxFaults
  /\ faults' = faults + 1
  /\ sock' = Freed(sock, s)
  /\ UNCHANGED <<build, run, refs, connected, shown, late>>

\* An open connection is lost, or the server goes away.
Lost(s) ==
  /\ sock[s].state = "open" /\ faults < MaxFaults
  /\ faults' = faults + 1
  /\ OnClose(s, CloseCode(sock[s].state, 1006))
  /\ UNCHANGED <<build, run, mounted, opened, shown>>

\* The close event of a socket the page closed.
CloseDone(s) ==
  /\ sock[s].state = "closing"
  /\ OnClose(s, CloseCode(sock[s].state, 1000))
  /\ UNCHANGED <<build, run, mounted, opened, shown, faults>>

\* A reconnect timer fires; connect() does not look at isComponentMounted.
Reconnect ==
  /\ timer' \in Fired(timer)
  /\ Connect(sock, run)
  /\ UNCHANGED <<build, run, mounted, attempts, opened, connected, shown, faults, late>>

\* The back end broadcasts one message to the sockets it has accepted.
Broadcast(kind) ==
  /\ sent < MaxMsgs
  /\ \E s \in Slots : sock[s].state = "open"
  /\ sent' = sent + 1
  /\ sock' = Sent(sock, [id |-> sent + 1, kind |-> kind])
  /\ UNCHANGED <<build, run, refs, connected, buffer, events, notes, faults, late>>

\* onmessage: a notification goes to the store at once, an event to the buffer.
OnMessage(s) ==
  /\ sock[s].state = "open" /\ sock[s].inbox # << >>
  /\ LET m == Head(sock[s].inbox) IN
       IF m.kind = "notification"
       THEN notes' = Newest(<<m.id>> \o notes, NoteCap) /\ UNCHANGED buffer
       ELSE buffer' = Append(buffer, m.id) /\ UNCHANGED notes
  /\ sock' = Taken(sock, s)
  /\ UNCHANGED <<build, run, refs, connected, events, sent, faults, late>>

FlushKeeps ==
  /\ mounted /\ buffer # << >>
  /\ LET kept == Last(buffer, BufferCap)
         batch == Newest(kept, FlushBatch)
     IN /\ buffer' = IF Len(kept) > FlushBatch THEN SubSeq(kept, FlushBatch, Len(kept)) ELSE << >>
        /\ events' = Newest(batch \o events, StoreCap)
  /\ UNCHANGED <<build, sock, run, refs, connected, notes, sent, faults, late>>

\* The 100 ms flush: cap the backlog, move one batch to the front of the store.
Flush ==
  /\ mounted /\ buffer # << >>
  /\ LET kept == Last(buffer, BufferCap)
         batch == Newest(kept, FlushBatch)
     IN /\ buffer' = SubSeq(kept, Len(batch) + 1, Len(kept))
        /\ events' = Newest(batch \o events, StoreCap)
  /\ UNCHANGED <<build, sock, run, refs, connected, notes, sent, faults, late>>

TNext ==
  \/ MountHook \/ UnmountHook \/ Reconnect \/ Flush
  \/ \E s \in Slots :
       \/ OnOpen(s) \/ Lost(s) \/ CloseDone(s) \/ OnMessage(s)
       \/ \E given \in {1006, 4001, 4002} : Refused(s, given)
  \/ \E kind \in {"event", "notification"} : Broadcast(kind)

\* Timers fire, handshakes end and close events come.
TFairness ==
  /\ WF_tvars(Reconnect)
  /\ \A s \in Slots : WF_tvars(OnOpen(s)) /\ WF_tvars(CloseDone(s))

TSpec == TInit /\ [][TNext]_tvars /\ TFairness

TTypeOK ==
  /\ build \in {"production", "dev"}
  /\ sock \in SocketsOver(Messages, 0..MaxRuns)
  /\ run \in 0..MaxRuns /\ sent \in 0..MaxMsgs /\ faults \in 0..MaxFaults
  /\ {mounted, connected, opened, late} \subseteq BOOLEAN
  /\ current \in Slots \cup {NoSock}
  /\ attempts \in 0..MaxAttempts
  /\ timer \in [held : BOOLEAN, loose : Nat]
  /\ {buffer, events, notes} \subseteq Seq(1..MaxMsgs)
  /\ Len(events) <= StoreCap /\ Len(notes) <= NoteCap

\* The console holds at most one live socket, and none once Layout is gone,
\* unless a close event of an earlier effect run met the refs of a later one;
\* and that happens in the development build only.
TSoleSocket ==
  /\ late => build = "dev"
  /\ ~late => Cardinality(Live(sock)) <= IF mounted THEN 1 ELSE 0

\* Once the mounted instance has opened a socket, the SYSTEM ONLINE badge is on
\* exactly while it has an open one (before that it may show the state the last
\* session left behind).
TBadgeAgrees ==
  ~late /\ mounted /\ opened => (connected <=> \E s \in Slots : sock[s].state = "open")

NoRepeats(q) == Cardinality({q[i] : i \in DOMAIN q}) = Len(q)

\* Unless a close event came late, no broadcast is shown twice: the page has one
\* socket, and a flush takes out of the buffer what it gives to the store.  The buffer
\* is cut to BufferCap when it is flushed; between flushes it may be longer.
ShownOnce == ~late => NoRepeats(buffer \o events) /\ NoRepeats(notes)

\* While Layout stays mounted, the finitely many refusals and losses are got over.
TRecovers == <>[]mounted => <>[]connected
====
