---- MODULE Sockets_proofs ----
(***************************************************************************
 Proofs about the two reconnecting sockets of the console, for any number of
 slots, effect runs, faults and messages: each hook keeps one live socket at most,
 what the console says of its connections is what they are, and no broadcast is
 shown twice.

 Close events come late and timers fire when they like, so the invariant has to
 say what they find.  Until a close event of an earlier effect run has met the
 refs of a later one, the only live socket is the one the ref holds; while it is
 there no reconnect timer is pending; and no other socket is of the latest run,
 so that only the live socket's own close event resets the refs.  The state the
 console shows follows the live socket; and the broadcasts that wait, are buffered
 and are shown stand in the order of their numbers.
 ***************************************************************************)
EXTENDS Sockets, TLAPS, FiniteSetTheorems, SequenceTheorems

States == {"free", "connecting", "open", "closing"}
LiveStates == {"connecting", "open"}

\* What the proofs need of the sockets of a hook: nothing about messages.
Pool(ws) ==
  /\ ws = [s \in Slots |-> ws[s]]
  /\ \A s \in Slots : ws[s].state \in States /\ ws[s].run \in Nat

Timers == [held : BOOLEAN, loose : Nat]

----------------------------------------------------------------------------
(***************************************************************************
 The threat-map hook.
 ***************************************************************************)
TTypes ==
  /\ Pool(sock) /\ run \in Nat /\ timer \in Timers /\ mounted \in BOOLEAN
  /\ late \in BOOLEAN /\ current \in Slots \cup {NoSock}
  /\ build \in {"production", "dev"}

TRuns ==
  /\ \A s \in Slots : sock[s].run <= run
  /\ mounted => run # 0
  /\ late => build = "dev"

TOrder ==
  /\ build = "dev" /\ run = 0 => \A s \in Slots : sock[s].state = "free"
  /\ \A s \in Slots : sock[s].state \in LiveStates =>
       mounted /\ s = current /\ sock[s].run = run
  /\ current # NoSock =>
       mounted /\ sock[current].state \in LiveStates /\ ~timer.held
  /\ timer.loose = 0
  /\ ~mounted => ~timer.held
  /\ \A s \in Slots :
       mounted /\ sock[s].state # "free" /\ sock[s].run = run => s = current

TInv == TTypes /\ TRuns /\ (~late => TOrder)

LEMMA TInitInv == T!TInit => TInv
<1> SUFFICES ASSUME T!TInit PROVE TInv
  OBVIOUS
<1>1. /\ \A s \in Slots : sock[s].state = "free" /\ sock[s].run = 0
      /\ sock = [s \in Slots |-> sock[s]]
  BY DEF T!TInit, T!Free, T!Socket
<1>2. /\ run = 0 /\ mounted = FALSE /\ current = NoSock /\ late = FALSE
      /\ timer.held = FALSE /\ timer.loose = 0 /\ timer \in Timers
      /\ build \in {"production", "dev"}
  BY DEF T!TInit, T!NoTimer, Timers
<1>3. TTypes
  <2>1. Pool(sock)
    BY <1>1 DEF Pool, States
  <2> QED
    BY <1>2, <2>1 DEF TTypes
<1>4. TRuns /\ TOrder
  BY <1>1, <1>2 DEF TRuns, TOrder, LiveStates
<1> QED
  BY <1>3, <1>4 DEF TInv

\* The slot a new socket is given, and the pool with the socket in it.
LEMMA SlotFound == ASSUME NEW ws, T!HasFree(ws)
                   PROVE T!FreeSlot(ws) \in Slots /\ ws[T!FreeSlot(ws)].state = "free"
  BY DEF T!HasFree, T!FreeSlot

With(ws, a, r) == [ws EXCEPT ![a] = T!New(r)]

LEMMA Fresh ==
  ASSUME NEW ws, NEW a \in Slots, NEW r \in Nat, Pool(ws)
  PROVE  /\ Pool(With(ws, a, r))
         /\ With(ws, a, r)[a].state = "connecting" /\ With(ws, a, r)[a].run = r
         /\ \A t \in Slots \ {a} : With(ws, a, r)[t] = ws[t]
<1>1. T!New(r).state = "connecting" /\ T!New(r).run = r
  BY DEF T!New, T!Socket
<1> QED
  BY <1>1 DEF Pool, States, With

\* close() called on the socket of slot s, which may be none.
LEMMA Closed ==
  ASSUME NEW ws, NEW s, Pool(ws)
  PROVE  /\ Pool(T!Closing(ws, s))
         /\ \A t \in Slots : /\ T!Closing(ws, s)[t].run = ws[t].run
                             /\ T!Closing(ws, s)[t].state =
                                  IF t = s /\ ws[t].state # "free" THEN "closing"
                                  ELSE ws[t].state
<1>1. \A t \in Slots :
        T!Closing(ws, s)[t] = IF t = s /\ ws[t].state # "free"
                              THEN T!Socket("closing", ws[t].run, << >>) ELSE ws[t]
  BY DEF T!Closing
<1>2. \A r : T!Socket("closing", r, << >>).state = "closing" /\ T!Socket("closing", r, << >>).run = r
  BY DEF T!Socket
<1>3. T!Closing(ws, s) = [t \in Slots |-> T!Closing(ws, s)[t]]
  BY DEF T!Closing
<1> QED
  BY <1>1, <1>2, <1>3 DEF Pool, States

LEMMA TMount == ASSUME TInv, T!MountHook PROVE TInv'
<1> USE DEF TInv
<1>1. /\ mounted = FALSE /\ mounted' = TRUE /\ timer' = T!NoTimer
      /\ UNCHANGED <<build, late>>
      /\ run' = IF build = "dev" THEN 2 ELSE run + 1
      /\ build = "dev" => run = 0
  BY DEF T!MountHook, TTypes
<1>2. timer' \in Timers /\ timer'.held = FALSE /\ timer'.loose = 0
  BY <1>1 DEF T!NoTimer, Timers
<1>3. PICK ws : /\ T!Connect(ws, run')
                /\ Pool(ws)
                /\ \A t \in Slots : ws[t].run < run'
                /\ ~late => \A t \in Slots : ws[t].state \notin LiveStates
  <2>1. CASE build # "dev"
    <3>1. T!Connect(sock, run') /\ run' = run + 1
      BY <1>1, <2>1 DEF T!MountHook
    <3> QED
      BY <1>1, <3>1 DEF TTypes, TRuns, TOrder, Pool
  <2>2. CASE build = "dev"
    <3> DEFINE a == T!FreeSlot(sock)
               one == [sock EXCEPT ![a] = T!New(1)]
    <3>1. T!Connect(T!Closing(one, a), run') /\ run' = 2 /\ run = 0
      BY <1>1, <2>2 DEF T!MountHook
    <3>2. Pool(one) /\ \A t \in Slots : one[t].run < 2 /\ (t # a => one[t] = sock[t])
      <4>1. T!New(1).state = "connecting" /\ T!New(1).run = 1
        BY DEF T!New, T!Socket
      <4> QED
        BY <3>1, <4>1 DEF TTypes, TRuns, Pool, States
    <3> HIDE DEF one, a
    <3>3. /\ Pool(T!Closing(one, a))
          /\ \A t \in Slots : /\ T!Closing(one, a)[t].run = one[t].run
                              /\ T!Closing(one, a)[t].state =
                                   IF t = a /\ one[t].state # "free" THEN "closing"
                                   ELSE one[t].state
      BY <3>2, Closed
    <3>4. ~late => \A t \in Slots : T!Closing(one, a)[t].state \notin LiveStates
      BY <1>1, <3>2, <3>3 DEF TOrder, LiveStates
    <3> QED
      BY <3>1, <3>2, <3>3, <3>4
  <2> QED
    BY <2>1, <2>2
<1>4. CASE current # NoSock /\ current \in T!Live(ws)
  <2>1. late /\ sock' = ws /\ current' = current
    BY <1>1, <1>3, <1>4 DEF T!Connect, TOrder, T!Live, LiveStates
  <2>2. run' \in Nat /\ run' # 0 /\ \A t \in Slots : ws[t].run <= run'
    BY <1>1, <1>3 DEF TTypes, Pool
  <2> QED
    BY <1>1, <1>2, <1>3, <2>1, <2>2 DEF TTypes, TRuns
<1>5. CASE ~(current # NoSock /\ current \in T!Live(ws))
  <2>1. /\ T!HasFree(ws) /\ current' = T!FreeSlot(ws)
        /\ sock' = [ws EXCEPT ![T!FreeSlot(ws)] = T!New(run')]
    BY <1>3, <1>5 DEF T!Connect
  <2>2. run' \in Nat /\ run' # 0
    BY <1>1 DEF TTypes
  <2>3. /\ current' \in Slots /\ Pool(sock')
        /\ sock'[current'].state = "connecting" /\ sock'[current'].run = run'
        /\ \A t \in Slots \ {current'} : sock'[t] = ws[t]
    <3> PICK new, a, r : new = sock' /\ a = T!FreeSlot(ws) /\ r = run'
      OBVIOUS
    <3>1. Pool(ws) /\ r \in Nat /\ a \in Slots
      BY <1>3, <2>1, <2>2, SlotFound
    <3>2. new = With(ws, a, r)
      BY <2>1 DEF With
    <3>3. /\ Pool(new) /\ new[a].state = "connecting" /\ new[a].run = r
          /\ \A t \in Slots \ {a} : new[t] = ws[t]
      BY <3>1, <3>2, Fresh
    <3> QED
      BY <2>1, <3>1, <3>3
  <2>4. TTypes'
    BY <1>1, <1>2, <2>2, <2>3 DEF TTypes
  <2>5. TRuns'
    BY <1>1, <1>3, <2>2, <2>3 DEF TRuns, Pool, TTypes
  <2>6. ASSUME ~late' PROVE TOrder'
    BY <1>1, <1>2, <1>3, <2>2, <2>3, <2>6 DEF TOrder, Pool, LiveStates, TTypes
  <2> QED
    BY <2>4, <2>5, <2>6
<1> QED
  BY <1>4, <1>5

LEMMA TUnmount == ASSUME TInv, T!UnmountHook PROVE TInv'
<1> USE DEF TInv
<1>1. /\ mounted' = FALSE /\ timer' = T!ClearTimer(timer) /\ current' = NoSock
      /\ sock' = T!Closing(sock, current) /\ UNCHANGED <<build, run, late>>
  BY DEF T!UnmountHook
<1>2. timer' \in Timers /\ timer'.held = FALSE /\ timer'.loose = timer.loose
  BY <1>1 DEF T!ClearTimer, Timers, TTypes
<1>3. /\ Pool(sock')
      /\ \A t \in Slots : /\ sock'[t].run = sock[t].run
                          /\ sock'[t].state =
                               IF t = current /\ sock[t].state # "free" THEN "closing"
                               ELSE sock[t].state
  BY <1>1, Closed DEF TTypes
<1> QED
  BY <1>1, <1>2, <1>3 DEF TTypes, TRuns, TOrder, LiveStates

LEMMA TOpen == ASSUME TInv, NEW s \in Slots, T!OnOpen(s) PROVE TInv'
<1> USE DEF TInv
<1>1. sock[s].state = "connecting" /\ UNCHANGED <<build, run, mounted, current, timer, late>>
  BY DEF T!OnOpen
<1>2. CASE T!InstanceMounted(s)
  <2>1. sock' = T!Opened(sock, s)
    BY <1>2 DEF T!OnOpen
  <2>2. /\ Pool(sock') /\ sock'[s].state = "open" /\ sock'[s].run = sock[s].run
        /\ \A t \in Slots \ {s} : sock'[t] = sock[t]
    BY <2>1 DEF T!Opened, T!Socket, TTypes, Pool, States
  <2> QED
    BY <1>1, <2>2 DEF TTypes, TRuns, TOrder, LiveStates
<1>3. CASE ~T!InstanceMounted(s)
  <2>1. late
    BY <1>1, <1>3 DEF TOrder, T!InstanceMounted, LiveStates
  <2>2. sock' = T!Closing(sock, s)
    BY <1>3 DEF T!OnOpen
  <2>3. Pool(sock') /\ \A t \in Slots : sock'[t].run = sock[t].run
    BY <2>2, Closed DEF TTypes
  <2> QED
    BY <1>1, <2>1, <2>3 DEF TTypes, TRuns
<1> QED
  BY <1>2, <1>3

\* A close event, whichever socket's.
LEMMA TClose ==
  ASSUME TInv, NEW s \in Slots, sock[s].state # "free", NEW code, T!OnClose(s, code),
         UNCHANGED <<build, run, mounted>>
  PROVE  TInv'
<1> USE DEF TInv
<1>1. /\ Pool(sock') /\ sock'[s].state = "free" /\ sock'[s].run = 0
      /\ \A t \in Slots \ {s} : sock'[t] = sock[t]
  BY DEF T!OnClose, T!Freed, T!Free, T!Socket, TTypes, Pool, States
<1>2. CASE ~T!InstanceMounted(s)
  <2>1. UNCHANGED <<current, timer, late>>
    BY <1>2 DEF T!OnClose
  <2>2. ~late => s # current \/ ~mounted
    BY <1>2, SlotsAssumption DEF TOrder, T!InstanceMounted, TTypes
  <2> QED
    BY <1>1, <2>1, <2>2 DEF TTypes, TRuns, TOrder, LiveStates
<1>3. CASE T!InstanceMounted(s)
  <2>1. /\ current' = NoSock /\ late' = (late \/ sock[s].run # run)
        /\ timer' = timer \/ timer' = T!SetTimer(timer)
    BY <1>3 DEF T!OnClose
  <2>2. T!SetTimer(timer) \in Timers /\ T!SetTimer(timer).held
        /\ (~timer.held => T!SetTimer(timer).loose = timer.loose)
    BY DEF T!SetTimer, TTypes, Timers
  <2>3. TTypes' /\ TRuns'
    BY <1>1, <1>3, <2>1, <2>2 DEF TTypes, TRuns, T!InstanceMounted
  <2>4. ASSUME ~late' PROVE TOrder'
    <3>1. ~late /\ sock[s].run = run /\ mounted
      BY <1>3, <2>1, <2>4 DEF T!InstanceMounted, TTypes
    <3>2. s = current /\ current # NoSock /\ ~timer.held
      BY <3>1, SlotsAssumption DEF TOrder
    <3> QED
      BY <1>1, <2>1, <2>2, <3>1, <3>2 DEF TOrder, LiveStates
  <2> QED
    BY <2>3, <2>4
<1> QED
  BY <1>2, <1>3

LEMMA TReconnect == ASSUME TInv, T!Reconnect PROVE TInv'
<1> USE DEF TInv
<1>1. /\ timer' \in T!Fired(timer) /\ T!Connect(sock, run)
      /\ UNCHANGED <<build, run, mounted, late>>
  BY DEF T!Reconnect
<1>2. /\ timer' \in Timers
      /\ ~late => timer.held /\ ~timer'.held /\ timer'.loose = 0
  <2>1. timer.held \in BOOLEAN /\ timer.loose \in Nat
    BY DEF TTypes, Timers
  <2>2. CASE timer.held /\ timer' = [timer EXCEPT !.held = FALSE]
    BY <2>1, <2>2 DEF TTypes, Timers, TOrder
  <2>3. CASE timer.loose > 0 /\ timer' = [timer EXCEPT !.loose = @ - 1]
    BY <2>1, <2>3 DEF TTypes, Timers, TOrder
  <2> QED
    BY <1>1, <2>2, <2>3 DEF T!Fired
<1>3. CASE late
  <2>1. Pool(sock') /\ current' \in Slots \cup {NoSock} /\ \A t \in Slots : sock'[t].run <= run
    <3>1. CASE sock' = sock /\ current' = current
      BY <3>1 DEF TTypes, TRuns
    <3>2. CASE /\ T!HasFree(sock) /\ current' = T!FreeSlot(sock)
               /\ sock' = [sock EXCEPT ![T!FreeSlot(sock)] = T!New(run)]
      <4> PICK new, a, r : new = sock' /\ a = T!FreeSlot(sock) /\ r = run
        OBVIOUS
      <4>1. a \in Slots /\ r \in Nat /\ Pool(sock)
        BY <3>2, SlotFound DEF TTypes
      <4>2. new = With(sock, a, r)
        BY <3>2 DEF With
      <4>3. /\ Pool(new) /\ new[a].run = r
            /\ \A t \in Slots \ {a} : new[t] = sock[t]
        BY <4>1, <4>2, Fresh
      <4> QED
        BY <3>2, <4>1, <4>3 DEF TRuns, TTypes
    <3> QED
      BY <1>1, <3>1, <3>2 DEF T!Connect
  <2> QED
    BY <1>1, <1>2, <1>3, <2>1 DEF TTypes, TRuns
<1>4. CASE ~late
  <2>1. mounted /\ current = NoSock /\ \A t \in Slots : sock[t].state \notin LiveStates
    BY <1>2, <1>4, SlotsAssumption DEF TOrder
  <2> PICK new, a, r : new = sock' /\ a = T!FreeSlot(sock) /\ r = run
    OBVIOUS
  <2>2. T!HasFree(sock) /\ current' = a /\ new = With(sock, a, r)
    BY <1>1, <2>1 DEF T!Connect, With
  <2>3. a \in Slots /\ r \in Nat /\ Pool(sock)
    BY <2>2, SlotFound DEF TTypes
  <2>4. /\ Pool(new) /\ new[a].state = "connecting" /\ new[a].run = r
        /\ \A t \in Slots \ {a} : new[t] = sock[t]
    BY <2>2, <2>3, Fresh
  <2>5. TTypes' /\ TRuns'
    BY <1>1, <1>2, <2>2, <2>3, <2>4 DEF TTypes, TRuns
  <2>6. TOrder'
    BY <1>1, <1>2, <1>4, <2>1, <2>2, <2>3, <2>4, SlotsAssumption DEF TOrder, TRuns, LiveStates
  <2> QED
    BY <2>5, <2>6
<1> QED
  BY <1>3, <1>4

\* The other steps leave every socket in its state and run, and the refs alone.
LEMMA TMessages ==
  ASSUME TInv,
         \/ \E kind \in {"event", "notification"} : T!Broadcast(kind)
         \/ \E s \in Slots : T!OnMessage(s)
         \/ T!Flush
         \/ UNCHANGED <<build, threatVars>>
  PROVE  TInv'
<1> USE DEF TInv
<1>1. UNCHANGED <<build, run, mounted, current, timer, late>>
  BY DEF T!Broadcast, T!OnMessage, T!Flush, threatVars, T!refs
<1>2. /\ Pool(sock')
      /\ \A s \in Slots : sock'[s].state = sock[s].state /\ sock'[s].run = sock[s].run
  <2>1. ASSUME NEW kind, T!Broadcast(kind) PROVE <1>2
    <3> PICK m : sock' = T!Sent(sock, m)
      BY <2>1 DEF T!Broadcast
    <3> QED
      BY DEF T!Sent, T!Socket, TTypes, Pool
  <2>2. ASSUME NEW s \in Slots, T!OnMessage(s) PROVE <1>2
    <3>1. sock' = T!Taken(sock, s)
      BY <2>2 DEF T!OnMessage
    <3> QED
      BY <3>1 DEF T!Taken, T!Socket, TTypes, Pool
  <2>3. ASSUME T!Flush \/ UNCHANGED <<build, threatVars>> PROVE <1>2
    BY <2>3 DEF T!Flush, threatVars, TTypes
  <2> QED
    BY <2>1, <2>2, <2>3
<1> QED
  BY <1>1, <1>2 DEF TTypes, TRuns, TOrder

LEMMA TStep == ASSUME TInv, T!TNext \/ UNCHANGED <<build, threatVars>> PROVE TInv'
<1>1. ASSUME NEW s \in Slots, NEW given, T!Refused(s, given) PROVE TInv'
  BY <1>1, TClose DEF T!Refused
<1>2. ASSUME NEW s \in Slots, T!Lost(s) PROVE TInv'
  BY <1>2, TClose DEF T!Lost
<1>3. ASSUME NEW s \in Slots, T!CloseDone(s) PROVE TInv'
  BY <1>3, TClose DEF T!CloseDone
<1> QED
  BY <1>1, <1>2, <1>3, TMount, TUnmount, TReconnect, TOpen, TMessages DEF T!TNext

LEMMA TSole == ASSUME TInv PROVE T!TSoleSocket
<1>1. late => build = "dev"
  BY DEF TInv, TRuns
<1>2. ASSUME ~late PROVE Cardinality(T!Live(sock)) <= IF mounted THEN 1 ELSE 0
  <2>1. CASE mounted
    <3>1. T!Live(sock) \subseteq {current}
      BY <1>2, <2>1 DEF TInv, TOrder, T!Live, LiveStates
    <3>2. IsFiniteSet({current}) /\ Cardinality({current}) = 1
      BY FS_Singleton
    <3>3. Cardinality(T!Live(sock)) <= 1
      BY <3>1, <3>2, FS_Subset
    <3> QED
      BY <2>1, <3>3
  <2>2. CASE ~mounted
    <3>1. T!Live(sock) = {}
      BY <1>2, <2>2 DEF TInv, TOrder, T!Live, LiveStates
    <3> QED
      BY <2>2, <3>1, FS_EmptySet
  <2> QED
    BY <2>1, <2>2
<1> QED
  BY <1>1, <1>2 DEF T!TSoleSocket, T!Cardinality, Cardinality

----------------------------------------------------------------------------
(***************************************************************************
 The infrastructure hook.  Its connect() never looks at the socket it has, so
 here it is the close events that must find the refs of their own run: while the
 page is mounted, every socket of the latest run is live.
 ***************************************************************************)
ITypes ==
  /\ Pool(isock) /\ irun \in Nat /\ itimer \in Timers /\ imounted \in BOOLEAN
  /\ ilate \in BOOLEAN /\ iref \in Slots \cup {NoSock}
  /\ build \in {"production", "dev"}

IRuns ==
  /\ \A s \in Slots : isock[s].run <= irun
  /\ imounted => irun # 0
  /\ ilate => build = "dev"

IOrder ==
  /\ build = "dev" /\ irun = 0 => \A s \in Slots : isock[s].state = "free"
  /\ \A s \in Slots : isock[s].state \in LiveStates =>
       imounted /\ s = iref /\ isock[s].run = irun /\ ~itimer.held
  /\ itimer.loose = 0
  /\ ~imounted => ~itimer.held
  /\ \A s \in Slots :
       imounted /\ isock[s].state # "free" /\ isock[s].run = irun =>
         isock[s].state \in LiveStates

IInv == ITypes /\ IRuns /\ (~ilate => IOrder)

LEMMA IInitInv == I!IInit => IInv
<1> SUFFICES ASSUME I!IInit PROVE IInv
  OBVIOUS
<1>1. /\ \A s \in Slots : isock[s].state = "free" /\ isock[s].run = 0
      /\ isock = [s \in Slots |-> isock[s]]
  BY DEF I!IInit, I!Free, I!Socket
<1>2. /\ irun = 0 /\ imounted = FALSE /\ iref = NoSock /\ ilate = FALSE
      /\ itimer.held = FALSE /\ itimer.loose = 0 /\ itimer \in Timers
      /\ build \in {"production", "dev"}
  BY DEF I!IInit, I!NoTimer, Timers
<1>3. ITypes
  <2>1. Pool(isock)
    BY <1>1 DEF Pool, States
  <2> QED
    BY <1>2, <2>1 DEF ITypes
<1>4. IRuns /\ IOrder
  BY <1>1, <1>2 DEF IRuns, IOrder, LiveStates
<1> QED
  BY <1>3, <1>4 DEF IInv

\* Both hooks are instances of the same module of sockets.
LEMMA SameSockets ==
  ASSUME NEW ws
  PROVE  /\ I!HasFree(ws) = T!HasFree(ws) /\ I!FreeSlot(ws) = T!FreeSlot(ws)
         /\ \A r : I!New(r) = T!New(r)
         /\ \A s : I!Closing(ws, s) = T!Closing(ws, s)
<1>1. I!HasFree(ws) = T!HasFree(ws) /\ I!FreeSlot(ws) = T!FreeSlot(ws)
  BY DEF I!HasFree, T!HasFree, I!FreeSlot, T!FreeSlot
<1>2. \A st, r, b : I!Socket(st, r, b) = T!Socket(st, r, b)
  BY DEF I!Socket, T!Socket
<1>3. \A r : I!New(r) = T!New(r)
  BY <1>2 DEF I!New, T!New
<1>4. \A s : I!Closing(ws, s) = T!Closing(ws, s)
  BY DEF I!Closing, T!Closing, I!Socket, T!Socket
<1> QED
  BY <1>1, <1>3, <1>4

\* connect() from a pool ws in effect run r.
LEMMA IConnected ==
  ASSUME NEW ws, NEW r \in Nat, Pool(ws), I!IConnect(ws, r)
  PROVE  /\ iref' \in Slots /\ Pool(isock')
         /\ isock'[iref'].state = "connecting" /\ isock'[iref'].run = r
         /\ \A t \in Slots \ {iref'} : isock'[t] = ws[t]
<1> PICK new, a : new = isock' /\ a = T!FreeSlot(ws)
  OBVIOUS
<1>1. T!HasFree(ws) /\ iref' = a /\ new = With(ws, a, r)
  BY SameSockets DEF I!IConnect, With
<1>2. a \in Slots
  BY <1>1, SlotFound
<1>3. /\ Pool(new) /\ new[a].state = "connecting" /\ new[a].run = r
      /\ \A t \in Slots \ {a} : new[t] = ws[t]
  BY <1>1, <1>2, Fresh
<1> QED
  BY <1>1, <1>2, <1>3

LEMMA IMount == ASSUME IInv, I!MountStream PROVE IInv'
<1> USE DEF IInv
<1>1. /\ imounted = FALSE /\ imounted' = TRUE /\ itimer' = I!NoTimer
      /\ UNCHANGED <<build, ilate>>
      /\ irun' = IF build = "dev" THEN 2 ELSE irun + 1
      /\ build = "dev" => irun = 0
  BY DEF I!MountStream, ITypes
<1>2. itimer' \in Timers /\ itimer'.held = FALSE /\ itimer'.loose = 0
  BY <1>1 DEF I!NoTimer, Timers
<1>3. irun' \in Nat /\ irun' # 0
  BY <1>1 DEF ITypes
<1>4. PICK ws : /\ I!IConnect(ws, irun')
                /\ Pool(ws)
                /\ \A t \in Slots : ws[t].run < irun'
                /\ ~ilate => \A t \in Slots : ws[t].state \notin LiveStates
  <2>1. CASE build # "dev"
    <3>1. I!IConnect(isock, irun') /\ irun' = irun + 1
      BY <1>1, <2>1 DEF I!MountStream
    <3> QED
      BY <1>1, <3>1 DEF ITypes, IRuns, IOrder, Pool
  <2>2. CASE build = "dev"
    <3> DEFINE a == T!FreeSlot(isock)
               one == [isock EXCEPT ![a] = T!New(1)]
    <3>1. I!IConnect(T!Closing(one, a), irun') /\ irun' = 2 /\ irun = 0
      BY <1>1, <2>2, SameSockets DEF I!MountStream
    <3>2. Pool(one) /\ \A t \in Slots : one[t].run < 2 /\ (t # a => one[t] = isock[t])
      <4>1. T!New(1).state = "connecting" /\ T!New(1).run = 1
        BY DEF T!New, T!Socket
      <4> QED
        BY <3>1, <4>1 DEF ITypes, IRuns, Pool, States
    <3> HIDE DEF one, a
    <3>3. /\ Pool(T!Closing(one, a))
          /\ \A t \in Slots : /\ T!Closing(one, a)[t].run = one[t].run
                              /\ T!Closing(one, a)[t].state =
                                   IF t = a /\ one[t].state # "free" THEN "closing"
                                   ELSE one[t].state
      BY <3>2, Closed
    <3>4. ~ilate => \A t \in Slots : T!Closing(one, a)[t].state \notin LiveStates
      BY <1>1, <3>2, <3>3 DEF IOrder, LiveStates
    <3> QED
      BY <3>1, <3>2, <3>3, <3>4
  <2> QED
    BY <2>1, <2>2
<1>5. PICK r : r = irun'
  OBVIOUS
<1>6. /\ iref' \in Slots /\ Pool(isock')
      /\ isock'[iref'].state = "connecting" /\ isock'[iref'].run = r
      /\ \A t \in Slots \ {iref'} : isock'[t] = ws[t]
  <2>1. r \in Nat /\ Pool(ws) /\ I!IConnect(ws, r)
    BY <1>3, <1>4, <1>5
  <2> QED
    BY <2>1, IConnected
<1>7. ITypes'
  BY <1>1, <1>2, <1>3, <1>6 DEF ITypes
<1>8. IRuns'
  BY <1>1, <1>3, <1>4, <1>5, <1>6 DEF IRuns, Pool, ITypes
<1>9. ASSUME ~ilate' PROVE IOrder'
  BY <1>1, <1>2, <1>3, <1>4, <1>5, <1>6, <1>9 DEF IOrder, Pool, LiveStates, ITypes
<1> QED
  BY <1>7, <1>8, <1>9

LEMMA IUnmount == ASSUME IInv, I!UnmountStream PROVE IInv'
<1> USE DEF IInv
<1>1. /\ imounted' = FALSE /\ itimer' = I!ClearTimer(itimer)
      /\ isock' = T!Closing(isock, iref) /\ UNCHANGED <<build, irun, iref, ilate>>
  BY SameSockets DEF I!UnmountStream
<1>2. itimer' \in Timers /\ itimer'.held = FALSE /\ itimer'.loose = itimer.loose
  BY <1>1 DEF I!ClearTimer, Timers, ITypes
<1>3. /\ Pool(isock')
      /\ \A t \in Slots : /\ isock'[t].run = isock[t].run
                          /\ isock'[t].state =
                               IF t = iref /\ isock[t].state # "free" THEN "closing"
                               ELSE isock[t].state
  BY <1>1, Closed DEF ITypes
<1> QED
  BY <1>1, <1>2, <1>3 DEF ITypes, IRuns, IOrder, LiveStates

LEMMA IOpen == ASSUME IInv, NEW s \in Slots, I!IOnOpen(s) PROVE IInv'
<1>1. /\ isock[s].state = "connecting"
      /\ UNCHANGED <<build, irun, imounted, iref, itimer, ilate>>
  BY DEF I!IOnOpen
<1>2. /\ Pool(isock') /\ isock'[s].state = "open" /\ isock'[s].run = isock[s].run
      /\ \A t \in Slots \ {s} : isock'[t] = isock[t]
  BY DEF I!IOnOpen, I!Socket, IInv, ITypes, Pool, States
<1> QED
  BY <1>1, <1>2 DEF IInv, ITypes, IRuns, IOrder, LiveStates

LEMMA IClose ==
  ASSUME IInv, NEW s \in Slots, isock[s].state # "free", NEW code, I!IOnClose(s, code),
         UNCHANGED <<build, irun, imounted, iref>>
  PROVE  IInv'
<1> USE DEF IInv
<1>1. /\ Pool(isock') /\ isock'[s].state = "free" /\ isock'[s].run = 0
      /\ \A t \in Slots \ {s} : isock'[t] = isock[t]
  BY DEF I!IOnClose, I!Freed, I!Free, I!Socket, ITypes, Pool, States
<1>2. CASE ~I!IInstanceMounted(s)
  <2>1. UNCHANGED <<itimer, ilate>>
    BY <1>2 DEF I!IOnClose
  <2> QED
    BY <1>1, <2>1 DEF ITypes, IRuns, IOrder, LiveStates
<1>3. CASE I!IInstanceMounted(s)
  <2>1. /\ ilate' = (ilate \/ isock[s].run # irun)
        /\ itimer' = itimer \/ itimer' = I!SetTimer(itimer)
    BY <1>3 DEF I!IOnClose, I!ScheduleReconnect
  <2>2. I!SetTimer(itimer) \in Timers /\ I!SetTimer(itimer).held
        /\ (~itimer.held => I!SetTimer(itimer).loose = itimer.loose)
    BY DEF I!SetTimer, ITypes, Timers
  <2>3. ITypes' /\ IRuns'
    BY <1>1, <1>3, <2>1, <2>2 DEF ITypes, IRuns, I!IInstanceMounted
  <2>4. ASSUME ~ilate' PROVE IOrder'
    <3>1. ~ilate /\ isock[s].run = irun /\ imounted
      BY <1>3, <2>1, <2>4 DEF I!IInstanceMounted, ITypes
    <3>2. isock[s].state \in LiveStates /\ s = iref /\ ~itimer.held
      BY <3>1 DEF IOrder
    <3> QED
      BY <1>1, <2>1, <2>2, <3>1, <3>2 DEF IOrder, LiveStates
  <2> QED
    BY <2>3, <2>4
<1> QED
  BY <1>2, <1>3

\* Of a second reconnect timer there is none, and one that fires finds no live
\* socket unless a late close event came before.
LEMMA IReconnects == ASSUME IInv, I!IReconnect PROVE IInv'
<1> USE DEF IInv
<1>1. /\ itimer' \in I!Fired(itimer) /\ UNCHANGED <<build, irun, imounted, ilate>>
      /\ IF imounted THEN I!IConnect(isock, irun) ELSE UNCHANGED <<isock, iref>>
  BY DEF I!IReconnect
<1>2. /\ itimer' \in Timers
      /\ ~ilate => itimer.held /\ ~itimer'.held /\ itimer'.loose = 0
  <2>1. itimer.held \in BOOLEAN /\ itimer.loose \in Nat
    BY DEF ITypes, Timers
  <2>2. CASE itimer.held /\ itimer' = [itimer EXCEPT !.held = FALSE]
    BY <2>1, <2>2 DEF ITypes, Timers, IOrder
  <2>3. CASE itimer.loose > 0 /\ itimer' = [itimer EXCEPT !.loose = @ - 1]
    BY <2>1, <2>3 DEF ITypes, Timers, IOrder
  <2> QED
    BY <1>1, <2>2, <2>3 DEF I!Fired
<1>3. CASE ~imounted
  BY <1>1, <1>2, <1>3 DEF ITypes, IRuns, IOrder
<1>4. CASE imounted
  <2>1. PICK r : r = irun
    OBVIOUS
  <2>2. /\ iref' \in Slots /\ Pool(isock')
        /\ isock'[iref'].state = "connecting" /\ isock'[iref'].run = r
        /\ \A t \in Slots \ {iref'} : isock'[t] = isock[t]
    <3>1. r \in Nat /\ Pool(isock) /\ I!IConnect(isock, r)
      BY <1>1, <1>4, <2>1 DEF ITypes
    <3> QED
      BY <3>1, IConnected
  <2>3. ITypes' /\ IRuns'
    BY <1>1, <1>2, <2>1, <2>2 DEF ITypes, IRuns
  <2>4. ASSUME ~ilate' PROVE IOrder'
    <3>1. ~ilate /\ \A t \in Slots : isock[t].state \notin LiveStates
      BY <1>1, <1>2, <2>4 DEF IOrder
    <3> QED
      BY <1>1, <1>2, <1>4, <2>1, <2>2, <3>1 DEF IOrder, LiveStates, IRuns
  <2> QED
    BY <2>3, <2>4
<1> QED
  BY <1>3, <1>4

\* The other steps leave every socket in its state and run, and the refs alone.
LEMMA IMessages ==
  ASSUME IInv,
         \/ I!IPush
         \/ \E s \in Slots : I!IOnMessage(s)
         \/ \E g \in 0..MaxGen : I!RestAnswer(g) \/ I!RestFails(g)
         \/ UNCHANGED <<build, infraVars>>
  PROVE  IInv'
<1> USE DEF IInv
<1>1. UNCHANGED <<build, irun, imounted, iref, itimer, ilate>>
  BY DEF I!IPush, I!IOnMessage, I!RestAnswer, I!RestFails, infraVars, I!ihook
<1>2. /\ Pool(isock')
      /\ \A s \in Slots : isock'[s].state = isock[s].state /\ isock'[s].run = isock[s].run
  <2>1. ASSUME I!IPush PROVE <1>2
    <3> PICK m : isock' = I!Sent(isock, m)
      BY <2>1 DEF I!IPush
    <3> QED
      BY DEF I!Sent, I!Socket, ITypes, Pool
  <2>2. ASSUME NEW s \in Slots, I!IOnMessage(s) PROVE <1>2
    <3>1. isock' = I!Taken(isock, s)
      BY <2>2 DEF I!IOnMessage
    <3> QED
      BY <3>1 DEF I!Taken, I!Socket, ITypes, Pool
  <2>3. ASSUME \/ \E g \in 0..MaxGen : I!RestAnswer(g) \/ I!RestFails(g)
               \/ UNCHANGED <<build, infraVars>>
        PROVE <1>2
    BY <2>3 DEF I!RestAnswer, I!RestFails, infraVars, ITypes
  <2> QED
    BY <2>1, <2>2, <2>3
<1> QED
  BY <1>1, <1>2 DEF ITypes, IRuns, IOrder

LEMMA IStep == ASSUME IInv, I!INext \/ UNCHANGED <<build, infraVars>> PROVE IInv'
<1>1. ASSUME NEW s \in Slots, NEW given, I!IRefused(s, given) PROVE IInv'
  BY <1>1, IClose DEF I!IRefused
<1>2. ASSUME NEW s \in Slots, I!ILost(s) PROVE IInv'
  BY <1>2, IClose DEF I!ILost
<1>3. ASSUME NEW s \in Slots, I!ICloseDone(s) PROVE IInv'
  BY <1>3, IClose DEF I!ICloseDone
<1> QED
  BY <1>1, <1>2, <1>3, IMount, IUnmount, IReconnects, IOpen, IMessages DEF I!INext

LEMMA ISole == ASSUME IInv PROVE I!ISoleSocket
<1>1. ilate => build = "dev"
  BY DEF IInv, IRuns
<1>2. ASSUME ~ilate PROVE Cardinality(I!Live(isock)) <= IF imounted THEN 1 ELSE 0
  <2>1. CASE imounted
    <3>1. I!Live(isock) \subseteq {iref}
      BY <1>2, <2>1 DEF IInv, IOrder, I!Live, LiveStates
    <3>2. IsFiniteSet({iref}) /\ Cardinality({iref}) = 1
      BY FS_Singleton
    <3>3. Cardinality(I!Live(isock)) <= 1
      BY <3>1, <3>2, FS_Subset
    <3> QED
      BY <2>1, <3>3
  <2>2. CASE ~imounted
    <3>1. I!Live(isock) = {}
      BY <1>2, <2>2 DEF IInv, IOrder, I!Live, LiveStates
    <3> QED
      BY <2>2, <3>1, FS_EmptySet
  <2> QED
    BY <2>1, <2>2
<1> QED
  BY <1>1, <1>2 DEF I!ISoleSocket, I!Cardinality, Cardinality

----------------------------------------------------------------------------
\* The two hooks share the build they run in and nothing else, which the step of
\* one leaves alone: it is a stutter of the other.
LEMMA Build == /\ T!TNext => UNCHANGED build
               /\ I!INext => UNCHANGED build
<1>1. ASSUME T!TNext PROVE UNCHANGED build
  <2>1. ASSUME NEW s \in Slots, NEW given,
               T!OnOpen(s) \/ T!Lost(s) \/ T!CloseDone(s) \/ T!OnMessage(s) \/ T!Refused(s, given)
        PROVE  UNCHANGED build
    BY <2>1 DEF T!OnOpen, T!Lost, T!CloseDone, T!OnMessage, T!Refused
  <2>2. ASSUME T!MountHook \/ T!UnmountHook \/ T!Reconnect \/ T!Flush PROVE UNCHANGED build
    BY <2>2 DEF T!MountHook, T!UnmountHook, T!Reconnect, T!Flush
  <2>3. ASSUME NEW kind, T!Broadcast(kind) PROVE UNCHANGED build
    BY <2>3 DEF T!Broadcast
  <2> QED
    BY <1>1, <2>1, <2>2, <2>3 DEF T!TNext
<1>2. ASSUME I!INext PROVE UNCHANGED build
  <2>1. ASSUME NEW s \in Slots, NEW given,
               I!IOnOpen(s) \/ I!ILost(s) \/ I!ICloseDone(s) \/ I!IOnMessage(s) \/ I!IRefused(s, given)
        PROVE  UNCHANGED build
    BY <2>1 DEF I!IOnOpen, I!ILost, I!ICloseDone, I!IOnMessage, I!IRefused
  <2>2. ASSUME NEW g, I!RestAnswer(g) \/ I!RestFails(g) PROVE UNCHANGED build
    BY <2>2 DEF I!RestAnswer, I!RestFails
  <2>3. ASSUME I!MountStream \/ I!UnmountStream \/ I!IReconnect \/ I!IPush PROVE UNCHANGED build
    BY <2>3 DEF I!MountStream, I!UnmountStream, I!IReconnect, I!IPush
  <2> QED
    BY <1>2, <2>1, <2>2, <2>3 DEF I!INext
<1> QED
  BY <1>1, <1>2

(***************************************************************************
 Each hook of the console keeps one live socket while its component is mounted
 and none after it, unless a close event of an earlier effect run came late,
 which only the development build can bring about.
 ***************************************************************************)
THEOREM OneSocket == Spec => []SoleSocket
<1>1. Init => TInv /\ IInv
  BY TInitInv, IInitInv DEF Init
<1>2. TInv /\ IInv /\ [Next]_vars => (TInv /\ IInv)'
  <2> SUFFICES ASSUME TInv, IInv, [Next]_vars PROVE TInv' /\ IInv'
    OBVIOUS
  <2>1. /\ T!TNext \/ UNCHANGED <<build, threatVars>>
        /\ I!INext \/ UNCHANGED <<build, infraVars>>
    BY Build DEF Next, vars
  <2> QED
    BY <2>1, TStep, IStep
<1>3. TInv /\ IInv => SoleSocket
  BY TSole, ISole DEF SoleSocket
<1> QED
  BY <1>1, <1>2, <1>3, PTL DEF Spec
----------------------------------------------------------------------------
(***************************************************************************
 What the console says of its connections.  A socket that is open is the live one,
 so the handler that opens or closes it is of the run whose state it sets.
 ***************************************************************************)
LEMMA BadgeStays ==
  ASSUME T!TBadgeAgrees, UNCHANGED <<mounted, opened, connected>>, late' = late,
         \A s \in Slots : sock'[s].state = "open" <=> sock[s].state = "open"
  PROVE  T!TBadgeAgrees'
  BY DEF T!TBadgeAgrees

LEMMA BadgeClose ==
  ASSUME TInv, T!TBadgeAgrees, NEW s \in Slots, sock[s].state # "free", NEW code,
         T!OnClose(s, code), UNCHANGED <<build, run, mounted, opened>>
  PROVE  T!TBadgeAgrees'
<1> SUFFICES ASSUME ~late', mounted, opened
             PROVE  connected' <=> \E t \in Slots : sock'[t].state = "open"
  BY DEF T!TBadgeAgrees
<1>1. sock'[s].state = "free" /\ \A t \in Slots \ {s} : sock'[t] = sock[t]
  BY DEF T!OnClose, T!Freed, T!Free, T!Socket, TInv, TTypes, Pool
<1>2. CASE ~T!InstanceMounted(s)
  <2>1. UNCHANGED <<connected, late>>
    BY <1>2 DEF T!OnClose
  <2>2. sock[s].state \notin LiveStates
    BY <1>2, <2>1 DEF TInv, TOrder, T!InstanceMounted
  <2>3. \A t \in Slots : sock'[t].state = "open" <=> sock[t].state = "open"
    BY <1>1, <2>2 DEF LiveStates
  <2> QED
    BY <2>1, <2>3 DEF T!TBadgeAgrees
<1>3. CASE T!InstanceMounted(s)
  <2>1. connected' = FALSE /\ ~late /\ sock[s].run = run
    BY <1>3 DEF T!OnClose, TInv, TTypes
  <2>2. s = current /\ \A t \in Slots \ {s} : sock[t].state # "open"
    BY <2>1 DEF TInv, TOrder, LiveStates
  <2> QED
    BY <1>1, <2>1, <2>2
<1> QED
  BY <1>2, <1>3

LEMMA BadgeOpen ==
  ASSUME TInv, NEW s \in Slots, T!OnOpen(s)
  PROVE  T!TBadgeAgrees'
<1> SUFFICES ASSUME ~late', mounted', opened'
             PROVE  connected' <=> \E t \in Slots : sock'[t].state = "open"
  BY DEF T!TBadgeAgrees
<1>1. T!InstanceMounted(s)
  BY DEF T!OnOpen, TInv, TOrder, LiveStates, T!InstanceMounted
<1>2. connected' = TRUE /\ sock' = T!Opened(sock, s)
  BY <1>1 DEF T!OnOpen
<1>3. sock'[s].state = "open"
  BY <1>2 DEF T!Opened, T!Socket, TInv, TTypes, Pool
<1> QED
  BY <1>2, <1>3

LEMMA BadgeReconnect ==
  ASSUME TInv, T!TBadgeAgrees, T!Reconnect
  PROVE  T!TBadgeAgrees'
<1>1. T!Connect(sock, run) /\ UNCHANGED <<mounted, opened, connected, late>>
  BY DEF T!Reconnect
<1>2. \A t \in Slots : sock'[t].state = "open" <=> sock[t].state = "open"
  <2>1. CASE sock' = sock
    BY <2>1
  <2>2. CASE T!HasFree(sock) /\ sock' = [sock EXCEPT ![T!FreeSlot(sock)] = T!New(run)]
    <3> PICK a : a = T!FreeSlot(sock)
      OBVIOUS
    <3>1. a \in Slots /\ sock[a].state = "free"
      BY <2>2, SlotFound
    <3>2. sock'[a].state = "connecting" /\ \A t \in Slots \ {a} : sock'[t] = sock[t]
      BY <2>2, <3>1 DEF T!New, T!Socket, TInv, TTypes, Pool
    <3> QED
      BY <3>1, <3>2
  <2> QED
    BY <1>1, <2>1, <2>2 DEF T!Connect
<1> QED
  BY <1>1, <1>2, BadgeStays

LEMMA BadgeStep ==
  ASSUME TInv, T!TBadgeAgrees, T!TNext \/ UNCHANGED <<build, threatVars>>
  PROVE  T!TBadgeAgrees'
<1>1. ASSUME NEW s \in Slots, NEW given, T!Refused(s, given) PROVE T!TBadgeAgrees'
  BY <1>1, BadgeClose DEF T!Refused
<1>2. ASSUME NEW s \in Slots, T!Lost(s) PROVE T!TBadgeAgrees'
  BY <1>2, BadgeClose DEF T!Lost
<1>3. ASSUME NEW s \in Slots, T!CloseDone(s) PROVE T!TBadgeAgrees'
  BY <1>3, BadgeClose DEF T!CloseDone
<1>4. CASE T!MountHook \/ T!UnmountHook
  <2>1. ~opened' \/ ~mounted'
    BY <1>4 DEF T!MountHook, T!UnmountHook
  <2> QED
    BY <2>1 DEF T!TBadgeAgrees
<1>5. ASSUME NEW kind, T!Broadcast(kind) PROVE T!TBadgeAgrees'
  <2> PICK m : sock' = T!Sent(sock, m)
    BY <1>5 DEF T!Broadcast
  <2>1. \A t \in Slots : sock'[t].state = sock[t].state
    BY DEF T!Sent, T!Socket
  <2>2. UNCHANGED <<mounted, opened, connected, late>>
    BY <1>5 DEF T!Broadcast, T!refs
  <2> QED
    BY <2>1, <2>2, BadgeStays
<1>6. ASSUME NEW s \in Slots, T!OnMessage(s) PROVE T!TBadgeAgrees'
  <2>1. \A t \in Slots : sock'[t].state = sock[t].state
    BY <1>6 DEF T!OnMessage, T!Taken, T!Socket, TInv, TTypes, Pool
  <2>2. UNCHANGED <<mounted, opened, connected, late>>
    BY <1>6 DEF T!OnMessage, T!refs
  <2> QED
    BY <2>1, <2>2, BadgeStays
<1>7. CASE T!Flush \/ UNCHANGED <<build, threatVars>>
  <2>1. UNCHANGED <<mounted, opened, connected, late, sock>>
    BY <1>7 DEF T!Flush, T!refs, threatVars
  <2> QED
    BY <2>1, BadgeStays
<1> QED
  BY <1>1, <1>2, <1>3, <1>4, <1>5, <1>6, <1>7, BadgeOpen, BadgeReconnect DEF T!TNext

----------------------------------------------------------------------------
\* The interval that pingRef holds is a socket's while the stream is live.
Streaming == I!StreamAgrees /\ (~ilate /\ imounted /\ status = "live" => ping \in Slots)

LEMMA StreamClose ==
  ASSUME IInv, Streaming, NEW s \in Slots, isock[s].state # "free", NEW code,
         I!IOnClose(s, code), UNCHANGED <<build, irun, imounted, iref>>
  PROVE  Streaming'
<1> SUFFICES ASSUME ~ilate', imounted
             PROVE  /\ status' = "live" <=> \E t \in Slots : isock'[t].state = "open"
                    /\ status' = "live" => isock'[ping'].state = "open" /\ ping' \in Slots
  BY DEF Streaming, I!StreamAgrees
<1>1. isock'[s].state = "free" /\ isock' = [isock EXCEPT ![s] = I!Free]
      /\ \A t \in Slots \ {s} : isock'[t] = isock[t]
  BY DEF I!IOnClose, I!Freed, I!Free, I!Socket, IInv, ITypes, Pool
<1>2. CASE ~I!IInstanceMounted(s)
  <2>1. UNCHANGED <<status, ilate, ping>>
    BY <1>2 DEF I!IOnClose, I!IInstanceMounted
  <2>2. isock[s].state \notin LiveStates
    BY <1>2, <2>1 DEF IInv, IOrder, I!IInstanceMounted
  <2>3. \A t \in Slots : isock'[t].state = "open" <=> isock[t].state = "open"
    BY <1>1, <2>2 DEF LiveStates
  <2>4. status = "live" => (status = "live" <=> \E t \in Slots : isock[t].state = "open")
                           /\ isock[ping].state = "open" /\ ping \in Slots
    BY <2>1 DEF Streaming, I!StreamAgrees
  <2>5. status = "live" => isock'[ping].state = "open" /\ ping \in Slots
    <3>1. CASE ping = s
      BY <2>2, <2>4, <3>1 DEF LiveStates
    <3>2. CASE ping # s
      BY <1>1, <2>4, <3>2 DEF IInv, ITypes, Pool
    <3> QED
      BY <3>1, <3>2
  <2> QED
    BY <2>1, <2>3, <2>5 DEF Streaming, I!StreamAgrees
<1>3. CASE I!IInstanceMounted(s)
  <2>1. status' \in {"offline", "reconnecting"} /\ ~ilate /\ isock[s].run = irun
    <3>1. ilate' = (ilate \/ isock[s].run # irun)
      BY <1>3 DEF I!IOnClose
    <3>2. status' \in {"offline", "reconnecting"}
      BY <1>3 DEF I!IOnClose, I!ScheduleReconnect
    <3> QED
      BY <3>1, <3>2
  <2>2. \A t \in Slots \ {s} : isock[t].state # "open"
    BY <2>1 DEF IInv, IOrder, LiveStates
  <2> QED
    BY <1>1, <2>1, <2>2
<1> QED
  BY <1>2, <1>3

LEMMA StreamOpen ==
  ASSUME IInv, NEW s \in Slots, I!IOnOpen(s)
  PROVE  Streaming'
<1>1. isock'[s].state = "open" /\ ping' = s /\ status' = "live"
  BY DEF I!IOnOpen, I!Socket, IInv, ITypes, Pool
<1> QED
  BY <1>1 DEF Streaming, I!StreamAgrees

LEMMA StreamReconnect ==
  ASSUME IInv, Streaming, I!IReconnect
  PROVE  Streaming'
<1> SUFFICES ASSUME ~ilate', imounted'
             PROVE  status' # "live" /\ \A t \in Slots : isock'[t].state # "open"
  BY DEF Streaming, I!StreamAgrees
<1>1. /\ ~ilate /\ imounted /\ status' = status /\ itimer' \in I!Fired(itimer)
      /\ I!IConnect(isock, irun)
  BY DEF I!IReconnect
<1>2. itimer.held
  <2>1. itimer.held \in BOOLEAN /\ itimer.loose = 0
    BY <1>1 DEF IInv, ITypes, IOrder, Timers
  <2> QED
    BY <1>1, <2>1 DEF I!Fired
<1>3. \A t \in Slots : isock[t].state \notin LiveStates
  BY <1>1, <1>2 DEF IInv, IOrder
<1>4. status # "live"
  BY <1>1, <1>3 DEF Streaming, I!StreamAgrees, LiveStates
<1>5. \A t \in Slots : isock'[t].state # "open"
  <2> PICK r : r = irun
    OBVIOUS
  <2>1. r \in Nat /\ Pool(isock) /\ I!IConnect(isock, r)
    BY <1>1 DEF IInv, ITypes
  <2>2. /\ isock'[iref'].state = "connecting"
        /\ \A t \in Slots \ {iref'} : isock'[t] = isock[t]
    BY <2>1, IConnected
  <2> QED
    BY <1>3, <2>2 DEF LiveStates
<1> QED
  BY <1>1, <1>4, <1>5

LEMMA StreamMount ==
  ASSUME IInv, IInv', I!MountStream
  PROVE  Streaming'
<1> SUFFICES ASSUME ~ilate', imounted'
             PROVE  status' # "live" /\ \A t \in Slots : isock'[t].state # "open"
  BY DEF Streaming, I!StreamAgrees
<1>1. status' = "connecting"
  BY DEF I!MountStream
<1>2. isock'[iref'].state = "connecting"
  <2> PICK r, ws : r = irun' /\ I!IConnect(ws, r) /\ iref' = T!FreeSlot(ws)
    BY SameSockets DEF I!MountStream, I!IConnect
  <2>1. isock' = [ws EXCEPT ![iref'] = T!New(r)]
    BY SameSockets DEF I!IConnect
  <2>2. iref' \in Slots /\ isock' = [s \in Slots |-> isock'[s]]
    BY SameSockets, SlotFound DEF I!IConnect, IInv, ITypes, Pool
  <2>3. T!New(r).state = "connecting"
    BY DEF T!New, T!Socket
  <2>4. DOMAIN ws = Slots
    BY <2>1, <2>2
  <2> QED
    BY <2>1, <2>2, <2>3, <2>4
<1>3. \A t \in Slots : isock'[t].state \in LiveStates => t = iref'
  BY DEF IInv, IOrder
<1> QED
  BY <1>1, <1>2, <1>3 DEF LiveStates

LEMMA StreamStep ==
  ASSUME IInv, Streaming, I!INext \/ UNCHANGED <<build, infraVars>>
  PROVE  Streaming'
<1>1. ASSUME NEW s \in Slots, NEW given, I!IRefused(s, given) PROVE Streaming'
  BY <1>1, StreamClose DEF I!IRefused
<1>2. ASSUME NEW s \in Slots, I!ILost(s) PROVE Streaming'
  BY <1>2, StreamClose DEF I!ILost
<1>3. ASSUME NEW s \in Slots, I!ICloseDone(s) PROVE Streaming'
  BY <1>3, StreamClose DEF I!ICloseDone
<1>4. CASE I!UnmountStream
  BY <1>4 DEF I!UnmountStream, Streaming, I!StreamAgrees
<1>5. CASE I!MountStream
  BY <1>5, IMount, StreamMount
<1>6. ASSUME UNCHANGED <<imounted, status, ping, ilate>>,
             \A t \in Slots : isock'[t].state = isock[t].state,
             DOMAIN isock' = Slots
      PROVE  Streaming'
  <2>1. ASSUME ~ilate, imounted, status = "live"
        PROVE  isock'[ping].state = "open" /\ ping \in Slots
    <3>1. isock[ping].state = "open" /\ ping \in Slots
      BY <2>1 DEF Streaming, I!StreamAgrees
    <3> QED
      BY <1>6, <3>1 DEF IInv, ITypes, Pool
  <2> QED
    BY <1>6, <2>1 DEF Streaming, I!StreamAgrees
<1>7. CASE I!IPush
  <2> PICK m : isock' = I!Sent(isock, m)
    BY <1>7 DEF I!IPush
  <2>1. (\A t \in Slots : isock'[t].state = isock[t].state) /\ DOMAIN isock' = Slots
    BY DEF I!Sent, I!Socket
  <2> QED
    BY <1>6, <1>7, <2>1 DEF I!IPush, I!ihook
<1>8. ASSUME NEW s \in Slots, I!IOnMessage(s) PROVE Streaming'
  <2>1. (\A t \in Slots : isock'[t].state = isock[t].state) /\ DOMAIN isock' = Slots
    BY <1>8 DEF I!IOnMessage, I!Taken, I!Socket, IInv, ITypes, Pool
  <2> QED
    BY <1>6, <1>8, <2>1 DEF I!IOnMessage
<1>9. ASSUME \/ \E g \in 0..MaxGen : I!RestAnswer(g) \/ I!RestFails(g)
             \/ UNCHANGED <<build, infraVars>>
      PROVE Streaming'
  <2>1. UNCHANGED <<imounted, status, ping, ilate, isock>>
    BY <1>9 DEF I!RestAnswer, I!RestFails, infraVars
  <2>2. DOMAIN isock = Slots
    BY DEF IInv, ITypes, Pool
  <2> QED
    BY <1>6, <2>1, <2>2
<1> QED
  BY <1>1, <1>2, <1>3, <1>4, <1>5, <1>7, <1>8, <1>9, StreamOpen, StreamReconnect DEF I!INext

----------------------------------------------------------------------------
(***************************************************************************
 Sequences of numbers: what is taken from them, put at their ends or in front.
 ***************************************************************************)
Rising(q) == \A i, j \in 1..Len(q) : i < j => q[i] < q[j]
Below(q, n) == \A i \in 1..Len(q) : q[i] < n
Distinct(q) == \A i, j \in 1..Len(q) : q[i] = q[j] => i = j

LEMMA Lengths == ASSUME NEW S \in SUBSET Nat, NEW q \in Seq(S)
                 PROVE  Len(q) \in Nat /\ \A i \in 1..Len(q) : q[i] \in S /\ q[i] \in Nat
<1>1. Len(q) \in Nat /\ \A i \in 1..Len(q) : q[i] \in S
  BY LenProperties, ElementOfSeq
<1> QED
  BY <1>1

LEMMA RisingDistinct == ASSUME NEW S \in SUBSET Nat, NEW q \in Seq(S), Rising(q) PROVE Distinct(q)
<1> SUFFICES ASSUME NEW i \in 1..Len(q), NEW j \in 1..Len(q), q[i] = q[j] PROVE i = j
  BY DEF Distinct
<1>1. q[i] \in Nat /\ q[j] \in Nat /\ Len(q) \in Nat
  BY Lengths
<1>2. ~(i < j) /\ ~(j < i)
  BY <1>1 DEF Rising
<1> QED
  BY <1>1, <1>2

\* u is q with n at its end.
Grown(u, q, n, S) ==
  /\ u \in Seq(S)
  /\ Rising(q) /\ Below(q, n) => Rising(u)
  /\ \A m \in Nat : n < m /\ Below(q, m) => Below(u, m)
  /\ \A i \in 1..Len(u) : u[i] = n \/ \E j \in 1..Len(q) : u[i] = q[j]

LEMMA Appended ==
  ASSUME NEW S \in SUBSET Nat, NEW q \in Seq(S), NEW n \in S, NEW u, u = Append(q, n)
  PROVE  Grown(u, q, n, S)
<1>1. /\ u \in Seq(S) /\ Len(u) = Len(q) + 1 /\ u[Len(q) + 1] = n
      /\ \A i \in 1..Len(q) : u[i] = q[i]
  BY AppendProperties
<1>2. Len(q) \in Nat /\ \A i \in 1..Len(q) : q[i] \in Nat
  BY Lengths
<1>3. \A i \in 1..Len(u) : i = Len(q) + 1 \/ i \in 1..Len(q)
  BY <1>1, <1>2
<1>4. Rising(q) /\ Below(q, n) => Rising(u)
  <2> SUFFICES ASSUME Rising(q), Below(q, n), NEW i \in 1..Len(u), NEW j \in 1..Len(u), i < j
               PROVE  u[i] < u[j]
    BY DEF Rising
  <2>1. i \in 1..Len(q) /\ u[i] = q[i]
    BY <1>1, <1>2
  <2>2. CASE j = Len(q) + 1
    BY <1>1, <2>1, <2>2 DEF Below
  <2>3. CASE j \in 1..Len(q)
    BY <1>1, <2>1, <2>3 DEF Rising
  <2> QED
    BY <1>3, <2>2, <2>3
<1>5. \A m \in Nat : n < m /\ Below(q, m) => Below(u, m)
  BY <1>1, <1>3 DEF Below
<1>6. \A i \in 1..Len(u) : u[i] = n \/ \E j \in 1..Len(q) : u[i] = q[j]
  BY <1>1, <1>3
<1> QED
  BY <1>1, <1>4, <1>5, <1>6 DEF Grown

\* u is what q has from a to b.
IsPart(u, q, a, b, S) ==
  /\ u \in Seq(S) /\ Len(u) <= b
  /\ Len(u) = IF a <= b THEN b - a + 1 ELSE 0
  /\ \A i \in 1..Len(u) : u[i] = q[a + i - 1] /\ a + i - 1 \in 1..Len(q)
  /\ Rising(q) => Rising(u)
  /\ Distinct(q) => Distinct(u)
  /\ \A m : Below(q, m) => Below(u, m)

LEMMA Part ==
  ASSUME NEW S \in SUBSET Nat, NEW q \in Seq(S), NEW a \in Nat \ {0}, NEW b \in 0..Len(q),
         NEW u, u = SubSeq(q, a, b)
  PROVE  IsPart(u, q, a, b, S)
<1>1. Len(q) \in Nat /\ \A i \in 1..Len(q) : q[i] \in Nat
  BY Lengths
<1>2. \A i \in a..b : q[i] \in S
  BY Lengths
<1>3. /\ u \in Seq(S) /\ Len(u) = IF a <= b THEN b - a + 1 ELSE 0
      /\ \A i \in 1..(b - a + 1) : u[i] = q[a + i - 1]
  BY <1>1, <1>2, SubSeqProperties
<1>4. Len(u) <= b /\ \A i \in 1..Len(u) : u[i] = q[a + i - 1] /\ a + i - 1 \in 1..Len(q)
  BY <1>1, <1>3
<1>5. Rising(q) => Rising(u)
  <2> SUFFICES ASSUME Rising(q), NEW i \in 1..Len(u), NEW j \in 1..Len(u), i < j
               PROVE  u[i] < u[j]
    BY DEF Rising
  <2>1. a + i - 1 < a + j - 1
    BY <1>3, <1>1
  <2> QED
    BY <1>4, <2>1 DEF Rising
<1>6. Distinct(q) => Distinct(u)
  <2> SUFFICES ASSUME Distinct(q), NEW i \in 1..Len(u), NEW j \in 1..Len(u), u[i] = u[j]
               PROVE  i = j
    BY DEF Distinct
  <2>1. a + i - 1 = a + j - 1
    BY <1>4 DEF Distinct
  <2> QED
    BY <1>1, <1>3, <2>1
<1>7. \A m : Below(q, m) => Below(u, m)
  BY <1>4 DEF Below
<1> QED
  BY <1>3, <1>4, <1>5, <1>6, <1>7 DEF IsPart

LEMMA InFront ==
  ASSUME NEW S \in SUBSET Nat, NEW p \in Seq(S), NEW q \in Seq(S), NEW u, u = p \o q
  PROVE  /\ u \in Seq(S) /\ Len(u) = Len(p) + Len(q)
         /\ \A m : Below(p, m) /\ Below(q, m) => Below(u, m)
         /\ Distinct(p) /\ Distinct(q) /\ (\A i \in 1..Len(p) : Below(q, p[i])) => Distinct(u)
<1>1. /\ u \in Seq(S) /\ Len(u) = Len(p) + Len(q)
      /\ \A i \in 1..Len(p) + Len(q) : u[i] = IF i <= Len(p) THEN p[i] ELSE q[i - Len(p)]
  BY ConcatProperties
<1>2. /\ Len(p) \in Nat /\ Len(q) \in Nat
      /\ (\A i \in 1..Len(p) : p[i] \in Nat) /\ (\A i \in 1..Len(q) : q[i] \in Nat)
  BY Lengths
<1>3. \A i \in 1..Len(u) :
        \/ i \in 1..Len(p) /\ u[i] = p[i]
        \/ i > Len(p) /\ i - Len(p) \in 1..Len(q) /\ u[i] = q[i - Len(p)]
  BY <1>1, <1>2
<1>4. \A m : Below(p, m) /\ Below(q, m) => Below(u, m)
  BY <1>3 DEF Below
<1>5. Distinct(p) /\ Distinct(q) /\ (\A i \in 1..Len(p) : Below(q, p[i])) => Distinct(u)
  <2> SUFFICES ASSUME Distinct(p), Distinct(q), \A i \in 1..Len(p) : Below(q, p[i]),
                      NEW i \in 1..Len(u), NEW j \in 1..Len(u), u[i] = u[j]
               PROVE  i = j
    BY DEF Distinct
  <2>1. CASE i \in 1..Len(p) /\ u[i] = p[i] /\ j \in 1..Len(p) /\ u[j] = p[j]
    BY <2>1 DEF Distinct
  <2>2. \A k, l : k \in 1..Len(p) /\ l \in 1..Len(q) => q[l] # p[k]
    <3> SUFFICES ASSUME NEW k, NEW l, k \in 1..Len(p), l \in 1..Len(q) PROVE q[l] # p[k]
      OBVIOUS
    <3>1. q[l] < p[k] /\ q[l] \in Nat /\ p[k] \in Nat
      BY <1>2 DEF Below
    <3> QED
      BY <3>1
  <2>3. CASE /\ i > Len(p) /\ i - Len(p) \in 1..Len(q) /\ u[i] = q[i - Len(p)]
             /\ j > Len(p) /\ j - Len(p) \in 1..Len(q) /\ u[j] = q[j - Len(p)]
    <3>1. i - Len(p) = j - Len(p)
      BY <2>3 DEF Distinct
    <3> QED
      BY <1>1, <1>2, <3>1
  <2> QED
    BY <1>3, <2>1, <2>2, <2>3
<1> QED
  BY <1>1, <1>4, <1>5

\* A sequence of distinct elements is as long as it has elements.
LEMMA DistinctFits == ASSUME NEW S \in SUBSET Nat, NEW q \in Seq(S), Distinct(q) PROVE T!NoRepeats(q)
<1>1. Len(q) \in Nat /\ DOMAIN q = 1..Len(q)
  BY LenProperties
<1> DEFINE Places == 1..Len(q)
           E == {q[i] : i \in DOMAIN q}
<1>2. q \in [Places -> E] /\ q \in Surjection(Places, E)
  <2>1. q = [i \in Places |-> q[i]]
    BY <1>1
  <2>2. q \in [Places -> E]
    BY <1>1, <2>1
  <2> QED
    BY <1>1, <2>2 DEF Surjection
<1>3. q \in Injection(Places, E)
  <2>1. \A i, j \in Places : q[i] = q[j] => i = j
    BY DEF Distinct
  <2> HIDE DEF Places, E
  <2> QED
    BY <1>2, <2>1 DEF Injection, IsInjective
<1>4. IsFiniteSet(Places) /\ Cardinality(Places) = Len(q)
  <2>1. /\ IsFiniteSet(1..Len(q))
        /\ Cardinality(1..Len(q)) = IF 1 > Len(q) THEN 0 ELSE Len(q) - 1 + 1
    BY <1>1, FS_Interval
  <2> QED
    BY <1>1, <2>1
<1> HIDE DEF Places, E
<1>5. Cardinality(E) = Len(q)
  BY <1>2, <1>3, <1>4, FS_Surjection
<1> QED
  BY <1>5 DEF T!NoRepeats, T!Cardinality, Cardinality, E

\* u is a part of q, of n elements at most.
Shorter(u, q, n, S) ==
  /\ u \in Seq(S) /\ Len(u) <= n
  /\ Rising(q) => Rising(u)
  /\ Distinct(q) => Distinct(u)
  /\ \A m : Below(q, m) => Below(u, m)
  /\ \A i \in 1..Len(u) : \E j \in 1..Len(q) : u[i] = q[j]

\* The first n of a sequence, and the last n.
LEMMA Ends ==
  ASSUME NEW S \in SUBSET Nat, NEW q \in Seq(S), NEW n \in Nat, NEW u,
         u = T!Newest(q, n) \/ u = T!Last(q, n)
  PROVE  Shorter(u, q, n, S)
<1>1. Len(q) \in Nat
  BY Lengths
<1>2. CASE u = T!Newest(q, n)
  <2> PICK a, b : a = 1 /\ b = IF Len(q) < n THEN Len(q) ELSE n
    OBVIOUS
  <2>1. b \in 0..Len(q) /\ b <= n /\ a \in Nat \ {0} /\ u = SubSeq(q, a, b)
    BY <1>1, <1>2 DEF T!Newest
  <2>2. IsPart(u, q, a, b, S)
    BY <2>1, Part
  <2>3. Len(u) <= n
    BY <2>1, <2>2 DEF IsPart
  <2>4. \A i \in 1..Len(u) : \E j \in 1..Len(q) : u[i] = q[j]
    BY <2>2 DEF IsPart
  <2> QED
    BY <2>2, <2>3, <2>4 DEF IsPart, Shorter
<1>3. CASE u = T!Last(q, n) /\ Len(q) > n
  <2> PICK a, b : a = Len(q) - n + 1 /\ b = Len(q)
    OBVIOUS
  <2>1. a \in Nat \ {0} /\ b \in 0..Len(q) /\ u = SubSeq(q, a, b)
    BY <1>1, <1>3 DEF T!Last
  <2>2. IsPart(u, q, a, b, S)
    BY <2>1, Part
  <2>3. Len(u) <= n
    BY <1>1, <2>1, <2>2 DEF IsPart
  <2>4. \A i \in 1..Len(u) : \E j \in 1..Len(q) : u[i] = q[j]
    BY <2>2 DEF IsPart
  <2> QED
    BY <2>2, <2>3, <2>4 DEF IsPart, Shorter
<1>4. CASE u = q /\ Len(q) <= n
  BY <1>4 DEF Shorter
<1> QED
  BY <1>1, <1>2, <1>3, <1>4 DEF T!Last

----------------------------------------------------------------------------
(***************************************************************************
 Types with the messages in them.
 ***************************************************************************)
Kind(M) == [state : States, run : 0..MaxRuns, inbox : Seq(M)]

LEMMA Made ==
  ASSUME NEW M
  PROVE  /\ \A st \in States, r \in 0..MaxRuns, q \in Seq(M) : T!Socket(st, r, q) \in Kind(M)
         /\ T!Free \in Kind(M) /\ \A r \in 0..MaxRuns : T!New(r) \in Kind(M)
<1>1. << >> \in Seq(M)
  OBVIOUS
<1>2. 0 \in 0..MaxRuns
  BY BoundsAssumption
<1>3. \A st \in States, r \in 0..MaxRuns, q \in Seq(M) : T!Socket(st, r, q) \in Kind(M)
  BY DEF T!Socket, Kind
<1> QED
  BY <1>1, <1>2, <1>3 DEF T!Free, T!New, States

LEMMA ClosingTyped ==
  ASSUME NEW M, NEW ws \in [Slots -> Kind(M)], NEW s
  PROVE  T!Closing(ws, s) \in [Slots -> Kind(M)]
<1>1. << >> \in Seq(M)
  OBVIOUS
<1>2. \A t \in Slots : T!Socket("closing", ws[t].run, << >>) \in Kind(M)
  <2> TAKE t \in Slots
  <2>1. ws[t].run \in 0..MaxRuns /\ "closing" \in States
    BY DEF Kind, States
  <2> QED
    BY <1>1, <2>1, Made
<1> QED
  BY <1>2 DEF T!Closing

LEMMA ConnectTyped ==
  ASSUME NEW M, NEW ws \in [Slots -> Kind(M)], NEW r \in 0..MaxRuns, T!Connect(ws, r),
         current \in Slots \cup {NoSock}
  PROVE  /\ sock' \in [Slots -> Kind(M)] /\ current' \in Slots \cup {NoSock}
         /\ \A t \in Slots : \/ sock'[t] = ws[t]
                             \/ sock'[t].state = "connecting" /\ sock'[t].inbox = << >>
<1>1. CASE sock' = ws /\ UNCHANGED current
  BY <1>1
<1>2. CASE /\ T!HasFree(ws) /\ current' = T!FreeSlot(ws)
           /\ sock' = [ws EXCEPT ![T!FreeSlot(ws)] = T!New(r)]
  <2>1. T!FreeSlot(ws) \in Slots
    BY <1>2, SlotFound
  <2>2. T!New(r) \in Kind(M) /\ T!New(r).state = "connecting" /\ T!New(r).inbox = << >>
    BY Made DEF T!New, T!Socket
  <2> QED
    BY <1>2, <2>1, <2>2
<1> QED
  BY <1>1, <1>2 DEF T!Connect

LEMMA SentTyped ==
  ASSUME NEW M, NEW ws \in [Slots -> Kind(M)], NEW m \in M
  PROVE  /\ T!Sent(ws, m) \in [Slots -> Kind(M)]
         /\ \A t \in Slots : /\ T!Sent(ws, m)[t].state = ws[t].state
                             /\ ws[t].state # "open" => T!Sent(ws, m)[t] = ws[t]
                             /\ ws[t].state = "open" =>
                                  T!Sent(ws, m)[t].inbox = Append(ws[t].inbox, m)
<1>1. \A t \in Slots : T!Socket("open", ws[t].run, Append(ws[t].inbox, m)) \in Kind(M)
  <2> TAKE t \in Slots
  <2>1. ws[t].run \in 0..MaxRuns /\ "open" \in States /\ ws[t].inbox \in Seq(M)
    BY DEF Kind, States
  <2>2. Append(ws[t].inbox, m) \in Seq(M)
    BY <2>1, AppendProperties
  <2> QED
    BY <2>1, <2>2, Made
<1> QED
  BY <1>1 DEF T!Sent, T!Socket

LEMMA TakenTyped ==
  ASSUME NEW M, NEW ws \in [Slots -> Kind(M)], NEW s \in Slots, ws[s].inbox # << >>
  PROVE  /\ T!Taken(ws, s) \in [Slots -> Kind(M)] /\ Head(ws[s].inbox) \in M
         /\ T!Taken(ws, s)[s].state = ws[s].state
         /\ T!Taken(ws, s)[s].inbox = Tail(ws[s].inbox)
         /\ \A t \in Slots \ {s} : T!Taken(ws, s)[t] = ws[t]
<1>1. ws[s].run \in 0..MaxRuns /\ ws[s].state \in States /\ ws[s].inbox \in Seq(M)
  BY DEF Kind
<1>2. Tail(ws[s].inbox) \in Seq(M) /\ Head(ws[s].inbox) \in M
  BY <1>1, HeadTailProperties
<1>3. T!Socket(ws[s].state, ws[s].run, Tail(ws[s].inbox)) \in Kind(M)
  BY <1>1, <1>2, Made
<1> QED
  BY <1>2, <1>3 DEF T!Taken, T!Socket

\* Opening, freeing.
LEMMA SetTyped ==
  ASSUME NEW M, NEW ws \in [Slots -> Kind(M)], NEW s \in Slots
  PROVE  /\ T!Freed(ws, s) \in [Slots -> Kind(M)] /\ T!Freed(ws, s)[s] = T!Free
         /\ T!Opened(ws, s) \in [Slots -> Kind(M)]
         /\ T!Opened(ws, s)[s].inbox = ws[s].inbox /\ T!Opened(ws, s)[s].state = "open"
         /\ \A t \in Slots \ {s} : T!Freed(ws, s)[t] = ws[t] /\ T!Opened(ws, s)[t] = ws[t]
<1>1. ws[s].run \in 0..MaxRuns /\ "open" \in States /\ ws[s].inbox \in Seq(M)
  BY DEF Kind, States
<1>2. T!Socket("open", ws[s].run, ws[s].inbox) \in Kind(M) /\ T!Free \in Kind(M)
  BY <1>1, Made
<1> QED
  BY <1>2 DEF T!Freed, T!Opened, T!Socket

LEMMA TimersKeep ==
  ASSUME NEW t \in Timers
  PROVE  /\ T!SetTimer(t) \in Timers /\ T!ClearTimer(t) \in Timers /\ T!NoTimer \in Timers
         /\ \A u \in T!Fired(t) : u \in Timers
<1>1. t.held \in BOOLEAN /\ t.loose \in Nat
  BY DEF Timers
<1>2. [t EXCEPT !.held = FALSE] \in Timers
  BY DEF Timers
<1>3. t.loose > 0 => [t EXCEPT !.loose = @ - 1] \in Timers
  BY <1>1 DEF Timers
<1>4. T!SetTimer(t) \in Timers
  BY <1>1 DEF T!SetTimer, Timers
<1> QED
  BY <1>2, <1>3, <1>4 DEF T!ClearTimer, T!NoTimer, T!Fired, Timers

----------------------------------------------------------------------------
(***************************************************************************
 What the threat map shows.  Until a close event came late, only the live socket
 has messages waiting; they come in the order of the broadcasts, after all that is
 in the buffer and in the stores, and what is in the buffer came after the events
 in the store.
 ***************************************************************************)
Later(n) == Below(buffer, n) /\ Below(events, n) /\ Below(notes, n)

Waits(b) ==
  /\ \A i, j \in 1..Len(b) : i < j => b[i].id < b[j].id
  /\ \A i \in 1..Len(b) : b[i].id <= sent /\ Later(b[i].id)

InTurn ==
  /\ \A s \in Slots : Waits(sock[s].inbox)
  /\ Later(sent + 1)
  /\ Rising(buffer) /\ \A i \in 1..Len(buffer) : Below(events, buffer[i])
  /\ Distinct(events) /\ Distinct(notes)

Deaf == \A s \in Slots : sock[s].state # "open" => sock[s].inbox = << >>

TShows == T!TTypeOK /\ Deaf /\ (~late => InTurn)

Ids == 1..MaxMsgs

LEMMA TTyped ==
  ASSUME T!TTypeOK
  PROVE  /\ sock \in [Slots -> Kind(T!Messages)] /\ timer \in Timers
         /\ {buffer, events, notes} \subseteq Seq(Ids) /\ Ids \in SUBSET Nat
         /\ sent \in Nat /\ MaxMsgs \in Nat
<1>1. Ids \in SUBSET Nat /\ MaxMsgs \in Nat
  BY BoundsAssumption DEF Ids
<1>2. sock \in [Slots -> Kind(T!Messages)]
  BY DEF T!TTypeOK, T!SocketsOver, Kind, States
<1>3. timer \in Timers /\ {buffer, events, notes} \subseteq Seq(Ids) /\ sent \in Nat
  BY <1>1 DEF T!TTypeOK, Timers, Ids
<1> QED
  BY <1>1, <1>2, <1>3

\* A step of the sockets and refs: types of what it changes are given.
LEMMA TTypesMade ==
  ASSUME T!TTypeOK, sock' \in [Slots -> Kind(T!Messages)], timer' \in Timers,
         {mounted', connected', opened', late'} \subseteq BOOLEAN,
         current' \in Slots \cup {NoSock}, attempts' \in 0..MaxAttempts,
         run' \in 0..MaxRuns, faults' \in 0..MaxFaults,
         UNCHANGED <<build, events, notes, sent>>, buffer' \in {buffer, << >>}
  PROVE  T!TTypeOK'
<1>1. << >> \in Seq(1..MaxMsgs)
  OBVIOUS
<1>2. buffer' \in Seq(1..MaxMsgs)
  BY <1>1 DEF T!TTypeOK
<1>3. sock' \in T!SocketsOver(T!Messages, 0..MaxRuns)
  BY DEF T!SocketsOver, Kind, States
<1> QED
  BY <1>2, <1>3 DEF T!TTypeOK, Timers

LEMMA InTurnStays ==
  ASSUME InTurn, \A s \in Slots : sock'[s].inbox \in {sock[s].inbox, << >>},
         UNCHANGED <<events, notes, sent>>, buffer' \in {buffer, << >>}
  PROVE  InTurn'
<1>1. Len(<< >>) = 0
  OBVIOUS
<1>2. \A n : Later(n) => Later(n)'
  BY <1>1 DEF Later, Below
<1>3. ASSUME NEW s \in Slots PROVE Waits(sock[s].inbox)'
  <2> PICK b : b = sock'[s].inbox
    OBVIOUS
  <2>1. CASE b = << >>
    BY <1>1, <2>1 DEF Waits
  <2>2. CASE b = sock[s].inbox
    BY <1>2, <2>2 DEF InTurn, Waits
  <2>3. b = << >> \/ b = sock[s].inbox
    OBVIOUS
  <2> QED
    BY <2>1, <2>2, <2>3
<1>4. Later(sent + 1)'
  BY <1>2 DEF InTurn
<1>5. Rising(buffer') /\ \A i \in 1..Len(buffer') : Below(events', buffer'[i])
  BY <1>1 DEF InTurn, Rising
<1> QED
  BY <1>3, <1>4, <1>5 DEF InTurn

\* A step that gives no socket a message.
LEMMA QuietStep ==
  ASSUME TShows, sock' \in [Slots -> Kind(T!Messages)], timer' \in Timers,
         {mounted', connected', opened', late'} \subseteq BOOLEAN,
         current' \in Slots \cup {NoSock}, attempts' \in 0..MaxAttempts,
         run' \in 0..MaxRuns, faults' \in 0..MaxFaults,
         UNCHANGED <<build, events, notes, sent>>, buffer' \in {buffer, << >>},
         late => late',
         \A t \in Slots : sock'[t] = sock[t] \/ sock'[t].inbox = << >>
  PROVE  TShows'
<1>1. T!TTypeOK'
  BY TTypesMade DEF TShows
<1>2. Deaf'
  BY DEF TShows, Deaf
<1>3. ~late' => InTurn'
  <2>1. \A t \in Slots : sock'[t].inbox \in {sock[t].inbox, << >>}
    OBVIOUS
  <2> QED
    BY <2>1, InTurnStays DEF TShows
<1> QED
  BY <1>1, <1>2, <1>3 DEF TShows

LEMMA ShowsClosing ==
  ASSUME NEW M, NEW ws \in [Slots -> Kind(M)], NEW s
  PROVE  \A t \in Slots : \/ T!Closing(ws, s)[t] = ws[t]
                          \/ T!Closing(ws, s)[t].inbox = << >>
  BY DEF T!Closing, T!Socket

LEMMA ShowsMount == ASSUME TShows, T!MountHook PROVE TShows'
<1> DEFINE M == T!Messages
<1>1. sock \in [Slots -> Kind(M)] /\ T!TTypeOK
  BY TTyped DEF TShows
<1>2. /\ UNCHANGED <<build, connected, events, notes, sent, faults, late>>
      /\ mounted' = TRUE /\ opened' = FALSE /\ attempts' = 0 /\ timer' = T!NoTimer
      /\ buffer' = << >> /\ run' = IF build = "dev" THEN 2 ELSE run + 1
      /\ build # "dev" => run < MaxRuns
  BY DEF T!MountHook
<1>3. run' \in 0..MaxRuns
  <2>1. run \in 0..MaxRuns /\ MaxRuns \in Nat /\ 2 <= MaxRuns
    BY <1>1, BoundsAssumption DEF T!TTypeOK
  <2> QED
    BY <1>2, <2>1
<1>4. PICK ws \in [Slots -> Kind(M)] :
        /\ T!Connect(ws, run')
        /\ \A t \in Slots : ws[t] = sock[t] \/ ws[t].inbox = << >>
  <2>1. CASE build # "dev"
    <3>1. T!Connect(sock, run')
      BY <2>1 DEF T!MountHook
    <3> QED
      BY <1>1, <3>1
  <2>2. CASE build = "dev"
    <3> DEFINE a == T!FreeSlot(sock)
               one == [sock EXCEPT ![a] = T!New(1)]
    <3>1. T!Connect(T!Closing(one, a), run')
      BY <2>2 DEF T!MountHook
    <3>2. one \in [Slots -> Kind(M)] /\ \A t \in Slots : one[t] = sock[t] \/ one[t].inbox = << >>
      <4>1. 1 \in 0..MaxRuns
        BY BoundsAssumption
      <4>2. T!New(1) \in Kind(M) /\ T!New(1).inbox = << >>
        BY <4>1, Made DEF T!New, T!Socket
      <4> QED
        BY <1>1, <4>2
    <3> HIDE DEF one, a
    <3>3. /\ T!Closing(one, a) \in [Slots -> Kind(M)]
          /\ \A t \in Slots : \/ T!Closing(one, a)[t] = one[t]
                              \/ T!Closing(one, a)[t].inbox = << >>
      BY <3>2, ClosingTyped, ShowsClosing
    <3>4. \A t \in Slots : \/ T!Closing(one, a)[t] = sock[t]
                           \/ T!Closing(one, a)[t].inbox = << >>
      BY <3>2, <3>3
    <3> QED
      BY <3>1, <3>3, <3>4
  <2> QED
    BY <2>1, <2>2
<1> HIDE DEF M
<1>5. PICK r : r = run'
  OBVIOUS
<1>6. /\ sock' \in [Slots -> Kind(M)] /\ current' \in Slots \cup {NoSock}
      /\ \A t \in Slots : \/ sock'[t] = ws[t]
                          \/ sock'[t].state = "connecting" /\ sock'[t].inbox = << >>
  <2>1. current \in Slots \cup {NoSock}
    BY <1>1 DEF T!TTypeOK
  <2>2. r \in 0..MaxRuns /\ T!Connect(ws, r)
    BY <1>3, <1>4, <1>5
  <2> QED
    BY <2>1, <2>2, ConnectTyped
<1>7. \A t \in Slots : sock'[t] = sock[t] \/ sock'[t].inbox = << >>
  BY <1>4, <1>6
<1>8. /\ timer' \in Timers /\ attempts' \in 0..MaxAttempts /\ faults' \in 0..MaxFaults
      /\ {mounted', connected', opened', late'} \subseteq BOOLEAN
  <2>1. T!NoTimer \in Timers
    BY DEF T!NoTimer, Timers
  <2>2. 0 \in 0..MaxAttempts
    BY BoundsAssumption
  <2>3. {connected, late} \subseteq BOOLEAN /\ faults \in 0..MaxFaults
    BY <1>1 DEF T!TTypeOK
  <2> QED
    BY <1>2, <2>1, <2>2, <2>3
<1> QED
  BY <1>2, <1>3, <1>6, <1>7, <1>8, QuietStep DEF M

LEMMA ShowsUnmount == ASSUME TShows, T!UnmountHook PROVE TShows'
<1>1. sock \in [Slots -> Kind(T!Messages)] /\ T!TTypeOK /\ timer \in Timers
  BY TTyped DEF TShows
<1>2. /\ sock' = T!Closing(sock, current) /\ timer' = T!ClearTimer(timer)
      /\ current' = NoSock /\ mounted' = FALSE
      /\ UNCHANGED <<build, run, attempts, opened, connected, buffer, events, notes, sent,
                     faults, late>>
  BY DEF T!UnmountHook, T!shown
<1>3. timer' \in Timers /\ sock' \in [Slots -> Kind(T!Messages)]
  BY <1>1, <1>2, TimersKeep, ClosingTyped
<1>4. \A t \in Slots : sock'[t] = sock[t] \/ sock'[t].inbox = << >>
  BY <1>1, <1>2, ShowsClosing
<1>5. /\ {mounted', connected', opened', late'} \subseteq BOOLEAN
      /\ current' \in Slots \cup {NoSock} /\ attempts' \in 0..MaxAttempts
      /\ run' \in 0..MaxRuns /\ faults' \in 0..MaxFaults
  BY <1>1, <1>2 DEF T!TTypeOK
<1> QED
  BY <1>2, <1>3, <1>4, <1>5, QuietStep

LEMMA ShowsReconnect == ASSUME TShows, T!Reconnect PROVE TShows'
<1>1. sock \in [Slots -> Kind(T!Messages)] /\ T!TTypeOK /\ timer \in Timers
  BY TTyped DEF TShows
<1>2. /\ timer' \in T!Fired(timer) /\ T!Connect(sock, run)
      /\ UNCHANGED <<build, run, mounted, attempts, opened, connected, buffer, events, notes,
                     sent, faults, late>>
  BY DEF T!Reconnect, T!shown
<1>3. timer' \in Timers
  BY <1>1, <1>2, TimersKeep
<1>4. PICK r : r = run
  OBVIOUS
<1>5. /\ sock' \in [Slots -> Kind(T!Messages)] /\ current' \in Slots \cup {NoSock}
      /\ \A t \in Slots : \/ sock'[t] = sock[t]
                          \/ sock'[t].state = "connecting" /\ sock'[t].inbox = << >>
  <2>1. r \in 0..MaxRuns /\ current \in Slots \cup {NoSock} /\ T!Connect(sock, r)
    BY <1>1, <1>2, <1>4 DEF T!TTypeOK
  <2> QED
    BY <1>1, <2>1, ConnectTyped
<1>6. \A t \in Slots : sock'[t] = sock[t] \/ sock'[t].inbox = << >>
  BY <1>5
<1>7. /\ {mounted', connected', opened', late'} \subseteq BOOLEAN
      /\ attempts' \in 0..MaxAttempts /\ run' \in 0..MaxRuns /\ faults' \in 0..MaxFaults
  BY <1>1, <1>2 DEF T!TTypeOK
<1> QED
  BY <1>2, <1>3, <1>5, <1>6, <1>7, QuietStep

LEMMA ShowsClose ==
  ASSUME TShows, NEW s \in Slots, NEW code, T!OnClose(s, code),
         UNCHANGED <<build, run, mounted, opened, buffer, events, notes, sent>>,
         faults' \in 0..MaxFaults
  PROVE  TShows'
<1>1. sock \in [Slots -> Kind(T!Messages)] /\ T!TTypeOK /\ timer \in Timers
  BY TTyped DEF TShows
<1>2. sock' = T!Freed(sock, s)
  BY DEF T!OnClose
<1>3. /\ sock' \in [Slots -> Kind(T!Messages)]
      /\ \A t \in Slots : sock'[t] = sock[t] \/ sock'[t].inbox = << >>
  <2>1. T!Free.inbox = << >>
    BY DEF T!Free, T!Socket
  <2>2. /\ T!Freed(sock, s) \in [Slots -> Kind(T!Messages)] /\ T!Freed(sock, s)[s] = T!Free
        /\ \A t \in Slots \ {s} : T!Freed(sock, s)[t] = sock[t]
    BY <1>1, SetTyped
  <2> QED
    BY <1>2, <2>1, <2>2
<1>4. timer' \in Timers
  BY <1>1, TimersKeep DEF T!OnClose
<1>5. attempts' \in 0..MaxAttempts
  <2>1. attempts \in 0..MaxAttempts /\ MaxAttempts \in Nat
    BY <1>1, BoundsAssumption DEF T!TTypeOK
  <2>2. attempts' = attempts \/ attempts' = IF attempts < MaxAttempts THEN attempts + 1 ELSE attempts
    BY DEF T!OnClose
  <2> QED
    BY <2>1, <2>2
<1>6. /\ late' \in BOOLEAN /\ connected' \in BOOLEAN /\ current' \in Slots \cup {NoSock}
      /\ late => late'
  <2>1. late \in BOOLEAN /\ connected \in BOOLEAN /\ current \in Slots \cup {NoSock}
    BY <1>1 DEF T!TTypeOK
  <2>2. CASE ~T!InstanceMounted(s)
    BY <2>1, <2>2 DEF T!OnClose
  <2>3. CASE T!InstanceMounted(s)
    <3>1. connected' = FALSE /\ current' = NoSock /\ late' = (late \/ sock[s].run # run)
      BY <2>3 DEF T!OnClose
    <3> QED
      BY <3>1
  <2> QED
    BY <2>2, <2>3
<1>7. {mounted', opened'} \subseteq BOOLEAN /\ run' \in 0..MaxRuns
  BY <1>1 DEF T!TTypeOK
<1> QED
  BY <1>3, <1>4, <1>5, <1>6, <1>7, QuietStep

LEMMA ShowsOpen == ASSUME TShows, NEW s \in Slots, T!OnOpen(s) PROVE TShows'
<1>1. sock \in [Slots -> Kind(T!Messages)] /\ T!TTypeOK /\ timer \in Timers
  BY TTyped DEF TShows
<1>2. /\ sock[s].state = "connecting"
      /\ UNCHANGED <<build, run, mounted, current, timer, buffer, events, notes, sent, faults,
                     late>>
      /\ connected' \in {connected, TRUE} /\ opened' \in {opened, TRUE}
      /\ attempts' \in {attempts, 0}
      /\ sock' = T!Opened(sock, s) \/ sock' = T!Closing(sock, s)
  BY DEF T!OnOpen, T!shown
<1>3. sock[s].inbox = << >>
  BY <1>2 DEF TShows, Deaf
<1>4. sock' \in [Slots -> Kind(T!Messages)]
  BY <1>1, <1>2, SetTyped, ClosingTyped
<1>5. \A t \in Slots : sock'[t] = sock[t] \/ sock'[t].inbox = << >>
  <2>1. CASE sock' = T!Opened(sock, s)
    <3>1. /\ T!Opened(sock, s)[s].inbox = sock[s].inbox
          /\ \A t \in Slots \ {s} : T!Opened(sock, s)[t] = sock[t]
      BY <1>1, SetTyped
    <3> QED
      BY <1>3, <2>1, <3>1
  <2>2. CASE sock' = T!Closing(sock, s)
    BY <1>1, <2>2, ShowsClosing
  <2> QED
    BY <1>2, <2>1, <2>2
<1>6. 0 \in 0..MaxAttempts
  BY BoundsAssumption
<1>7. /\ {mounted', connected', opened', late'} \subseteq BOOLEAN
      /\ current' \in Slots \cup {NoSock} /\ attempts' \in 0..MaxAttempts
      /\ run' \in 0..MaxRuns /\ faults' \in 0..MaxFaults
  BY <1>1, <1>2, <1>6 DEF T!TTypeOK
<1> QED
  BY <1>1, <1>2, <1>4, <1>5, <1>7, QuietStep

LEMMA LaterMore == ASSUME TShows, NEW n \in Nat, NEW k \in Nat, k < n, Later(k) PROVE Later(n)
<1>1. \A q \in Seq(Ids) : \A i \in 1..Len(q) : q[i] \in Nat
  BY TTyped, Lengths DEF TShows
<1>2. \A q \in Seq(Ids) : Below(q, k) => Below(q, n)
  BY <1>1 DEF Below
<1>3. buffer \in Seq(Ids) /\ events \in Seq(Ids) /\ notes \in Seq(Ids)
  BY TTyped DEF TShows
<1> QED
  BY <1>2, <1>3 DEF Later

LEMMA ShowsBroadcast == ASSUME TShows, NEW kind \in {"event", "notification"}, T!Broadcast(kind)
                        PROVE TShows'
<1>1. sock \in [Slots -> Kind(T!Messages)] /\ T!TTypeOK /\ timer \in Timers /\ sent \in Nat
  BY TTyped DEF TShows
<1> PICK m : m = [id |-> sent + 1, kind |-> kind]
  OBVIOUS
<1>2. /\ sent < MaxMsgs /\ sent' = sent + 1 /\ sock' = T!Sent(sock, m)
      /\ UNCHANGED <<build, run, mounted, current, attempts, timer, opened, connected, buffer,
                     events, notes, faults, late>>
  BY DEF T!Broadcast, T!refs
<1>3. m \in T!Messages /\ m.id = sent + 1
  <2>1. sent + 1 \in 1..MaxMsgs
    BY <1>1, <1>2, BoundsAssumption DEF T!TTypeOK
  <2> QED
    BY <2>1 DEF T!Messages
<1>4. /\ T!Sent(sock, m) \in [Slots -> Kind(T!Messages)]
      /\ \A t \in Slots : /\ T!Sent(sock, m)[t].state = sock[t].state
                          /\ sock[t].state # "open" => T!Sent(sock, m)[t] = sock[t]
                          /\ sock[t].state = "open" =>
                               T!Sent(sock, m)[t].inbox = Append(sock[t].inbox, m)
  BY <1>1, <1>3, SentTyped
<1>5. T!TTypeOK'
  <2>1. sock' \in T!SocketsOver(T!Messages, 0..MaxRuns)
    BY <1>2, <1>4 DEF T!SocketsOver, Kind, States
  <2>2. sent' \in 0..MaxMsgs
    BY <1>1, <1>2, BoundsAssumption
  <2> QED
    BY <1>1, <1>2, <2>1, <2>2 DEF T!TTypeOK
<1>6. Deaf'
  BY <1>2, <1>4 DEF TShows, Deaf
<1>7. ASSUME ~late PROVE InTurn'
  <2>1. \A n : Later(n)' <=> Later(n)
    BY <1>2 DEF Later
  <2>2. InTurn
    BY <1>7 DEF TShows
  <2>3. Later(sent + 1)'
    <3> PICK n : n = sent' + 1
      OBVIOUS
    <3>1. sent + 1 \in Nat /\ n \in Nat /\ sent + 1 < n
      BY <1>1, <1>2
    <3>2. Later(n)
      BY <2>2, <3>1, LaterMore DEF InTurn
    <3>3. Later(n)'
      BY <2>1, <3>2
    <3> QED
      BY <3>3 DEF Later
  <2>4. ASSUME NEW s \in Slots PROVE Waits(sock[s].inbox)'
    <3> PICK b, c : b = sock[s].inbox /\ c = sock'[s].inbox
      OBVIOUS
    <3>1. Waits(b) /\ b \in Seq(T!Messages)
      BY <1>1, <2>2 DEF InTurn, Kind
    <3>2. Len(b) \in Nat /\ \A i \in 1..Len(b) : b[i] \in T!Messages
      BY <3>1, LenProperties, ElementOfSeq
    <3>3. \A i \in 1..Len(b) : b[i].id \in Nat /\ b[i].id <= sent /\ Later(b[i].id)
      BY <3>1, <3>2 DEF Waits, T!Messages
    <3>4. CASE sock[s].state = "open"
      <4>1. c = Append(b, m)
        BY <1>2, <1>4, <3>4
      <4>2. /\ Len(c) = Len(b) + 1 /\ c[Len(b) + 1] = m
            /\ \A i \in 1..Len(b) : c[i] = b[i]
        BY <1>3, <3>1, <4>1, AppendProperties
      <4>3. \A i \in 1..Len(c) : i = Len(b) + 1 \/ i \in 1..Len(b)
        BY <3>2, <4>2
      <4>4. \A i \in 1..Len(c) : c[i].id <= sent' /\ Later(c[i].id)'
        <5> TAKE i \in 1..Len(c)
        <5>1. CASE i = Len(b) + 1
          BY <1>1, <1>2, <1>3, <2>1, <2>2, <4>2, <5>1 DEF InTurn
        <5>2. CASE i \in 1..Len(b)
          <6>1. c[i] = b[i] /\ b[i].id \in Nat /\ b[i].id <= sent /\ Later(b[i].id)
            BY <3>3, <4>2, <5>2
          <6>2. b[i].id <= sent'
            BY <1>1, <1>2, <6>1
          <6>3. Later(b[i].id)'
            BY <2>1, <6>1
          <6> QED
            BY <6>1, <6>2, <6>3
        <5> QED
          BY <4>3, <5>1, <5>2
      <4>5. \A i, j \in 1..Len(c) : i < j => c[i].id < c[j].id
        <5> SUFFICES ASSUME NEW i \in 1..Len(c), NEW j \in 1..Len(c), i < j
                     PROVE  c[i].id < c[j].id
          OBVIOUS
        <5>1. i \in 1..Len(b)
          BY <3>2, <4>2
        <5>2. CASE j = Len(b) + 1
          BY <1>1, <1>3, <3>3, <4>2, <5>1, <5>2
        <5>3. CASE j \in 1..Len(b)
          BY <3>1, <4>2, <5>1, <5>3 DEF Waits
        <5> QED
          BY <4>3, <5>2, <5>3
      <4> QED
        BY <4>4, <4>5 DEF Waits
    <3>5. CASE sock[s].state # "open"
      <4>1. c = b
        BY <1>2, <1>4, <3>5
      <4>2. \A i \in 1..Len(b) : b[i].id <= sent' /\ Later(b[i].id)'
        BY <1>1, <1>2, <2>1, <3>3
      <4> QED
        BY <3>1, <4>1, <4>2 DEF Waits
    <3> QED
      BY <3>4, <3>5
  <2>5. /\ Rising(buffer') /\ \A i \in 1..Len(buffer') : Below(events', buffer'[i])
        /\ Distinct(events') /\ Distinct(notes')
    BY <1>2, <2>2 DEF InTurn
  <2> QED
    BY <2>3, <2>4, <2>5 DEF InTurn
<1> QED
  BY <1>2, <1>5, <1>6, <1>7 DEF TShows

LEMMA ShowsMessage == ASSUME TInv, TShows, NEW s \in Slots, T!OnMessage(s) PROVE TShows'
<1>1. /\ sock \in [Slots -> Kind(T!Messages)] /\ T!TTypeOK /\ sent \in Nat
      /\ buffer \in Seq(Ids) /\ events \in Seq(Ids) /\ notes \in Seq(Ids)
      /\ Ids \in SUBSET Nat
  BY TTyped DEF TShows
<1> PICK b, m, n : b = sock[s].inbox /\ m = Head(b) /\ n = m.id
  OBVIOUS
<1>2. /\ sock[s].state = "open" /\ b # << >> /\ sock' = T!Taken(sock, s)
      /\ UNCHANGED <<build, run, mounted, current, attempts, timer, opened, connected, events,
                     sent, faults, late>>
      /\ \/ notes' = T!Newest(<<n>> \o notes, NoteCap) /\ buffer' = buffer
         \/ buffer' = Append(buffer, n) /\ notes' = notes
  BY DEF T!OnMessage, T!refs
<1>3. /\ sock' \in [Slots -> Kind(T!Messages)] /\ m \in T!Messages
      /\ sock'[s].state = sock[s].state /\ sock'[s].inbox = Tail(b)
      /\ \A t \in Slots \ {s} : sock'[t] = sock[t]
  <2>1. /\ T!Taken(sock, s) \in [Slots -> Kind(T!Messages)]
        /\ Head(sock[s].inbox) \in T!Messages
        /\ T!Taken(sock, s)[s].state = sock[s].state
        /\ T!Taken(sock, s)[s].inbox = Tail(sock[s].inbox)
        /\ \A t \in Slots \ {s} : T!Taken(sock, s)[t] = sock[t]
    BY <1>1, <1>2, TakenTyped
  <2> QED
    BY <1>2, <2>1
<1>4. n \in Ids /\ n \in Nat
  BY <1>1, <1>3 DEF T!Messages, Ids
<1> PICK one, u : one = <<n>> /\ u = one \o notes
  OBVIOUS
<1>5. one \in Seq(Ids) /\ Len(one) = 1 /\ one[1] = n
  BY <1>4
<1>6. /\ u \in Seq(Ids)
      /\ \A k : Below(one, k) /\ Below(notes, k) => Below(u, k)
      /\ Distinct(one) /\ Distinct(notes) /\ (\A i \in 1..Len(one) : Below(notes, one[i]))
           => Distinct(u)
  BY <1>1, <1>5, InFront
<1> PICK w : w = T!Newest(u, NoteCap)
  OBVIOUS
<1>7. /\ w \in Seq(Ids) /\ Len(w) <= NoteCap
      /\ (Distinct(u) => Distinct(w)) /\ \A k : Below(u, k) => Below(w, k)
  BY <1>1, <1>6, BoundsAssumption, Ends DEF Shorter
<1> PICK v : v = Append(buffer, n)
  OBVIOUS
<1>8. Grown(v, buffer, n, Ids)
  BY <1>1, <1>4, Appended
<1>9. (notes' = w /\ buffer' = buffer) \/ (buffer' = v /\ notes' = notes)
  BY <1>2
<1>10. T!TTypeOK'
  <2>1. buffer' \in Seq(1..MaxMsgs) /\ notes' \in Seq(1..MaxMsgs) /\ Len(notes') <= NoteCap
    BY <1>1, <1>7, <1>8, <1>9 DEF T!TTypeOK, Ids, Grown
  <2>2. sock' \in T!SocketsOver(T!Messages, 0..MaxRuns)
    BY <1>3 DEF T!SocketsOver, Kind, States
  <2> QED
    BY <1>1, <1>2, <2>1, <2>2 DEF T!TTypeOK
<1>11. Deaf'
  BY <1>2, <1>3 DEF TShows, Deaf
<1>12. ASSUME ~late PROVE InTurn'
  <2>1. InTurn /\ Waits(b) /\ b \in Seq(T!Messages)
    BY <1>1, <1>12 DEF TShows, InTurn, Kind
  <2>2. Len(b) \in Nat /\ Len(b) # 0 /\ (\A i \in 1..Len(b) : b[i] \in T!Messages) /\ m = b[1]
    BY <1>2, <2>1, LenProperties, ElementOfSeq, EmptySeq
  <2>3. n <= sent /\ Later(n)
    BY <2>1, <2>2 DEF Waits
  <2>4. Later(sent + 1) /\ sent + 1 \in Nat /\ n < sent + 1
    BY <1>1, <1>4, <2>1, <2>3 DEF InTurn
  <2>5. ASSUME NEW k \in Nat, n < k, Later(k) PROVE Later(k)'
    <3>1. Below(one, k)
      BY <1>5, <2>5 DEF Below
    <3>2. Below(w, k)
      BY <1>6, <1>7, <2>5, <3>1 DEF Later
    <3>3. Below(v, k)
      BY <1>8, <2>5 DEF Later, Grown
    <3>4. Below(notes', k) /\ Below(buffer', k) /\ Below(events', k)
      BY <1>2, <1>9, <2>5, <3>2, <3>3 DEF Later
    <3> QED
      BY <3>4 DEF Later
  <2>6. Later(sent + 1)'
    <3> PICK k : k = sent + 1
      OBVIOUS
    <3>1. Later(k)'
      BY <2>4, <2>5
    <3>2. k = sent' + 1
      BY <1>2
    <3> QED
      BY <3>1, <3>2 DEF Later
  <2>7. ASSUME NEW t \in Slots PROVE Waits(sock[t].inbox)'
    <3> PICK c : c = sock'[t].inbox
      OBVIOUS
    <3>1. CASE t # s
      <4>1. sock[t].state # "open"
        BY <1>2, <1>12, <3>1 DEF TInv, TOrder, LiveStates
      <4>2. c = << >>
        BY <1>3, <3>1, <4>1 DEF TShows, Deaf
      <4>3. Len(<< >>) = 0
        OBVIOUS
      <4> QED
        BY <4>2, <4>3 DEF Waits
    <3>2. CASE t = s
      <4>1. c = Tail(b)
        BY <1>3, <3>2
      <4>2. Len(c) = Len(b) - 1 /\ \A i \in 1..Len(c) : c[i] = b[i + 1]
        <5>1. /\ Len(Tail(b)) = Len(b) - 1
              /\ \A i \in 1..Len(Tail(b)) : Tail(b)[i] = b[i + 1]
          BY <1>2, <2>1, HeadTailProperties
        <5> QED
          BY <4>1, <5>1
      <4>3. \A i \in 1..Len(c) : i + 1 \in 1..Len(b) /\ 1 < i + 1
        BY <2>2, <4>2
      <4>4. \A i, j \in 1..Len(c) : i < j => c[i].id < c[j].id
        <5> SUFFICES ASSUME NEW i \in 1..Len(c), NEW j \in 1..Len(c), i < j
                     PROVE  c[i].id < c[j].id
          OBVIOUS
        <5>1. i + 1 < j + 1 /\ i + 1 \in 1..Len(b) /\ j + 1 \in 1..Len(b)
          BY <4>3
        <5> QED
          BY <2>1, <4>2, <5>1 DEF Waits
      <4>5. \A i \in 1..Len(c) : c[i].id <= sent' /\ Later(c[i].id)'
        <5> TAKE i \in 1..Len(c)
        <5>1. c[i] = b[i + 1] /\ i + 1 \in 1..Len(b) /\ 1 < i + 1 /\ 1 \in 1..Len(b)
          BY <2>2, <4>2, <4>3
        <5> PICK k : k = b[i + 1].id
          OBVIOUS
        <5>2. k <= sent /\ Later(k) /\ b[1].id < k
          BY <2>1, <5>1 DEF Waits
        <5>3. k \in Nat
          BY <2>2, <5>1 DEF T!Messages
        <5>4. Later(k)'
          BY <2>2, <2>5, <5>2, <5>3
        <5> QED
          BY <1>2, <5>1, <5>2, <5>4
      <4> QED
        BY <4>4, <4>5 DEF Waits
    <3> QED
      BY <3>1, <3>2
  <2>8. Rising(buffer') /\ \A i \in 1..Len(buffer') : Below(events', buffer'[i])
    <3>1. Rising(buffer) /\ \A i \in 1..Len(buffer) : Below(events, buffer[i])
      BY <2>1 DEF InTurn
    <3>2. Rising(v) /\ \A i \in 1..Len(v) : Below(events, v[i])
      BY <1>8, <2>3, <3>1 DEF Later, Grown
    <3> QED
      BY <1>2, <1>9, <3>1, <3>2
  <2>9. Distinct(notes')
    <3>1. Distinct(one) /\ \A i \in 1..Len(one) : Below(notes, one[i])
      BY <1>5, <2>3 DEF Distinct, Later
    <3>2. Distinct(w) /\ Distinct(notes)
      BY <1>6, <1>7, <2>1, <3>1 DEF InTurn
    <3> QED
      BY <1>9, <3>2
  <2>10. Distinct(events')
    BY <1>2, <2>1 DEF InTurn
  <2> QED
    BY <2>6, <2>7, <2>8, <2>9, <2>10 DEF InTurn
<1> QED
  BY <1>2, <1>10, <1>11, <1>12 DEF TShows

\* p and r are two parts of q; if q is rising, p is below each of r.
Halved(p, r, q, S) ==
  /\ p \in Seq(S) /\ r \in Seq(S)
  /\ Rising(q) => /\ Rising(p) /\ Rising(r)
                  /\ \A i \in 1..Len(r) : Below(p, r[i])
  /\ \A m : Below(q, m) => Below(p, m) /\ Below(r, m)
  /\ \A i \in 1..Len(p) : \E j \in 1..Len(q) : p[i] = q[j]

LEMMA Halves ==
  ASSUME NEW S \in SUBSET Nat, NEW q \in Seq(S), NEW n \in Nat,
         NEW p, p = T!Newest(q, n), NEW r, r = SubSeq(q, Len(p) + 1, Len(q))
  PROVE  Halved(p, r, q, S)
<1>1. Len(q) \in Nat
  BY Lengths
<1> PICK a, b : a = 1 /\ b = IF Len(q) < n THEN Len(q) ELSE n
  OBVIOUS
<1>2. b \in 0..Len(q) /\ a \in Nat \ {0} /\ p = SubSeq(q, a, b)
  BY <1>1 DEF T!Newest
<1>3. IsPart(p, q, a, b, S)
  BY <1>2, Part
<1>4. Len(p) = b
  BY <1>2, <1>3 DEF IsPart
<1> PICK d, e : d = Len(p) + 1 /\ e = Len(q)
  OBVIOUS
<1>5. d \in Nat \ {0} /\ e \in 0..Len(q) /\ r = SubSeq(q, d, e)
  BY <1>1, <1>2, <1>4
<1>6. IsPart(r, q, d, e, S)
  BY <1>5, Part
<1>7. ASSUME Rising(q), NEW i \in 1..Len(r), NEW j \in 1..Len(p) PROVE p[j] < r[i]
  <2>1. r[i] = q[d + i - 1] /\ d + i - 1 \in 1..Len(q)
    BY <1>6 DEF IsPart
  <2>2. p[j] = q[a + j - 1] /\ a + j - 1 \in 1..Len(q)
    BY <1>3 DEF IsPart
  <2>3. a + j - 1 < d + i - 1
    BY <1>2, <1>4
  <2> QED
    BY <1>7, <2>1, <2>2, <2>3 DEF Rising
<1>8. Rising(q) => \A i \in 1..Len(r) : Below(p, r[i])
  BY <1>7 DEF Below
<1>9. \A i \in 1..Len(p) : \E j \in 1..Len(q) : p[i] = q[j]
  BY <1>3 DEF IsPart
<1> QED
  BY <1>3, <1>6, <1>8, <1>9 DEF IsPart, Halved

LEMMA ShowsFlush == ASSUME TShows, T!Flush PROVE TShows'
<1>1. /\ T!TTypeOK /\ sent \in Nat
      /\ buffer \in Seq(Ids) /\ events \in Seq(Ids) /\ notes \in Seq(Ids)
      /\ Ids \in SUBSET Nat
  BY TTyped DEF TShows
<1>a. BufferCap \in Nat /\ FlushBatch \in Nat /\ StoreCap \in Nat
  BY BoundsAssumption
<1> PICK kept : kept = T!Last(buffer, BufferCap)
  OBVIOUS
<1> PICK p : p = T!Newest(kept, FlushBatch)
  OBVIOUS
<1> PICK r : r = SubSeq(kept, Len(p) + 1, Len(kept))
  OBVIOUS
<1> PICK u : u = p \o events
  OBVIOUS
<1> PICK w : w = T!Newest(u, StoreCap)
  OBVIOUS
<1>2. /\ buffer' = r /\ events' = w
      /\ UNCHANGED <<build, sock, run, mounted, current, attempts, timer, opened, connected,
                     notes, sent, faults, late>>
  BY DEF T!Flush, T!refs
<1>3. /\ kept \in Seq(Ids) /\ (Rising(buffer) => Rising(kept))
      /\ \A m : Below(buffer, m) => Below(kept, m)
      /\ \A i \in 1..Len(kept) : \E j \in 1..Len(buffer) : kept[i] = buffer[j]
  <2>1. Shorter(kept, buffer, BufferCap, Ids)
    BY <1>1, <1>a, Ends
  <2> QED
    BY <2>1 DEF Shorter
<1>4. /\ p \in Seq(Ids) /\ r \in Seq(Ids)
      /\ Rising(kept) => /\ Rising(p) /\ Rising(r)
                         /\ \A i \in 1..Len(r) : Below(p, r[i])
      /\ \A m : Below(kept, m) => Below(p, m) /\ Below(r, m)
      /\ \A i \in 1..Len(p) : \E j \in 1..Len(kept) : p[i] = kept[j]
  <2>1. Halved(p, r, kept, Ids)
    BY <1>1, <1>3, <1>a, Halves
  <2> QED
    BY <2>1 DEF Halved
<1>5. /\ u \in Seq(Ids)
      /\ \A m : Below(p, m) /\ Below(events, m) => Below(u, m)
      /\ Distinct(p) /\ Distinct(events) /\ (\A i \in 1..Len(p) : Below(events, p[i]))
           => Distinct(u)
  BY <1>1, <1>4, InFront
<1>6. /\ w \in Seq(Ids) /\ Len(w) <= StoreCap
      /\ (Distinct(u) => Distinct(w)) /\ \A m : Below(u, m) => Below(w, m)
  BY <1>1, <1>5, <1>a, Ends DEF Shorter
<1>7. T!TTypeOK'
  BY <1>1, <1>2, <1>4, <1>6 DEF T!TTypeOK, Ids
<1>8. Deaf'
  BY <1>2 DEF TShows, Deaf
<1>9. ASSUME ~late PROVE InTurn'
  <2>1. InTurn
    BY <1>9 DEF TShows
  <2>2. \A m : Below(buffer, m) /\ Below(events, m) => Below(r, m) /\ Below(w, m)
    BY <1>3, <1>4, <1>5, <1>6
  <2>3. \A m : Later(m) => Later(m)'
    BY <1>2, <2>2 DEF Later
  <2>4. Later(sent + 1)'
    <3> PICK k : k = sent + 1
      OBVIOUS
    <3>1. Later(k)' /\ k = sent' + 1
      BY <1>2, <2>1, <2>3 DEF InTurn
    <3> QED
      BY <3>1 DEF Later
  <2>5. \A s \in Slots : Waits(sock[s].inbox)'
    BY <1>2, <2>1, <2>3 DEF InTurn, Waits
  <2>6. Rising(kept) /\ Rising(p) /\ Rising(r) /\ \A i \in 1..Len(r) : Below(p, r[i])
    BY <1>3, <1>4, <2>1 DEF InTurn
  <2>7. \A i \in 1..Len(kept) : Below(events, kept[i])
    BY <1>3, <2>1 DEF InTurn
  <2>8. \A i \in 1..Len(r) : Below(w, r[i])
    <3> TAKE i \in 1..Len(r)
    <3>1. \E j \in 1..Len(kept) : r[i] = kept[j]
      <4>1. Len(kept) \in Nat /\ Len(p) \in Nat
        BY <1>1, <1>3, <1>4, Lengths
      <4> PICK d, e : d = Len(p) + 1 /\ e = Len(kept)
        OBVIOUS
      <4>2. d \in Nat \ {0} /\ e \in 0..Len(kept) /\ r = SubSeq(kept, d, e)
        BY <4>1
      <4>3. IsPart(r, kept, d, e, Ids)
        BY <1>1, <1>3, <4>2, Part
      <4> QED
        BY <4>3 DEF IsPart
    <3>2. Below(events, r[i])
      BY <2>7, <3>1
    <3> QED
      BY <1>5, <1>6, <2>6, <3>2
  <2>9. Distinct(w)
    <3>1. Distinct(p)
      BY <1>1, <1>4, <2>6, RisingDistinct
    <3>2. \A i \in 1..Len(p) : Below(events, p[i])
      BY <1>4, <2>7
    <3> QED
      BY <1>5, <1>6, <2>1, <3>1, <3>2 DEF InTurn
  <2> QED
    BY <1>2, <2>1, <2>4, <2>5, <2>6, <2>8, <2>9 DEF InTurn
<1> QED
  BY <1>2, <1>7, <1>8, <1>9 DEF TShows

LEMMA ShowsStep ==
  ASSUME TInv, TShows, T!TNext \/ UNCHANGED <<build, threatVars>> PROVE TShows'
<1>1. T!TTypeOK
  BY DEF TShows
<1>2. ASSUME NEW s \in Slots, NEW given, T!Refused(s, given) PROVE TShows'
  <2>1. /\ T!OnClose(s, T!CloseCode(sock[s].state, given)) /\ faults < MaxFaults
        /\ faults' = faults + 1
        /\ UNCHANGED <<build, run, mounted, opened, buffer, events, notes, sent>>
    BY <1>2 DEF T!Refused, T!shown
  <2>2. faults' \in 0..MaxFaults
    BY <1>1, <2>1, BoundsAssumption DEF T!TTypeOK
  <2> QED
    BY <2>1, <2>2, ShowsClose
<1>3. ASSUME NEW s \in Slots, T!Lost(s) PROVE TShows'
  <2>1. /\ T!OnClose(s, T!CloseCode(sock[s].state, 1006)) /\ faults < MaxFaults
        /\ faults' = faults + 1
        /\ UNCHANGED <<build, run, mounted, opened, buffer, events, notes, sent>>
    BY <1>3 DEF T!Lost, T!shown
  <2>2. faults' \in 0..MaxFaults
    BY <1>1, <2>1, BoundsAssumption DEF T!TTypeOK
  <2> QED
    BY <2>1, <2>2, ShowsClose
<1>4. ASSUME NEW s \in Slots, T!CloseDone(s) PROVE TShows'
  <2>1. /\ T!OnClose(s, T!CloseCode(sock[s].state, 1000))
        /\ UNCHANGED <<build, run, mounted, opened, buffer, events, notes, sent>>
        /\ faults' \in 0..MaxFaults
    BY <1>1, <1>4 DEF T!CloseDone, T!shown, T!TTypeOK
  <2> QED
    BY <2>1, ShowsClose
<1>5. CASE UNCHANGED <<build, threatVars>>
  <2>1. UNCHANGED <<build, sock, run, mounted, current, attempts, timer, connected, opened,
                    buffer, events, notes, sent, faults, late>>
    BY <1>5 DEF threatVars
  <2>2. T!TTypeOK'
    BY <1>1, <2>1 DEF T!TTypeOK
  <2>3. Deaf' /\ (~late' => InTurn')
    BY <2>1 DEF TShows, Deaf, InTurn, Waits, Later
  <2> QED
    BY <2>2, <2>3 DEF TShows
<1> QED
  BY <1>2, <1>3, <1>4, <1>5, ShowsMount, ShowsUnmount, ShowsReconnect, ShowsOpen,
     ShowsBroadcast, ShowsMessage, ShowsFlush DEF T!TNext

LEMMA ShowsInit == T!TInit => TShows
<1> SUFFICES ASSUME T!TInit PROVE TShows
  OBVIOUS
<1>1. /\ << >> \in Seq(1..MaxMsgs) /\ Len(<< >>) = 0
  OBVIOUS
<1>2. sock \in [Slots -> Kind(T!Messages)] /\ \A s \in Slots : sock[s].inbox = << >>
  <2>1. T!Free \in Kind(T!Messages)
    BY Made
  <2>2. T!Free.inbox = << >>
    BY DEF T!Free, T!Socket
  <2> QED
    BY <2>1, <2>2 DEF T!TInit
<1>3. T!TTypeOK
  <2>1. sock \in T!SocketsOver(T!Messages, 0..MaxRuns)
    BY <1>2 DEF T!SocketsOver, Kind, States
  <2>2. timer \in [held : BOOLEAN, loose : Nat]
    BY DEF T!TInit, T!NoTimer
  <2>3. {buffer, events, notes} \subseteq Seq(1..MaxMsgs)
    BY <1>1 DEF T!TInit
  <2> QED
    <3>1. /\ build \in {"production", "dev"} /\ {mounted, connected, opened, late} \subseteq BOOLEAN
          /\ run = 0 /\ sent = 0 /\ faults = 0 /\ attempts = 0 /\ current = NoSock
          /\ Len(events) = 0 /\ Len(notes) = 0
      BY <1>1 DEF T!TInit
    <3>2. /\ 0 \in 0..MaxRuns /\ 0 \in 0..MaxMsgs /\ 0 \in 0..MaxFaults /\ 0 \in 0..MaxAttempts
          /\ 0 <= StoreCap /\ 0 <= NoteCap
      BY BoundsAssumption
    <3> QED
      BY <2>1, <2>2, <2>3, <3>1, <3>2 DEF T!TTypeOK
<1>4. InTurn
  BY <1>1, <1>2 DEF T!TInit, InTurn, Waits, Later, Below, Rising, Distinct
<1> QED
  BY <1>2, <1>3, <1>4 DEF TShows, Deaf

LEMMA ShowsOnce == ASSUME TShows PROVE T!ShownOnce
<1> SUFFICES ASSUME ~late PROVE T!NoRepeats(buffer \o events) /\ T!NoRepeats(notes)
  BY DEF T!ShownOnce
<1>1. /\ buffer \in Seq(Ids) /\ events \in Seq(Ids) /\ notes \in Seq(Ids)
      /\ Ids \in SUBSET Nat /\ InTurn
  BY TTyped DEF TShows
<1> PICK u : u = buffer \o events
  OBVIOUS
<1>2. /\ u \in Seq(Ids)
      /\ Distinct(buffer) /\ Distinct(events) /\ (\A i \in 1..Len(buffer) : Below(events, buffer[i]))
           => Distinct(u)
  BY <1>1, InFront
<1>3. Distinct(buffer)
  BY <1>1, RisingDistinct DEF InTurn
<1>4. Distinct(u) /\ Distinct(notes)
  BY <1>1, <1>2, <1>3 DEF InTurn
<1> QED
  BY <1>1, <1>2, <1>4, DistinctFits

----------------------------------------------------------------------------
(***************************************************************************
 The types of the infrastructure hook.
 ***************************************************************************)
Gens == 1..MaxGen

LEMMA SameMessages ==
  ASSUME NEW ws, NEW s
  PROVE  /\ \A m : I!Sent(ws, m) = T!Sent(ws, m)
         /\ I!Taken(ws, s) = T!Taken(ws, s) /\ I!Freed(ws, s) = T!Freed(ws, s)
<1>1. \A m : I!Sent(ws, m) = T!Sent(ws, m)
  BY DEF I!Sent, T!Sent, I!Socket, T!Socket
<1>2. I!Taken(ws, s) = T!Taken(ws, s)
  BY DEF I!Taken, T!Taken, I!Socket, T!Socket
<1>3. I!Freed(ws, s) = T!Freed(ws, s)
  BY DEF I!Freed, T!Freed, I!Free, T!Free, I!Socket, T!Socket
<1> QED
  BY <1>1, <1>2, <1>3

LEMMA SameTimers ==
  ASSUME NEW t
  PROVE  /\ I!SetTimer(t) = T!SetTimer(t) /\ I!ClearTimer(t) = T!ClearTimer(t)
         /\ I!NoTimer = T!NoTimer /\ I!Fired(t) = T!Fired(t)
  BY DEF I!SetTimer, T!SetTimer, I!ClearTimer, T!ClearTimer, I!NoTimer, T!NoTimer, I!Fired, T!Fired

IShape ==
  /\ isock \in [Slots -> Kind(Gens)] /\ itimer \in Timers
  /\ {iref, ping} \subseteq Slots \cup {NoSock}

IRest ==
  /\ build \in {"production", "dev"}
  /\ irun \in 0..MaxRuns /\ ifaults \in 0..MaxFaults /\ retry \in 0..MaxAttempts
  /\ {imounted, error, ilate} \subseteq BOOLEAN
  /\ status \in {"connecting", "live", "reconnecting", "offline"}
  /\ overview \in 0..MaxGen /\ gen \in 1..MaxGen
  /\ asked \in [0..MaxGen -> Nat]

LEMMA ITyped == I!ITypeOK <=> IShape /\ IRest
<1>1. I!SocketsOver(1..MaxGen, 0..MaxRuns) = [Slots -> Kind(Gens)]
  BY DEF I!SocketsOver, Kind, States, Gens
<1> QED
  BY <1>1 DEF I!ITypeOK, IShape, IRest, Timers

LEMMA Bounds ==
  /\ MaxRuns \in Nat /\ 2 <= MaxRuns /\ MaxGen \in Nat /\ MaxGen # 0
  /\ MaxFaults \in Nat /\ MaxAttempts \in Nat /\ MaxAsks \in Nat
  BY BoundsAssumption

LEMMA Asked ==
  ASSUME NEW a \in [0..MaxGen -> Nat], NEW n \in Nat, gen \in 1..MaxGen
  PROVE  I!Ask(a, n) \in [0..MaxGen -> Nat]
<1>1. gen \in 0..MaxGen /\ a[gen] + n \in Nat
  BY Bounds
<1> QED
  BY <1>1 DEF I!Ask

LEMMA IConnectTyped ==
  ASSUME NEW ws \in [Slots -> Kind(Gens)], NEW r \in 0..MaxRuns, I!IConnect(ws, r)
  PROVE  isock' \in [Slots -> Kind(Gens)] /\ iref' \in Slots
<1> PICK a : a = T!FreeSlot(ws)
  OBVIOUS
<1>1. /\ T!HasFree(ws) /\ iref' = a
      /\ isock' = [ws EXCEPT ![a] = T!New(r)]
  BY SameSockets DEF I!IConnect
<1>2. a \in Slots
  BY <1>1, SlotFound
<1>3. T!New(r) \in Kind(Gens)
  BY Made
<1> QED
  BY <1>1, <1>2, <1>3

LEMMA ITypesMount == ASSUME I!ITypeOK, I!MountStream PROVE I!ITypeOK'
<1>1. IShape /\ IRest
  BY ITyped
<1>2. /\ irun' = IF build = "dev" THEN 2 ELSE irun + 1
      /\ build # "dev" => irun < MaxRuns
      /\ imounted' = TRUE /\ retry' = 0 /\ itimer' = T!NoTimer /\ ping' = NoSock
      /\ status' = "connecting" /\ error' = FALSE /\ overview' = 0
      /\ asked' = I!Ask(I!NoneAsked, IF build = "dev" THEN 2 ELSE 1)
      /\ UNCHANGED <<build, gen, ifaults, ilate>>
  BY SameTimers DEF I!MountStream
<1>3. irun' \in 0..MaxRuns
  BY <1>1, <1>2, Bounds DEF IRest
<1>4. isock' \in [Slots -> Kind(Gens)] /\ iref' \in Slots
  <2> PICK r : r = irun'
    OBVIOUS
  <2>1. CASE build # "dev"
    <3>1. I!IConnect(isock, r)
      BY <2>1 DEF I!MountStream
    <3> QED
      BY <1>1, <1>3, <3>1, IConnectTyped DEF IShape
  <2>2. CASE build = "dev"
    <3> DEFINE a == T!FreeSlot(isock)
               one == [isock EXCEPT ![a] = T!New(1)]
    <3>1. I!IConnect(T!Closing(one, a), r)
      BY <2>2, SameSockets DEF I!MountStream
    <3>2. one \in [Slots -> Kind(Gens)]
      <4>1. 1 \in 0..MaxRuns
        BY Bounds
      <4>2. T!New(1) \in Kind(Gens)
        BY <4>1, Made
      <4> QED
        BY <1>1, <4>2 DEF IShape
    <3> HIDE DEF one, a
    <3>3. T!Closing(one, a) \in [Slots -> Kind(Gens)]
      BY <3>2, ClosingTyped
    <3> QED
      BY <1>3, <3>1, <3>3, IConnectTyped
  <2> QED
    BY <2>1, <2>2
<1>5. asked' \in [0..MaxGen -> Nat]
  <2>1. I!NoneAsked \in [0..MaxGen -> Nat]
    BY DEF I!NoneAsked
  <2>2. 2 \in Nat /\ 1 \in Nat /\ gen \in 1..MaxGen
    BY <1>1 DEF IRest
  <2>3. /\ I!Ask(I!NoneAsked, 2) \in [0..MaxGen -> Nat]
        /\ I!Ask(I!NoneAsked, 1) \in [0..MaxGen -> Nat]
    BY <2>1, <2>2, Asked
  <2> QED
    BY <1>2, <2>3
<1>6. T!NoTimer \in Timers
  BY DEF T!NoTimer, Timers
<1>7. IShape'
  BY <1>2, <1>4, <1>6 DEF IShape
<1>8. 0 \in 0..MaxAttempts /\ 0 \in 0..MaxGen
  BY Bounds
<1>9. IRest'
  BY <1>1, <1>2, <1>3, <1>5, <1>8 DEF IRest
<1>10. (IShape /\ IRest)' => I!ITypeOK'
  BY DEF IShape, IRest, I!ITypeOK, I!SocketsOver, Kind, States, Gens, Timers
<1> QED
  BY <1>7, <1>9, <1>10

LEMMA ITypesClose ==
  ASSUME IShape, IRest, NEW s \in Slots, NEW code, I!IOnClose(s, code),
         UNCHANGED <<build, irun, imounted, iref, overview, gen>>, ifaults' \in 0..MaxFaults
  PROVE  IShape' /\ IRest'
<1>1. isock' \in [Slots -> Kind(Gens)]
  <2>1. isock' = T!Freed(isock, s) /\ isock \in [Slots -> Kind(Gens)]
    BY SameMessages DEF I!IOnClose, IShape
  <2>2. T!Freed(isock, s) \in [Slots -> Kind(Gens)]
    BY <2>1, SetTyped
  <2> QED
    BY <2>1, <2>2
<1>2. ping' \in {ping, NoSock}
  BY DEF I!IOnClose
<1>3. itimer' \in Timers
  <2>1. T!SetTimer(itimer) \in Timers /\ itimer \in Timers
    BY TimersKeep DEF IShape
  <2> QED
    BY <2>1, SameTimers DEF I!IOnClose, I!ScheduleReconnect
<1>4. retry' \in 0..MaxAttempts /\ asked' \in [0..MaxGen -> Nat]
  <2>1. I!Ask(asked, 1) \in [0..MaxGen -> Nat]
    BY Asked DEF IRest
  <2>2. (IF retry < MaxAttempts THEN retry + 1 ELSE retry) \in 0..MaxAttempts
    BY Bounds DEF IRest
  <2> QED
    BY <2>1, <2>2 DEF I!IOnClose, I!ScheduleReconnect, IRest
<1>5. status' \in {status, "offline", "reconnecting"} /\ error' \in {error, TRUE}
  <2>1. \/ status' = status /\ error' = error
        \/ status' = "offline" /\ error' = TRUE
        \/ status' = "reconnecting" /\ error' = error
    BY DEF I!IOnClose, I!ScheduleReconnect
  <2>2. status' \in {status, "offline", "reconnecting"}
    BY <2>1
  <2>3. error' \in {error, TRUE}
    BY <2>1
  <2> QED
    BY <2>2, <2>3
<1>6. ilate' \in BOOLEAN
  <2>1. ilate' = ilate \/ ilate' = (ilate \/ isock[s].run # irun)
    BY DEF I!IOnClose
  <2>2. ilate \in BOOLEAN
    BY DEF IRest
  <2> QED
    BY <2>1, <2>2
<1> QED
  BY <1>1, <1>2, <1>3, <1>4, <1>5, <1>6 DEF IShape, IRest

LEMMA ITypesStep ==
  ASSUME I!ITypeOK, I!INext \/ UNCHANGED <<build, infraVars>> PROVE I!ITypeOK'
<1>1. IShape /\ IRest
  BY ITyped
<1>2. IShape' /\ IRest' => I!ITypeOK'
  BY DEF IShape, IRest, I!ITypeOK, I!SocketsOver, Kind, States, Gens, Timers
<1>3. ASSUME NEW s \in Slots, NEW given, I!IRefused(s, given) PROVE IShape' /\ IRest'
  <2>1. ifaults' \in 0..MaxFaults
    BY <1>1, <1>3, Bounds DEF I!IRefused, IRest
  <2> QED
    BY <1>1, <1>3, <2>1, ITypesClose DEF I!IRefused
<1>4. ASSUME NEW s \in Slots, I!ILost(s) PROVE IShape' /\ IRest'
  <2>1. ifaults' \in 0..MaxFaults
    BY <1>1, <1>4, Bounds DEF I!ILost, IRest
  <2> QED
    BY <1>1, <1>4, <2>1, ITypesClose DEF I!ILost
<1>5. ASSUME NEW s \in Slots, I!ICloseDone(s) PROVE IShape' /\ IRest'
  <2>1. ifaults' \in 0..MaxFaults
    BY <1>1, <1>5 DEF I!ICloseDone, IRest
  <2> QED
    BY <1>1, <1>5, <2>1, ITypesClose DEF I!ICloseDone
<1>6. CASE I!UnmountStream
  <2>1. /\ isock' = T!Closing(isock, iref) /\ itimer' = T!ClearTimer(itimer) /\ ping' = NoSock
        /\ imounted' = FALSE
        /\ UNCHANGED <<build, irun, iref, retry, status, error, overview, gen, asked, ifaults,
                       ilate>>
    BY <1>6, SameSockets, SameTimers DEF I!UnmountStream
  <2>2. isock' \in [Slots -> Kind(Gens)] /\ itimer' \in Timers
    BY <1>1, <2>1, ClosingTyped, TimersKeep DEF IShape
  <2> QED
    BY <1>1, <1>2, <2>1, <2>2 DEF IShape, IRest
<1>7. CASE I!IReconnect
  <2>1. /\ itimer' \in T!Fired(itimer)
        /\ I!IConnect(isock, irun) \/ UNCHANGED <<isock, iref>>
        /\ UNCHANGED <<build, irun, imounted, retry, ping, status, error, overview, gen, asked,
                       ifaults, ilate>>
    BY <1>7, SameTimers DEF I!IReconnect
  <2>2. itimer' \in Timers
    BY <1>1, <2>1, TimersKeep DEF IShape
  <2>3. isock' \in [Slots -> Kind(Gens)] /\ iref' \in Slots \cup {NoSock}
    <3> PICK r : r = irun
      OBVIOUS
    <3>1. r \in 0..MaxRuns /\ isock \in [Slots -> Kind(Gens)] /\ iref \in Slots \cup {NoSock}
      BY <1>1 DEF IRest, IShape
    <3>2. I!IConnect(isock, r) \/ UNCHANGED <<isock, iref>>
      BY <2>1
    <3> QED
      BY <3>1, <3>2, IConnectTyped
  <2> QED
    BY <1>1, <1>2, <2>1, <2>2, <2>3 DEF IShape, IRest
<1>8. CASE I!IPush
  <2>1. /\ gen' = IF gen < MaxGen THEN gen + 1 ELSE gen
        /\ isock' = I!Sent(isock, gen')
        /\ UNCHANGED <<build, irun, imounted, iref, retry, itimer, ping, status, error, overview,
                       asked, ifaults, ilate>>
    BY <1>8 DEF I!IPush, I!ihook
  <2>2. gen' \in 1..MaxGen
    BY <1>1, <2>1, Bounds DEF IRest
  <2> PICK m : m = gen'
    OBVIOUS
  <2>3. m \in Gens /\ isock' = T!Sent(isock, m)
    BY <2>1, <2>2, SameMessages DEF Gens
  <2>4. T!Sent(isock, m) \in [Slots -> Kind(Gens)]
    BY <1>1, <2>3, SentTyped DEF IShape
  <2> QED
    BY <1>1, <1>2, <2>1, <2>2, <2>3, <2>4 DEF IShape, IRest
<1>9. ASSUME NEW s \in Slots, I!IOnOpen(s) PROVE IShape' /\ IRest'
  <2>1. /\ isock' = [isock EXCEPT ![s] = T!Socket("open", isock[s].run, <<gen>>)]
        /\ retry' = 0 /\ status' = "live" /\ ping' = s
        /\ UNCHANGED <<build, irun, imounted, iref, itimer, error, overview, gen, asked, ifaults,
                       ilate>>
    BY <1>9 DEF I!IOnOpen, I!Socket, T!Socket
  <2>2. T!Socket("open", isock[s].run, <<gen>>) \in Kind(Gens)
    <3>1. <<gen>> \in Seq(Gens)
      BY <1>1 DEF IRest, Gens
    <3>2. isock[s].run \in 0..MaxRuns /\ "open" \in States
      BY <1>1 DEF IShape, Kind, States
    <3> QED
      BY <3>1, <3>2, Made
  <2>3. 0 \in 0..MaxAttempts
    BY Bounds
  <2> QED
    BY <1>1, <2>1, <2>2, <2>3 DEF IShape, IRest
<1>10. ASSUME NEW s \in Slots, I!IOnMessage(s) PROVE IShape' /\ IRest'
  <2>1. /\ isock[s].inbox # << >> /\ isock' = T!Taken(isock, s)
        /\ overview' \in {Head(isock[s].inbox), overview} /\ error' \in {FALSE, error}
        /\ UNCHANGED <<build, irun, imounted, iref, retry, itimer, ping, status, gen, asked,
                       ifaults, ilate>>
    BY <1>10, SameMessages DEF I!IOnMessage
  <2>2. /\ T!Taken(isock, s) \in [Slots -> Kind(Gens)] /\ Head(isock[s].inbox) \in Gens
    BY <1>1, <2>1, TakenTyped DEF IShape
  <2>3. overview' \in 0..MaxGen
    BY <1>1, <2>1, <2>2 DEF Gens, IRest
  <2> QED
    BY <1>1, <2>1, <2>2, <2>3 DEF IShape, IRest
<1>11. ASSUME NEW g \in 0..MaxGen, I!RestAnswer(g) PROVE IShape' /\ IRest'
  <2>1. /\ asked[g] > 0 /\ asked' = [asked EXCEPT ![g] = @ - 1]
        /\ overview' \in g..gen /\ error' = FALSE
        /\ UNCHANGED <<build, isock, irun, imounted, iref, retry, itimer, ping, status, gen,
                       ifaults, ilate>>
    BY <1>11 DEF I!RestAnswer
  <2>2. asked' \in [0..MaxGen -> Nat]
    BY <1>1, <2>1 DEF IRest
  <2>3. overview' \in 0..MaxGen
    BY <1>1, <2>1, Bounds DEF IRest
  <2> QED
    BY <1>1, <2>1, <2>2, <2>3 DEF IShape, IRest
<1>12. ASSUME NEW g \in 0..MaxGen, I!RestFails(g) PROVE IShape' /\ IRest'
  <2>1. /\ asked[g] > 0 /\ asked' = [asked EXCEPT ![g] = @ - 1] /\ ifaults < MaxFaults
        /\ error' = TRUE /\ ifaults' = ifaults + 1
        /\ UNCHANGED <<build, isock, irun, imounted, iref, retry, itimer, ping, status, overview,
                       gen, ilate>>
    BY <1>12 DEF I!RestFails
  <2>2. asked' \in [0..MaxGen -> Nat] /\ ifaults' \in 0..MaxFaults
    BY <1>1, <2>1, Bounds DEF IRest
  <2> QED
    BY <1>1, <2>1, <2>2 DEF IShape, IRest
<1>13. CASE UNCHANGED <<build, infraVars>>
  BY <1>1, <1>2, <1>13 DEF infraVars, IShape, IRest
<1>14. CASE I!MountStream
  BY <1>14, ITypesMount
<1> QED
  BY <1>2, <1>3, <1>4, <1>5, <1>6, <1>7, <1>8, <1>9, <1>10, <1>11, <1>12, <1>13, <1>14
     DEF I!INext

LEMMA ITypesInit == I!IInit => I!ITypeOK
<1> SUFFICES ASSUME I!IInit PROVE I!ITypeOK
  OBVIOUS
<1>1. isock \in [Slots -> Kind(Gens)]
  <2>1. T!Free \in Kind(Gens) /\ I!Free = T!Free
    BY Made DEF I!Free, T!Free, I!Socket, T!Socket
  <2> QED
    BY <2>1 DEF I!IInit
<1>2. IShape
  <2>1. itimer \in Timers
    BY DEF I!IInit, I!NoTimer, Timers
  <2> QED
    BY <1>1, <2>1 DEF I!IInit, IShape
<1>3. IRest
  <2>1. asked \in [0..MaxGen -> Nat]
    BY DEF I!IInit, I!NoneAsked
  <2>2. /\ 0 \in 0..MaxRuns /\ 0 \in 0..MaxFaults /\ 0 \in 0..MaxAttempts /\ 0 \in 0..MaxGen
        /\ 1 \in 1..MaxGen
    BY Bounds
  <2> QED
    BY <2>1, <2>2 DEF I!IInit, IRest
<1> QED
  BY <1>2, <1>3, ITyped

----------------------------------------------------------------------------
(***************************************************************************
 The theorems.
 ***************************************************************************)
LEMMA StatusInit == Init => T!TBadgeAgrees /\ Streaming
  BY DEF Init, T!TInit, I!IInit, T!TBadgeAgrees, Streaming, I!StreamAgrees

LEMMA HookSteps ==
  ASSUME [Next]_vars
  PROVE  /\ T!TNext \/ UNCHANGED <<build, threatVars>>
         /\ I!INext \/ UNCHANGED <<build, infraVars>>
         /\ UNCHANGED hook
  BY Build DEF Next, vars

\* What the console says of its connections is what they are: SYSTEM ONLINE is shown
\* (useWebSocket.ts) exactly while the mounted threat map has an open socket, and the
\* status of the infrastructure stream (useInfrastructure.ts) reads live exactly while
\* its socket is open, the keep-alive interval being that socket's.  Every handler
\* relies on it that no close event of an earlier effect run is still to come.
THEOREM BadgesAgree == Spec => []StatusAgrees
<1> DEFINE Agrees == TInv /\ IInv /\ T!TBadgeAgrees /\ Streaming
<1>1. Init => Agrees
  BY TInitInv, IInitInv, StatusInit DEF Init
<1>2. Agrees /\ [Next]_vars => Agrees'
  <2> SUFFICES ASSUME TInv, IInv, T!TBadgeAgrees, Streaming, [Next]_vars
               PROVE  TInv' /\ IInv' /\ T!TBadgeAgrees' /\ Streaming'
    OBVIOUS
  <2> QED
    BY HookSteps, TStep, IStep, BadgeStep, StreamStep
<1>3. Agrees => StatusAgrees
  BY DEF StatusAgrees, Streaming
<1> QED
  BY <1>1, <1>2, <1>3, PTL DEF Spec

\* No broadcast is shown twice, and refs, stores and counters of both hooks keep their
\* types and caps: the flush of useWebSocket.ts takes out of the buffer what it gives
\* to the store, and what the only live socket still has to deliver is newer than
\* whatever is in the buffer or in the stores.
THEOREM NothingShownTwice == Spec => []ShownOnce
<1> DEFINE Hooked == hook \in {"threat-map", "infrastructure"}
           Shown == Hooked /\ TInv /\ TShows /\ I!ITypeOK
<1>1. Init => Shown
  BY TInitInv, ShowsInit, ITypesInit DEF Init
<1>2. Shown /\ [Next]_vars => Shown'
  <2> SUFFICES ASSUME Hooked, TInv, TShows, I!ITypeOK, [Next]_vars
               PROVE  Hooked' /\ TInv' /\ TShows' /\ I!ITypeOK'
    OBVIOUS
  <2> QED
    BY HookSteps, TStep, ShowsStep, ITypesStep
<1>3. Shown => ShownOnce
  BY ShowsOnce DEF ShownOnce, TypeOK, TShows
<1> QED
  BY <1>1, <1>2, <1>3, PTL DEF Spec
====
