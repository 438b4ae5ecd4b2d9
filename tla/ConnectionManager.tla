------------------------- MODULE ConnectionManager -------------------------
(***************************************************************************)
(* The WebSocket fan-out of the backend: ConnectionManager in              *)
(* app/core/websockets.py and the two endpoints that own a manager each,   *)
(* /ws/threat-map (app/main.py) and /ws/infrastructure (ws_proxmox.py).    *)
(*                                                                         *)
(* Everything runs on one asyncio loop, so what a coroutine does between   *)
(* two awaits is one action here; the awaits (accept, send_text,           *)
(* receive_text) are where other coroutines get in.                        *)
(***************************************************************************)
EXTENDS Integers, Sequences, FiniteSets, SequencesExt

CONSTANTS
  Sockets,      \* one member per connection attempt
  Users,
  Owner,        \* the user each attempt names; its token may not verify
  Broadcasters, \* the tasks that call manager.broadcast
  MAX_CONNECTIONS_PER_USER,
  Greets        \* TRUE for /ws/infrastructure, which sends a snapshot first

ASSUME ManagerAssumption ==
  /\ Owner \in [Sockets -> Users]
  /\ MAX_CONNECTIONS_PER_USER \in Nat \ {0}
  /\ Greets \in BOOLEAN
  /\ IsFiniteSet(Sockets)

VARIABLES
  pc,        \* where the endpoint coroutine of each socket is
  up,        \* whether the client end of the socket is alive
  active,    \* manager.active_connections
  userConns, \* manager._user_connections; its order is never observed
  bc,        \* the local state of each running broadcast
  seen       \* history of each broadcast and of overlapping handshakes

vars == <<pc, up, active, userConns, bc, seen>>

Tracked(list) == ToSet(list)

Idle == [state |-> "idle", next |-> 1, failed |-> {}]

NothingSeen == [sent |-> {}, owed |-> {}, removals |-> 0]

Init ==
  /\ pc = [s \in Sockets |-> "new"]
  /\ up = [s \in Sockets |-> TRUE]
  /\ active = <<>>
  /\ userConns = [u \in Users |-> {}]
  /\ bc = [b \in Broadcasters |-> Idle]
  /\ seen = [broadcast |-> [b \in Broadcasters |-> NothingSeen],
             overlapped |-> [u \in Users |-> FALSE]]
-----------------------------------------------------------------------------
(* user_connection_count first drops the user's references that are no    *)
(* longer active, then counts.                                             *)
Cleaned(conns, u, list) == conns[u] \cap Tracked(list)

CanConnectInclusive(u) ==
  Cardinality(Cleaned(userConns, u, active)) <= MAX_CONNECTIONS_PER_USER

CanConnect(u) ==
  Cardinality(Cleaned(userConns, u, active)) < MAX_CONNECTIONS_PER_USER

(* disconnect(): out of both structures; harmless when already out.        *)
Without(list, gone) ==
  LET kept[n \in 0 .. Len(list)] ==
        IF n = 0 THEN <<>>
        ELSE IF list[n] \in gone THEN kept[n - 1] ELSE Append(kept[n - 1], list[n])
  IN  kept[Len(list)]

DisconnectKeepsUserEntry(gone) ==
  /\ active' = Without(active, gone)
  /\ UNCHANGED userConns

Disconnect(gone) ==
  /\ active' = Without(active, gone)
  /\ userConns' = [u \in Users |-> userConns[u] \ gone]

(* History of each running broadcast: the connected sockets it has sent to *)
(* and those connected since its start it has not, and the removals.       *)
NoteRemoval(h, gone) ==
  [b \in Broadcasters |->
     IF bc[b].state = "idle" THEN h[b]
     ELSE [sent |-> h[b].sent \ gone,
           owed |-> h[b].owed \ gone,
           removals |-> h[b].removals + Cardinality(gone \cap Tracked(active))]]
-----------------------------------------------------------------------------
(* The endpoint up to its first await. A bad token is closed with 4001, a  *)
(* user over the limit with 4002; neither is ever tracked.                 *)
Reject(s) ==
  /\ pc[s] = "new"
  /\ \/ UNCHANGED userConns
     \/ /\ ~CanConnect(Owner[s])
        /\ userConns' = [userConns EXCEPT ![Owner[s]] =
                                Cleaned(userConns, Owner[s], active)]
  /\ pc' = [pc EXCEPT ![s] = "closed"]
  /\ up' = [up EXCEPT ![s] = FALSE]
  /\ UNCHANGED <<active, bc, seen>>

Accepting(u) == {s \in Sockets : Owner[s] = u /\ pc[s] = "accepting"}

(* can_connect holds, and the coroutine awaits websocket.accept().         *)
Admit(s) ==
  /\ pc[s] = "new"
  /\ CanConnect(Owner[s])
  /\ userConns' = [userConns EXCEPT ![Owner[s]] =
                          Cleaned(userConns, Owner[s], active)]
  /\ pc' = [pc EXCEPT ![s] = "accepting"]
  /\ seen' = [seen EXCEPT !.overlapped[Owner[s]] = @ \/ Accepting(Owner[s]) # {}]
  /\ UNCHANGED <<up, active, bc>>

(* accept() returned: track the socket. The log line of connect() counts   *)
(* the user's connections again, which cleans the list once more.          *)
Accept(s) ==
  /\ pc[s] = "accepting"
  /\ active' = Append(active, s)
  /\ LET added == [userConns EXCEPT ![Owner[s]] = @ \cup {s}]
     IN  userConns' = [added EXCEPT ![Owner[s]] =
                              Cleaned(added, Owner[s], active')]
  /\ pc' = [pc EXCEPT ![s] = IF Greets THEN "greeting" ELSE "receiving"]
  /\ UNCHANGED <<up, bc, seen>>

(* accept() raised, outside the endpoint's try: nothing was tracked.       *)
AcceptFails(s) ==
  /\ pc[s] = "accepting"
  /\ ~up[s]
  /\ pc' = [pc EXCEPT ![s] = "closed"]
  /\ UNCHANGED <<up, active, userConns, bc, seen>>

(* /ws/infrastructure sends the last payload; a failure is only logged.    *)
Greet(s) ==
  /\ pc[s] = "greeting"
  /\ pc' = [pc EXCEPT ![s] = "receiving"]
  /\ UNCHANGED <<up, active, userConns, bc, seen>>

ClientLeaves(s) ==
  /\ pc[s] \in {"accepting", "greeting", "receiving"}
  /\ up[s]
  /\ up' = [up EXCEPT ![s] = FALSE]
  /\ UNCHANGED <<pc, active, userConns, bc, seen>>

EndpointForgetsDisconnect(s) ==
  /\ pc[s] = "receiving"
  /\ pc' = [pc EXCEPT ![s] = "closed"]
  /\ up' = [up EXCEPT ![s] = FALSE]
  /\ UNCHANGED <<active, userConns, bc, seen>>

(* The receive loop ends: WebSocketDisconnect, or any other exception of   *)
(* receive_text or of the reply. Both handlers call disconnect, and the    *)
(* server closes the socket when the endpoint returns.                     *)
EndpointEnds(s) ==
  /\ pc[s] = "receiving"
  /\ pc' = [pc EXCEPT ![s] = "closed"]
  /\ up' = [up EXCEPT ![s] = FALSE]
  /\ Disconnect({s})
  /\ seen' = [seen EXCEPT !.broadcast = NoteRemoval(@, {s})]
  /\ UNCHANGED bc
-----------------------------------------------------------------------------
(* One turn of "for connection in self.active_connections" of broadcast b: *)
(* the list iterator yields the element at its index, whatever the list    *)
(* has become meanwhile, or ends.                                          *)
Yield(b, i, failed) ==
  /\ bc' = [bc EXCEPT ![b] = [state |-> "sending", next |-> i + 1,
                               target |-> active[i], failed |-> failed]]
  /\ seen' = [seen EXCEPT !.broadcast[b] =
                [sent |-> @.sent \cup {active[i]},
                 owed |-> @.owed \ {active[i]}, removals |-> @.removals]]
  /\ UNCHANGED <<active, userConns>>

(* The loop is over: those whose send failed are disconnected.             *)
CleanUp(b, failed) ==
  /\ bc' = [bc EXCEPT ![b] = Idle]
  /\ Disconnect(failed)
  /\ seen' = [seen EXCEPT !.broadcast =
                [NoteRemoval(@, failed) EXCEPT ![b] = NothingSeen]]

AdvanceSkipping(b, i, failed) ==
  \/ i < Len(active) /\ Yield(b, i + 1, failed)
  \/ i >= Len(active) /\ CleanUp(b, failed)

AdvanceRestarting(b, i, failed) ==
  \/ failed # {} /\ active # <<>> /\ Yield(b, 1, {})
  \/ failed = {} /\ i <= Len(active) /\ Yield(b, i, failed)
  \/ i > Len(active) /\ CleanUp(b, failed)

Advance(b, i, failed) ==
  \/ i <= Len(active) /\ Yield(b, i, failed)
  \/ i > Len(active) /\ CleanUp(b, failed)

(* broadcast() starts; with nobody connected it has nothing to do.         *)
BroadcastStarts(b) ==
  /\ bc[b].state = "idle"
  /\ active # <<>>
  /\ bc' = [bc EXCEPT ![b] = [state |-> "sending", next |-> 2,
                               target |-> Head(active), failed |-> {}]]
  /\ seen' = [seen EXCEPT !.broadcast[b] =
                [sent |-> {Head(active)},
                 owed |-> Tracked(active) \ {Head(active)}, removals |-> 0]]
  /\ UNCHANGED <<pc, up, active, userConns>>

(* The awaited send_text returned, or the loop moves on at once.           *)
SendOk(b) ==
  /\ bc[b].state = "sending"
  /\ Advance(b, bc[b].next, bc[b].failed)
  /\ UNCHANGED <<pc, up>>

SendFailsByIndex(b) ==
  /\ bc[b].state = "sending"
  /\ ~up[bc[b].target]
  /\ LET i == bc[b].next - 1 IN
     Advance(b, bc[b].next, bc[b].failed
               \cup (IF i <= Len(active) THEN {active[i]} ELSE {}))
  /\ UNCHANGED <<pc, up>>

(* send_text raised: the client of the target is gone.                     *)
SendFails(b) ==
  /\ bc[b].state = "sending"
  /\ ~up[bc[b].target]
  /\ Advance(b, bc[b].next, bc[b].failed \cup {bc[b].target})
  /\ UNCHANGED <<pc, up>>
-----------------------------------------------------------------------------
Endpoint(s) ==
  \/ Reject(s) \/ Admit(s) \/ Accept(s) \/ AcceptFails(s)
  \/ Greet(s) \/ EndpointEnds(s) \/ ClientLeaves(s)

Broadcast(b) == BroadcastStarts(b) \/ SendOk(b) \/ SendFails(b)

Finished ==
  /\ \A s \in Sockets : pc[s] = "closed"
  /\ \A b \in Broadcasters : bc[b].state = "idle"
  /\ UNCHANGED vars

Next ==
  \/ \E s \in Sockets : Endpoint(s)
  \/ \E b \in Broadcasters : Broadcast(b)
  \/ Finished

(* The loop runs every ready coroutine, accept and the snapshot end one    *)
(* way or the other, and receive_text raises once the client is gone. No   *)
(* fairness for send_text: a stalled client may hold a broadcast forever.  *)
Fairness ==
  \A s \in Sockets :
    /\ WF_vars(Accept(s) \/ AcceptFails(s))
    /\ WF_vars(Greet(s))
    /\ WF_vars(~up[s] /\ EndpointEnds(s))

Spec == Init /\ [][Next]_vars /\ Fairness
-----------------------------------------------------------------------------
(* The values the manager's two structures and its coroutines take.        *)
TypeOK ==
  /\ pc \in [Sockets -> {"new", "accepting", "greeting", "receiving", "closed"}]
  /\ up \in [Sockets -> BOOLEAN]
  /\ active \in Seq(Sockets)
  /\ userConns \in [Users -> SUBSET Sockets]
  /\ \A b \in Broadcasters :
       \/ bc[b] = Idle
       \/ bc[b] \in [state : {"sending"}, next : Nat, target : Sockets,
                     failed : SUBSET Sockets]

(* The two structures agree: no socket is listed twice, and each user's    *)
(* entry holds exactly the user's active sockets, so that the count the    *)
(* limit is checked against is the true one.                               *)
StructuresAgree ==
  /\ TypeOK
  /\ IsInjective(active)
  /\ \A u \in Users :
       userConns[u] = {s \in Tracked(active) : Owner[s] = u}

(* The limit is exceeded only through overlapping handshakes: a user whose *)
(* handshakes never overlap has at most MAX_CONNECTIONS_PER_USER.          *)
LimitUnlessOverlap ==
  \A u \in Users :
    seen.overlapped[u] \/ Cardinality(userConns[u]) <= MAX_CONNECTIONS_PER_USER

(* What the comment above MAX_CONNECTIONS_PER_USER says: the maximum of    *)
(* concurrent connections per user.                                        *)
LimitPerUser ==
  \A u \in Users : Cardinality(userConns[u]) <= MAX_CONNECTIONS_PER_USER

(* A broadcast sends to no socket twice: what its iterator has yet to read *)
(* holds nothing it has sent to, whatever joined or left meanwhile.        *)
NoDoubleSend ==
  \A b \in Broadcasters : bc[b].state = "sending" =>
    \A i \in bc[b].next .. Len(active) : active[i] \notin seen.broadcast[b].sent

(* The sockets a broadcast has passed over although they were connected    *)
(* from its start on.                                                      *)
Missed(b) ==
  {s \in seen.broadcast[b].owed :
     \A i \in bc[b].next .. Len(active) : active[i] # s}

(* Removing a connection during a broadcast can make its iterator skip a   *)
(* live one; each removal skips at most one, and without removals every    *)
(* client that was connected from the start is sent the message.           *)
EachRemovalSkipsAtMostOne ==
  \A b \in Broadcasters : bc[b].state = "sending" =>
    Cardinality(Missed(b)) <= seen.broadcast[b].removals

(* Nobody else's failure takes a live client off the list: as long as the  *)
(* client is there and its endpoint runs, it is tracked.                   *)
LiveClientsTracked ==
  \A s \in Sockets :
    up[s] /\ pc[s] \in {"greeting", "receiving"} => s \in Tracked(active)

(* A client that is gone is eventually off the list, for good.             *)
DeadClientsForgotten ==
  \A s \in Sockets : ~up[s] ~> [](s \notin Tracked(active))
=============================================================================
