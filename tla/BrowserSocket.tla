---- MODULE BrowserSocket ----
(***************************************************************************
 The browser's WebSocket objects, as the two hooks of the front end use them:
 a finite pool of slots, each free or holding one socket with its readyState,
 the effect run that created it and the messages that have arrived and wait
 for the event loop.  A socket is OPEN or CONNECTING (live), or CLOSING once
 close() was called on it; its close event comes in a later task and frees the
 slot.  Messages are delivered only while the socket is OPEN.
 ***************************************************************************)
EXTENDS Naturals, Sequences, FiniteSets

CONSTANTS Slots,      \* the sockets that may exist at once
          NoSock      \* the ref holds no socket

ASSUME SlotsAssumption == NoSock \notin Slots

Socket(state, run, inbox) == [state |-> state, run |-> run, inbox |-> inbox]

Free == Socket("free", 0, << >>)

\* new WebSocket(url) in effect run r.
New(r) == Socket("connecting", r, << >>)

Live(ws) == {s \in Slots : ws[s].state \in {"connecting", "open"}}
FreeSlot(ws) == CHOOSE s \in Slots : ws[s].state = "free"
HasFree(ws) == \E s \in Slots : ws[s].state = "free"

\* close() on the socket of slot s, if there is one and it is not closing yet;
\* what it has not delivered is dropped.
Closing(ws, s) ==
  [t \in Slots |-> IF t = s /\ ws[t].state # "free"
                   THEN Socket("closing", ws[t].run, << >>)
                   ELSE ws[t]]

Freed(ws, s) == [ws EXCEPT ![s] = Free]
Opened(ws, s) == [ws EXCEPT ![s] = Socket("open", @.run, @.inbox)]

\* What the server sends reaches every open socket.
Sent(ws, m) ==
  [s \in Slots |-> IF ws[s].state = "open"
                   THEN Socket("open", ws[s].run, Append(ws[s].inbox, m))
                   ELSE ws[s]]

\* The event loop takes the oldest message of socket s.
Taken(ws, s) == [ws EXCEPT ![s] = Socket(@.state, @.run, Tail(@.inbox))]

SocketsOver(Msgs, runs) ==
  [Slots -> [state : {"free", "connecting", "open", "closing"},
             run : runs, inbox : Seq(Msgs)]]

(***************************************************************************
 Reconnect timers.  The hook keeps the handle of the last one it set: that one
 is "held" and can be cleared; one whose handle was overwritten is "loose".
 ***************************************************************************)
NoTimer == [held |-> FALSE, loose |-> 0]
Pending(t) == t.held \/ t.loose > 0
SetTimer(t) == [held |-> TRUE, loose |-> IF t.held THEN t.loose + 1 ELSE t.loose]
ClearTimer(t) == [t EXCEPT !.held = FALSE]
\* The timer states after one pending timer has fired.
Fired(t) == (IF t.held THEN {[t EXCEPT !.held = FALSE]} ELSE {})
              \cup (IF t.loose > 0 THEN {[t EXCEPT !.loose = @ - 1]} ELSE {})
====
