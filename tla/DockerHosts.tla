---- MODULE DockerHosts ----
(***************************************************************************
 One host of the registry of Docker daemons, core/docker_hosts.py: its cached
 client, its last error, and the calls that share them on several threads.

 The registry is locked, but a host is dialled outside the lock.  A call that
 meets a dead connection drops whatever client is registered by then and dials
 once more; any other failure, and a second dead connection, also marks the host
 so that it is not dialled again for the cooldown, if the error has a text.

 Hosts share the lock and nothing else, so one host stands for all.  A client is
 a model value; what a call asks the daemon does not matter.
 ***************************************************************************)
EXTENDS Integers, FiniteSets

CONSTANTS Callers,      \* threads that use the host at once
          Clients,      \* pool of client objects, reused once closed and unused
          NoClient,
          RetryAfter,   \* 60 seconds in the code
          MaxSeconds,   \* bound on the clock
          MaxOverlaps   \* bound on dials begun during another

VARIABLES second,       \* the clock
          registered,   \* _clients[name]
          errorAt,      \* time of _errors[name], or -1
          open,         \* clients created and not closed
          calls,        \* what each thread does
          overlaps,     \* dials begun while another was under way
          shared,       \* a client was dropped that another call was using
          innocent      \* a call dropped a client that was not its own

NoError == -1
Doing(step, x, n) == [step |-> step, client |-> x, attempt |-> n]
Resting == Doing("idle", NoClient, 0)

KInit ==
  /\ second = 0 /\ registered = NoClient /\ errorAt = NoError /\ open = {}
  /\ calls = [c \in Callers |-> Resting]
  /\ overlaps = 0 /\ shared = FALSE /\ innocent = FALSE

In(step) == {c \in Callers : calls[c].step = step}
Unused == {x \in Clients : x \notin open /\ \A c \in Callers : calls[c].client # x}
Go(c, step, x) == calls' = [calls EXCEPT ![c] = Doing(step, x, @.attempt)]
End(c) == calls' = [calls EXCEPT ![c] = Resting]

\* A call begins, with two attempts, or a bare get_client (attempt 0) as the
\* list of hosts and of unreachable hosts makes it.
Start(c, attempt) ==
  /\ calls[c] = Resting
  /\ calls' = [calls EXCEPT ![c] = Doing("get", NoClient, attempt)]
  /\ UNCHANGED <<second, registered, errorAt, open, overlaps, shared, innocent>>

\* get_client has its client: a bare one ends, a call goes on to use it.
Got(c, x) == IF calls[c].attempt = 0 THEN End(c) ELSE Go(c, "use", x)

\* get_client, the first section under the lock: the registered client, None
\* during the cooldown (a call raises DockerHostUnavailable), or a dial.
Get(c) ==
  /\ calls[c].step = "get"
  /\ CASE registered # NoClient -> Got(c, registered) /\ UNCHANGED <<open, overlaps>>
       [] registered = NoClient /\ errorAt # NoError /\ second - errorAt < RetryAfter ->
            End(c) /\ UNCHANGED <<open, overlaps>>
       [] OTHER ->
            /\ In("dial") # {} => overlaps < MaxOverlaps
            /\ overlaps' = IF In("dial") = {} THEN overlaps ELSE overlaps + 1
            /\ \E x \in Unused : Go(c, "dial", x) /\ open' = open \cup {x}
  /\ UNCHANGED <<second, registered, errorAt, shared, innocent>>

\* The ping is answered: register the client over whatever is there.
DialOk(c) ==
  /\ calls[c].step = "dial"
  /\ registered' = calls[c].client /\ errorAt' = NoError
  /\ Got(c, calls[c].client)
  /\ UNCHANGED <<second, open, overlaps, shared, innocent>>

DialFailsOpen(c) ==
  /\ calls[c].step = "dial"
  /\ registered' = NoClient /\ errorAt' = second
  /\ End(c)
  /\ UNCHANGED <<second, open, overlaps, shared, innocent>>

\* It is not: the client is closed, the host marked, and a client registered
\* meanwhile forgotten without being closed.
DialFails(c) ==
  /\ calls[c].step = "dial"
  /\ open' = open \ {calls[c].client}
  /\ registered' = NoClient /\ errorAt' = second
  /\ End(c)
  /\ UNCHANGED <<second, overlaps, shared, innocent>>

Answered(c) ==
  /\ calls[c].step = "use"
  /\ End(c)
  /\ UNCHANGED <<second, registered, errorAt, open, overlaps, shared, innocent>>

\* drop_client: whatever client is registered is forgotten and closed.
Drop(c) ==
  /\ registered' = NoClient /\ open' = open \ {registered}
  /\ shared' = (shared \/ \E d \in Callers \ {c} :
                   calls[d].client = registered /\ registered # NoClient)
  /\ innocent' = (innocent \/ (registered # NoClient /\ registered # calls[c].client))

\* A dead connection on the first attempt: no mark, dial again at once.
Transient(c) ==
  /\ calls[c].step = "use" /\ calls[c].attempt = 1
  /\ Drop(c)
  /\ calls' = [calls EXCEPT ![c] = Doing("get", NoClient, 2)]
  /\ UNCHANGED <<second, errorAt, overlaps>>

\* Another failure, or a second dead connection: drop, mark, raise.  An exception
\* without a text leaves no mark, and the next call dials at once.
Broken(c) ==
  /\ calls[c].step = "use"
  /\ Drop(c) /\ errorAt' \in {second, errorAt}
  /\ End(c)
  /\ UNCHANGED <<second, overlaps>>

Wait ==
  /\ second < MaxSeconds /\ second' = second + 1
  /\ UNCHANGED <<registered, errorAt, open, calls, overlaps, shared, innocent>>

KNext ==
  \/ \E c \in Callers :
       \/ Start(c, 0) \/ Start(c, 1) \/ Get(c) \/ DialOk(c) \/ DialFails(c)
       \/ Answered(c) \/ Transient(c) \/ Broken(c)
  \/ Wait

----------------------------------------------------------------------------
KTypeOK ==
  /\ second \in 0..MaxSeconds /\ errorAt \in {NoError} \cup 0..MaxSeconds
  /\ registered \in Clients \cup {NoClient} /\ open \subseteq Clients
  /\ calls \in [Callers -> [step : {"idle", "get", "dial", "use"},
                            client : Clients \cup {NoClient}, attempt : 0..2]]
  /\ overlaps \in 0..MaxOverlaps /\ shared \in BOOLEAN /\ innocent \in BOOLEAN

Dialled == {calls[c].client : c \in In("dial")}

\* A marked host has no registered client, so a host that works is not reported with
\* an old error, and a client that is registered, hence handed out, is open, whichever
\* thread dropped or closed one meanwhile.  A host may have neither: before its first
\* dial, after a dead connection, after an exception without a text.
NoMarkedClient ==
  /\ errorAt # NoError => registered = NoClient
  /\ registered # NoClient => registered \in open

\* A client that is neither registered nor being dialled keeps its sessions on the
\* host for good: there are at most as many as dials begun during another.
LeaksBounded == Cardinality(open \ (Dialled \cup {registered})) <= overlaps

\* A call that fails takes another call's fresh client with it only after two
\* calls were using one client that was dropped, or two dials overlapped.
OwnClientDropped == innocent => shared \/ overlaps > 0

ClientsFit == KTypeOK /\ NoMarkedClient /\ LeaksBounded /\ OwnClientDropped
====
