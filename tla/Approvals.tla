---- MODULE Approvals ----
(***************************************************************************
 Action requests and the administrators who decide them: the correlation
 endpoint of main.py, approve_action and reject_action of core/response.

 The endpoints are plain functions, so each call runs on a thread of the pool:
 it reads the request, writes its status if it read "pending", and writes an
 audit entry.  MongoDB makes each of the three calls atomic, not the three
 together.  A failed audit write is swallowed by the audit logger.

 Not modelled: requests of playbooks, as no incident reaches the executor (see
 the README), and the incidents themselves.
 ***************************************************************************)
EXTENDS Naturals, Sequences

CONSTANTS Requests,   \* ids of action requests
          Deciders    \* calls of approve and reject in flight at once

VARIABLES status,     \* of each request, "none" before it exists
          deciding,   \* what each call in flight has done
          audit,      \* audit entries of each request, in the order written
          unaudited,  \* requests one of whose decisions has no entry
          raced       \* requests two calls read as pending at once

Verdicts == {"executed", "rejected"}
NoDecision == [step |-> "idle"]
Decision(s, r, v) == [step |-> s, request |-> r, verdict |-> v]

AInit ==
  /\ status = [r \in Requests |-> "none"]
  /\ deciding = [d \in Deciders |-> NoDecision]
  /\ audit = [r \in Requests |-> << >>]
  /\ unaudited = {} /\ raced = {}

On(r) == {d \in Deciders : deciding[d].step # "idle" /\ deciding[d].request = r}

\* run_correlation: the incident it reports comes with a request to block.
CreateRequest(r) ==
  /\ status[r] = "none"
  /\ status' = [status EXCEPT ![r] = "pending"]
  /\ UNCHANGED <<deciding, audit, unaudited, raced>>

Decide(d, r, v) ==
  /\ deciding' = [deciding EXCEPT ![d] = Decision("read", r, v)]
  /\ raced' = IF \E e \in On(r) : deciding[e].step = "read" THEN raced \cup {r} ELSE raced
  /\ UNCHANGED <<status, audit, unaudited>>

ReadAnyStatus(d, r, v) ==
  /\ deciding[d] = NoDecision /\ status[r] # "none" /\ Decide(d, r, v)

\* find_one; a request that is not pending is answered "already processed".
ReadRequest(d, r, v) ==
  /\ deciding[d] = NoDecision /\ status[r] = "pending" /\ Decide(d, r, v)

\* update_one by id, whatever the status is by now.
WriteStatus(d) ==
  /\ deciding[d].step = "read"
  /\ LET r == deciding[d].request
         v == deciding[d].verdict
     IN /\ status' = [status EXCEPT ![r] = v]
        /\ deciding' = [deciding EXCEPT ![d] = Decision("written", r, v)]
  /\ UNCHANGED <<audit, unaudited, raced>>

\* AuditLogger.log, which may fail without the caller noticing.
Audit(d) ==
  /\ deciding[d].step = "written"
  /\ LET r == deciding[d].request IN
       \/ /\ audit' = [audit EXCEPT ![r] = Append(@, deciding[d].verdict)]
          /\ UNCHANGED unaudited
       \/ unaudited' = unaudited \cup {r} /\ UNCHANGED audit
  /\ deciding' = [deciding EXCEPT ![d] = NoDecision]
  /\ UNCHANGED <<status, raced>>

\* The process stops: calls between their writes are gone, MongoDB is not.
StopDeciding ==
  /\ \E d \in Deciders : deciding[d] # NoDecision
  /\ deciding' = [d \in Deciders |-> NoDecision]
  /\ unaudited' = unaudited \cup
       {deciding[d].request : d \in {e \in Deciders : deciding[e].step = "written"}}
  /\ UNCHANGED <<status, audit, raced>>

ANext ==
  \/ \E r \in Requests : CreateRequest(r)
  \/ \E d \in Deciders, r \in Requests, v \in Verdicts : ReadRequest(d, r, v)
  \/ \E d \in Deciders : WriteStatus(d) \/ Audit(d)
  \/ StopDeciding

----------------------------------------------------------------------------
ATypeOK ==
  /\ status \in [Requests -> Verdicts \cup {"none", "pending"}]
  /\ deciding \in [Deciders -> {NoDecision} \cup
                     [step : {"read", "written"}, request : Requests, verdict : Verdicts]]
  /\ audit \in [Requests -> Seq(Verdicts)]
  /\ unaudited \subseteq Requests /\ raced \subseteq Requests

\* Two administrators on one request: unless both read it as pending before
\* either wrote, it is decided once.
DecidedOnce ==
  \A r \in Requests \ raced :
    /\ Len(audit[r]) <= 1
    /\ \A d \in On(r) : deciding[d].step = "written" =>
         /\ audit[r] = << >>
         /\ status[r] = deciding[d].verdict

\* The trail tells the outcome: with no call on it in flight, a request is
\* decided exactly if an entry, or a lost entry, says so, and a request decided
\* once has the verdict of its entry.
TrailFits ==
  \A r \in Requests :
    On(r) = {} =>
      /\ status[r] \in Verdicts <=> (audit[r] # << >> \/ r \in unaudited)
      /\ r \notin raced /\ audit[r] # << >> => status[r] = audit[r][1]

\* Even a race ends with a verdict that somebody gave.
VerdictGiven ==
  \A r \in Requests :
    status[r] \in Verdicts /\ r \notin unaudited =>
      \/ \E i \in DOMAIN audit[r] : audit[r][i] = status[r]
      \/ \E d \in On(r) : deciding[d].step = "written" /\ deciding[d].verdict = status[r]

DecisionsFit == ATypeOK /\ DecidedOnce /\ TrailFits /\ VerdictGiven
====
