---- MODULE Backend_proofs ----
(***************************************************************************
 Proofs about the threaded parts of the back end, one after the other: decisions on
 action requests, the clients of a Docker host, the readings of the infrastructure
 overview, and the incidents raised by machines.  Each part has an inductive
 invariant of its own, over its own variables.
 ***************************************************************************)
EXTENDS Backend, TLAPS, FiniteSetTheorems, SequenceTheorems

----------------------------------------------------------------------------
(***************************************************************************
 Approvals.  A request that is pending has no decision behind it; one that is
 decided has an entry, a lost entry, or a call about to write one.  Where no two
 calls read it as pending, at most one call is at work on it, and that call alone
 writes its status and its entry.
 ***************************************************************************)
Reading(r) == {d \in Deciders : deciding[d].step = "read" /\ deciding[d].request = r}
Writing(r) == {d \in Deciders : deciding[d].step = "written" /\ deciding[d].request = r}

Untouched ==
  \A r \in Requests :
    status[r] \in {"none", "pending"} =>
      /\ audit[r] = << >> /\ r \notin unaudited /\ Writing(r) = {}
      /\ status[r] = "none" => Reading(r) = {}

Accounted ==
  \A r \in Requests :
    status[r] \in A!Verdicts =>
      audit[r] # << >> \/ r \in unaudited \/ Writing(r) # {}

Alone ==
  \A r \in Requests \ raced :
    /\ \A d, e \in Reading(r) : d = e
    /\ status[r] \in A!Verdicts => Reading(r) = {}
    /\ \A d \in Writing(r) :
         /\ \A e \in Writing(r) : d = e
         /\ audit[r] = << >> /\ r \notin unaudited
         /\ status[r] = deciding[d].verdict
    /\ Len(audit[r]) <= 1
    /\ audit[r] # << >> => status[r] = audit[r][1]

AInv == A!ATypeOK /\ Untouched /\ Accounted /\ Alone /\ A!VerdictGiven

LEMMA AppendFacts ==
  ASSUME NEW S, NEW s \in Seq(S), NEW x \in S
  PROVE  /\ Append(s, x) \in Seq(S) /\ Append(s, x) # << >>
         /\ s = << >> => Append(s, x) = <<x>>
         /\ \E i \in DOMAIN Append(s, x) : Append(s, x)[i] = x
         /\ \A i \in DOMAIN s : i \in DOMAIN Append(s, x) /\ Append(s, x)[i] = s[i]
<1>1. /\ Append(s, x) \in Seq(S) /\ Len(Append(s, x)) = Len(s) + 1
      /\ Append(s, x)[Len(s) + 1] = x
      /\ \A i \in 1..Len(s) : Append(s, x)[i] = s[i]
  BY AppendProperties
<1>2. Len(s) \in Nat /\ DOMAIN s = 1..Len(s) /\ DOMAIN Append(s, x) = 1..Len(s) + 1
  BY <1>1, LenProperties
<1>3. Append(s, x) # << >>
  BY <1>1, <1>2, EmptySeq
<1>4. Len(s) + 1 \in DOMAIN Append(s, x)
  BY <1>2
<1>5. s = << >> => Append(s, x) = <<x>>
  OBVIOUS
<1> QED
  BY <1>1, <1>2, <1>3, <1>4, <1>5

LEMMA AInitInv == A!AInit => AInv
  BY DEF A!AInit, AInv, A!ATypeOK, Untouched, Accounted, Alone, A!VerdictGiven,
         Reading, Writing, A!Verdicts, A!NoDecision

LEMMA AStepInv == AInv /\ A!ANext => AInv'
<1> SUFFICES ASSUME AInv, A!ANext PROVE AInv'
  OBVIOUS
<1> USE DEF AInv
<1>1. ASSUME NEW r \in Requests, A!CreateRequest(r) PROVE AInv'
  <2>1. /\ status[r] = "none"
        /\ status' = [status EXCEPT ![r] = "pending"]
        /\ UNCHANGED <<deciding, audit, unaudited, raced>>
    BY <1>1 DEF A!CreateRequest
  <2>2. \A q \in Requests : Reading(q)' = Reading(q) /\ Writing(q)' = Writing(q)
    BY <2>1 DEF Reading, Writing
  <2>3. A!ATypeOK'
    BY <2>1 DEF A!ATypeOK
  <2>4. Untouched' /\ Accounted'
    BY <2>1, <2>2 DEF A!ATypeOK, Untouched, Accounted, A!Verdicts
  <2>5. Alone'
    BY <2>1, <2>2 DEF A!ATypeOK, Untouched, Alone, A!Verdicts
  <2>6. A!VerdictGiven'
    BY <2>1 DEF A!ATypeOK, A!VerdictGiven, A!Verdicts, A!On
  <2> QED
    BY <2>3, <2>4, <2>5, <2>6
<1>2. ASSUME NEW d \in Deciders, NEW r \in Requests, NEW v \in A!Verdicts,
             A!ReadRequest(d, r, v)
      PROVE AInv'
  <2>1. /\ deciding[d] = A!NoDecision /\ status[r] = "pending"
        /\ deciding' = [deciding EXCEPT ![d] = A!Decision("read", r, v)]
        /\ raced' = IF Reading(r) # {} THEN raced \cup {r} ELSE raced
        /\ UNCHANGED <<status, audit, unaudited>>
    BY <1>2 DEF A!ReadRequest, A!Decide, A!On, Reading
  <2>2. /\ \A q \in Requests : Writing(q)' = Writing(q)
        /\ Reading(r)' = Reading(r) \cup {d}
        /\ \A q \in Requests \ {r} : Reading(q)' = Reading(q)
    BY <2>1 DEF Reading, Writing, A!ATypeOK, A!NoDecision, A!Decision
  <2>3. A!ATypeOK'
    BY <2>1 DEF A!ATypeOK, A!Decision
  <2>4. Untouched' /\ Accounted'
    BY <2>1, <2>2 DEF A!ATypeOK, Untouched, Accounted, A!Verdicts
  <2>5. Alone'
    <3> SUFFICES ASSUME NEW q \in Requests \ raced'
                 PROVE  /\ \A c, e \in Reading(q)' : c = e
                        /\ status[q] \in A!Verdicts => Reading(q)' = {}
                        /\ \A c \in Writing(q)' :
                             /\ \A e \in Writing(q)' : c = e
                             /\ audit[q] = << >> /\ q \notin unaudited
                             /\ status[q] = deciding'[c].verdict
                        /\ Len(audit[q]) <= 1
                        /\ audit[q] # << >> => status[q] = audit[q][1]
      BY <2>1 DEF Alone
    <3>1. q \notin raced /\ (q = r => Reading(r) = {})
      BY <2>1
    <3>2. \A c \in Writing(q) : deciding'[c] = deciding[c]
      BY <2>1 DEF Writing, A!NoDecision, A!ATypeOK, A!Decision
    <3> QED
      BY <2>1, <2>2, <3>1, <3>2 DEF Alone, A!Verdicts
  <2>6. A!VerdictGiven'
    BY <2>1 DEF A!ATypeOK, A!VerdictGiven, A!Verdicts, A!On, A!NoDecision, A!Decision
  <2> QED
    BY <2>3, <2>4, <2>5, <2>6
<1>3. ASSUME NEW d \in Deciders, A!WriteStatus(d) PROVE AInv'
  <2> PICK r \in Requests, v \in A!Verdicts : deciding[d] = A!Decision("read", r, v)
    BY <1>3 DEF A!WriteStatus, A!ATypeOK, A!NoDecision, A!Decision
  <2>1. /\ status' = [status EXCEPT ![r] = v]
        /\ deciding' = [deciding EXCEPT ![d] = A!Decision("written", r, v)]
        /\ UNCHANGED <<audit, unaudited, raced>>
    BY <1>3 DEF A!WriteStatus, A!Decision
  <2>2. /\ Writing(r)' = Writing(r) \cup {d}
        /\ Reading(r)' = Reading(r) \ {d} /\ d \in Reading(r)
        /\ \A q \in Requests \ {r} : Reading(q)' = Reading(q) /\ Writing(q)' = Writing(q)
    BY <2>1 DEF Reading, Writing, A!ATypeOK, A!Decision
  <2>3. A!ATypeOK'
    BY <2>1 DEF A!ATypeOK, A!Decision
  <2>4. Untouched' /\ Accounted'
    BY <2>1, <2>2 DEF A!ATypeOK, Untouched, Accounted, A!Verdicts
  <2>5. Alone'
    <3> SUFFICES ASSUME NEW q \in Requests \ raced
                 PROVE  /\ \A c, e \in Reading(q)' : c = e
                        /\ status'[q] \in A!Verdicts => Reading(q)' = {}
                        /\ \A c \in Writing(q)' :
                             /\ \A e \in Writing(q)' : c = e
                             /\ audit[q] = << >> /\ q \notin unaudited
                             /\ status'[q] = deciding'[c].verdict
                        /\ Len(audit[q]) <= 1
                        /\ audit[q] # << >> => status'[q] = audit[q][1]
      BY <2>1 DEF Alone
    <3>1. CASE q = r
      <4>1. status[r] = "pending"
        BY <3>1, <2>1, <2>2 DEF Alone, Untouched, A!ATypeOK
      <4>2. audit[r] = << >> /\ r \notin unaudited /\ Writing(r) = {}
        BY <4>1, <2>1 DEF Untouched
      <4>3. status'[r] = v /\ deciding'[d].verdict = v
        BY <2>1 DEF A!ATypeOK, A!Decision, A!Decision
      <4>4. Reading(r)' = {}
        BY <3>1, <2>2 DEF Alone
      <4> QED
        BY <3>1, <2>1, <2>2, <4>2, <4>3, <4>4
    <3>2. CASE q # r
      <4>1. status'[q] = status[q]
        BY <3>2, <2>1 DEF A!ATypeOK
      <4>2. \A c \in Writing(q) : deciding'[c] = deciding[c]
        BY <2>1 DEF A!ATypeOK, Writing, A!Decision
      <4> QED
        BY <3>2, <2>1, <2>2, <4>1, <4>2 DEF Alone
    <3> QED
      BY <3>1, <3>2
  <2>6. A!VerdictGiven'
    <3> SUFFICES ASSUME NEW q \in Requests, status'[q] \in A!Verdicts, q \notin unaudited
                 PROVE  \/ \E i \in DOMAIN audit[q] : audit[q][i] = status'[q]
                        \/ \E c \in A!On(q)' : deciding'[c].step = "written"
                                              /\ deciding'[c].verdict = status'[q]
      BY <2>1 DEF A!VerdictGiven
    <3>1. CASE q = r
      <4>1. deciding'[d] = A!Decision("written", r, v) /\ status'[q] = v
        BY <3>1, <2>1 DEF A!ATypeOK
      <4> QED
        BY <3>1, <4>1 DEF A!On, A!Decision
    <3>2. CASE q # r
      <4>1. status'[q] = status[q]
        BY <3>2, <2>1 DEF A!ATypeOK
      <4>2. \A c \in A!On(q) : c \in A!On(q)' /\ deciding'[c] = deciding[c]
        BY <3>2, <2>1 DEF A!ATypeOK, A!On, A!Decision
      <4> QED
        BY <4>1, <4>2 DEF A!VerdictGiven
    <3> QED
      BY <3>1, <3>2
  <2> QED
    BY <2>3, <2>4, <2>5, <2>6
<1>4. ASSUME NEW d \in Deciders, A!Audit(d) PROVE AInv'
  <2> PICK r \in Requests, v \in A!Verdicts : deciding[d] = A!Decision("written", r, v)
    BY <1>4 DEF A!Audit, A!ATypeOK, A!NoDecision, A!Decision
  <2>1. /\ \/ audit' = [audit EXCEPT ![r] = Append(@, v)] /\ unaudited' = unaudited
           \/ unaudited' = unaudited \cup {r} /\ audit' = audit
        /\ deciding' = [deciding EXCEPT ![d] = A!NoDecision]
        /\ UNCHANGED <<status, raced>>
    BY <1>4 DEF A!Audit, A!Decision
  <2>2. /\ Writing(r)' = Writing(r) \ {d} /\ d \in Writing(r)
        /\ \A q \in Requests : Reading(q)' = Reading(q)
        /\ \A q \in Requests \ {r} : Writing(q)' = Writing(q)
    BY <2>1 DEF Reading, Writing, A!ATypeOK, A!NoDecision, A!Decision
  <2>3. A!ATypeOK'
    <3>0. Append(audit[r], v) \in Seq(A!Verdicts)
      BY AppendFacts DEF A!ATypeOK
    <3>1. audit' \in [Requests -> Seq(A!Verdicts)]
      BY <2>1, <3>0 DEF A!ATypeOK
    <3> QED
      BY <2>1, <3>1 DEF A!ATypeOK
  <2>4. status[r] \in A!Verdicts
    BY <2>1, <2>2 DEF Untouched, A!ATypeOK
  <2>5. \/ audit'[r] = Append(audit[r], v) /\ unaudited' = unaudited
        \/ r \in unaudited' /\ unaudited' \ {r} = unaudited \ {r} /\ audit' = audit
    BY <2>1 DEF A!ATypeOK, A!Decision
  <2>6. /\ Append(audit[r], v) # << >>
        /\ audit[r] = << >> => Append(audit[r], v) = <<v>>
        /\ \E i \in DOMAIN Append(audit[r], v) : Append(audit[r], v)[i] = v
        /\ \A i \in DOMAIN audit[r] : /\ i \in DOMAIN Append(audit[r], v)
                                     /\ Append(audit[r], v)[i] = audit[r][i]
    BY AppendFacts DEF A!ATypeOK
  <2>7. \A q \in Requests \ {r} : audit'[q] = audit[q] /\ (q \in unaudited' <=> q \in unaudited)
    BY <2>1 DEF A!ATypeOK, A!Decision
  <2>8. Untouched'
    BY <2>1, <2>2, <2>4, <2>7 DEF Untouched, A!Verdicts
  <2>9. Accounted'
    BY <2>1, <2>2, <2>5, <2>6, <2>7 DEF Accounted
  <2>10. Alone'
    <3> SUFFICES ASSUME NEW q \in Requests \ raced
                 PROVE  /\ \A c, e \in Reading(q)' : c = e
                        /\ status[q] \in A!Verdicts => Reading(q)' = {}
                        /\ \A c \in Writing(q)' :
                             /\ \A e \in Writing(q)' : c = e
                             /\ audit'[q] = << >> /\ q \notin unaudited'
                             /\ status[q] = deciding'[c].verdict
                        /\ Len(audit'[q]) <= 1
                        /\ audit'[q] # << >> => status[q] = audit'[q][1]
      BY <2>1 DEF Alone
    <3>1. CASE q = r
      <4>1. audit[r] = << >> /\ status[r] = v /\ Writing(r)' = {}
        BY <3>1, <2>2 DEF Alone, A!Decision
      <4>2. Len(audit'[r]) <= 1 /\ (audit'[r] # << >> => status[r] = audit'[r][1])
        <5>1. audit'[r] = << >> \/ audit'[r] = <<v>>
          BY <4>1, <2>5, <2>6
        <5>2. Len(<< >>) <= 1 /\ Len(<<v>>) <= 1 /\ <<v>>[1] = v
          OBVIOUS
        <5> QED
          BY <4>1, <5>1, <5>2
      <4> QED
        BY <3>1, <2>2, <4>1, <4>2 DEF Alone
    <3>2. CASE q # r
      <4>1. \A c \in Writing(q) : deciding'[c] = deciding[c]
        BY <3>2, <2>1 DEF A!ATypeOK, Writing, A!Decision
      <4> QED
        BY <3>2, <2>2, <2>7, <4>1 DEF Alone
    <3> QED
      BY <3>1, <3>2
  <2>11. A!VerdictGiven'
    <3> SUFFICES ASSUME NEW q \in Requests, status[q] \in A!Verdicts, q \notin unaudited'
                 PROVE  \/ \E i \in DOMAIN audit'[q] : audit'[q][i] = status[q]
                        \/ \E c \in A!On(q)' : deciding'[c].step = "written"
                                              /\ deciding'[c].verdict = status[q]
      BY <2>1 DEF A!VerdictGiven
    <3>1. q \notin unaudited
      BY <2>1
    <3>2. CASE \E i \in DOMAIN audit[q] : audit[q][i] = status[q]
      BY <3>2, <2>5, <2>6, <2>7
    <3>3. CASE \E c \in A!On(q) : deciding[c].step = "written" /\ deciding[c].verdict = status[q]
      <4> PICK c \in A!On(q) : deciding[c].step = "written" /\ deciding[c].verdict = status[q]
        BY <3>3
      <4>1. CASE c = d
        <5>1. q = r /\ status[q] = v
          BY <4>1 DEF A!On, A!Decision
        <5> QED
          BY <5>1, <2>5, <2>6
      <4>2. CASE c # d
        BY <4>2, <2>1 DEF A!On, A!ATypeOK
      <4> QED
        BY <4>1, <4>2
    <3> QED
      BY <3>1, <3>2, <3>3 DEF A!VerdictGiven
  <2> QED
    BY <2>3, <2>8, <2>9, <2>10, <2>11
<1>5. ASSUME A!StopDeciding PROVE AInv'
  <2>1. /\ \A d \in Deciders : deciding'[d].step = "idle"
        /\ \A r \in Requests :
             r \in unaudited' <=> (r \in unaudited \/ Writing(r) # {})
        /\ UNCHANGED <<status, audit, raced>>
    BY <1>5 DEF A!StopDeciding, A!NoDecision, Writing
  <2>2. A!ATypeOK'
    BY <1>5 DEF A!StopDeciding, A!ATypeOK, A!NoDecision
  <2>3. \A r \in Requests : Reading(r)' = {} /\ Writing(r)' = {}
    BY <2>1 DEF Reading, Writing
  <2>4. Untouched' /\ Accounted'
    BY <2>1, <2>3 DEF Untouched, Accounted
  <2>5. Alone'
    BY <2>1, <2>3 DEF Alone, A!ATypeOK
  <2>6. A!VerdictGiven'
    BY <2>1, <2>3 DEF A!VerdictGiven, Writing, A!On
  <2> QED
    BY <2>2, <2>4, <2>5, <2>6
<1> QED
  BY <1>1, <1>2, <1>3, <1>4, <1>5 DEF A!ANext

LEMMA AInvSuffices == AInv => DecisionsFit
  BY DEF AInv, DecisionsFit, A!DecisionsFit, A!DecidedOnce, A!TrailFits, A!On, A!ATypeOK,
         Untouched, Accounted, Alone, Reading, Writing, A!Verdicts, A!NoDecision

----------------------------------------------------------------------------
\* A request of approvals is decided once unless two administrators read it as
\* pending at once, and its audit trail tells the outcome, whatever number of
\* administrators and requests, failed audit writes and stops (executor.py).
THEOREM Decisions == Spec => []DecisionsFit
<1>1. Init => AInv
  BY AInitInv DEF Init
<1>2. AInv /\ [Next]_vars => AInv'
  <2> SUFFICES ASSUME AInv, [Next]_vars PROVE AInv'
    OBVIOUS
  <2>1. CASE A!ANext
    BY <2>1, AStepInv
  <2>2. CASE UNCHANGED avars
    BY <2>2 DEF avars, AInv, A!ATypeOK, Untouched, Accounted, Alone, A!VerdictGiven,
                Reading, Writing, A!On
  <2> QED
    BY <2>1, <2>2 DEF Next, vars
<1>3. AInv => DecisionsFit
  BY AInvSuffices
<1> QED
  BY <1>1, <1>2, <1>3, PTL DEF Spec

----------------------------------------------------------------------------
(***************************************************************************
 Docker hosts.  A client that is being dialled is open, unregistered and nobody
 else's.  As long as no dial has begun during another and no client was dropped
 under a second call, there is one dial at most, none while a client is
 registered, and every call uses the registered one.
 ***************************************************************************)
Dials == K!In("dial")

Dialling ==
  \A c \in Dials :
    /\ calls[c].client \in open /\ calls[c].client \in Clients
    /\ calls[c].client # registered
    /\ \A d \in Callers \ {c} : calls[d].client # calls[c].client

Orderly ==
  overlaps = 0 =>
    /\ \A c, d \in Dials : c = d
    /\ Dials # {} => registered = NoClient
    /\ ~shared => \A c \in K!In("use") :
                    registered # NoClient /\ registered = calls[c].client

Leaked == open \ (K!Dialled \cup {registered})

\* Each dial under way that may still cost a client began during another: all of
\* them if a client is registered, all but one otherwise.
AtRisk == IF registered # NoClient \/ Dials = {}
          THEN Cardinality(Dials) ELSE Cardinality(Dials) - 1

Finite == IsFiniteSet(open) /\ IsFiniteSet(Dials)
Budget == Cardinality(Leaked) + AtRisk <= overlaps

DInv == K!KTypeOK /\ K!NoMarkedClient /\ K!OwnClientDropped /\ Dialling /\ Orderly
LInv == DInv /\ Finite /\ Budget

LEMMA Fields ==
  \A step, x, n : /\ K!Doing(step, x, n).step = step
                  /\ K!Doing(step, x, n).client = x
                  /\ K!Doing(step, x, n).attempt = n
  BY DEF K!Doing

DSteps == {"idle", "get", "dial", "use"}

LEMMA DoingTyped ==
  ASSUME NEW step \in DSteps, NEW x \in Clients \cup {NoClient}, NEW n \in 0..2
  PROVE  K!Doing(step, x, n) \in
           [step : DSteps, client : Clients \cup {NoClient}, attempt : 0..2]
  BY DEF K!Doing

LEMMA DInitInv == K!KInit => LInv
<1> SUFFICES ASSUME K!KInit PROVE LInv
  OBVIOUS
<1>1. /\ calls = [c \in Callers |-> K!Resting]
      /\ K!Resting.step = "idle" /\ K!Resting.client = NoClient
      /\ registered = NoClient /\ errorAt = K!NoError /\ open = {} /\ second = 0
      /\ overlaps = 0 /\ shared = FALSE /\ innocent = FALSE
  BY Fields DEF K!KInit, K!Resting
<1>2. Dials = {} /\ Leaked = {} /\ K!In("use") = {}
  BY <1>1 DEF Dials, K!In, Leaked
<1>3. K!Resting \in [step : DSteps, client : Clients \cup {NoClient}, attempt : 0..2]
  BY DoingTyped DEF K!Resting, DSteps
<1>4. K!KTypeOK
  <2>1. calls \in [Callers -> [step : DSteps, client : Clients \cup {NoClient}, attempt : 0..2]]
    BY <1>1, <1>3
  <2>2. second \in 0..MaxSeconds /\ overlaps \in 0..MaxOverlaps
    BY <1>1, BackendAssumption
  <2> QED
    BY <1>1, <2>1, <2>2 DEF K!KTypeOK, DSteps
<1>5. K!NoMarkedClient /\ K!OwnClientDropped /\ Dialling /\ Orderly
  BY <1>1, <1>2 DEF K!NoMarkedClient, K!OwnClientDropped, Dialling, Orderly
<1> QED
  BY <1>1, <1>2, <1>4, <1>5, FS_EmptySet DEF LInv, DInv, Finite, Budget, AtRisk

(***************************************************************************
 The steps that change no client, dial or mark: a call begins, finds a client or
 the cooldown, or is answered.
 ***************************************************************************)
\* Thread c goes on to step, with client x and attempt n.
Goes(c, step, x, n) == calls' = [calls EXCEPT ![c] = K!Doing(step, x, n)]

LEMMA Moved ==
  ASSUME K!KTypeOK, NEW c \in Callers, NEW step \in DSteps,
         NEW x \in Clients \cup {NoClient}, NEW n \in 0..2, Goes(c, step, x, n)
  PROVE  /\ calls' \in [Callers -> [step : DSteps, client : Clients \cup {NoClient},
                                    attempt : 0..2]]
         /\ calls'[c].step = step /\ calls'[c].client = x
         /\ \A d \in Callers \ {c} : calls'[d] = calls[d]
         /\ Dials' = IF step = "dial" THEN Dials \cup {c} ELSE Dials \ {c}
         /\ K!In("use")' = IF step = "use" THEN K!In("use") \cup {c} ELSE K!In("use") \ {c}
         /\ K!Dialled' = IF step = "dial"
                        THEN {calls[d].client : d \in Dials \ {c}} \cup {x}
                        ELSE {calls[d].client : d \in Dials \ {c}}
<1>1. calls' \in [Callers -> [step : DSteps, client : Clients \cup {NoClient}, attempt : 0..2]]
  BY DoingTyped DEF Goes, K!KTypeOK, DSteps
<1>2. calls'[c].step = step /\ calls'[c].client = x
  BY Fields DEF Goes, K!KTypeOK
<1>3. \A d \in Callers \ {c} : calls'[d] = calls[d]
  BY DEF Goes, K!KTypeOK
<1>4. Dials' = IF step = "dial" THEN Dials \cup {c} ELSE Dials \ {c}
  BY <1>2, <1>3 DEF Dials, K!In
<1>5. K!In("use")' = IF step = "use" THEN K!In("use") \cup {c} ELSE K!In("use") \ {c}
  BY <1>2, <1>3 DEF K!In
<1>6. K!Dialled' = {calls'[d].client : d \in Dials'}
  BY DEF K!Dialled, Dials
<1>7. \A d \in Dials \ {c} : calls'[d].client = calls[d].client
  BY <1>3 DEF Dials, K!In
<1> QED
  BY <1>1, <1>2, <1>3, <1>4, <1>5, <1>6, <1>7

LEMMA QuietStep ==
  ASSUME LInv, NEW c \in Callers, c \notin Dials, NEW step \in {"idle", "get", "use"},
         NEW x \in {NoClient, registered}, NEW n \in 0..2, Goes(c, step, x, n),
         step = "use" => x = registered /\ registered # NoClient,
         UNCHANGED <<second, registered, errorAt, open, overlaps, shared, innocent>>
  PROVE  LInv'
<1> USE DEF LInv, DInv
<1>1. K!KTypeOK /\ step \in DSteps /\ step # "dial" /\ x \in Clients \cup {NoClient}
  BY DEF K!KTypeOK, DSteps
<1>2. /\ Dials' = Dials /\ K!Dialled' = {calls[d].client : d \in Dials}
      /\ K!In("use")' \subseteq K!In("use") \cup {c}
      /\ step # "use" => K!In("use")' = K!In("use") \ {c}
      /\ \A d \in Callers \ {c} : calls'[d] = calls[d]
      /\ calls'[c].client = x
  <2>1. /\ Dials' = Dials \ {c}
        /\ K!In("use")' = IF step = "use" THEN K!In("use") \cup {c} ELSE K!In("use") \ {c}
        /\ K!Dialled' = {calls[d].client : d \in Dials \ {c}}
        /\ \A d \in Callers \ {c} : calls'[d] = calls[d]
        /\ calls'[c].client = x
    BY <1>1, Moved
  <2>2. Dials \ {c} = Dials
    OBVIOUS
  <2> QED
    BY <2>1, <2>2
<1>3. K!Dialled' = K!Dialled /\ Leaked' = Leaked
  BY <1>2 DEF K!Dialled, Dials, Leaked
<1>4. K!KTypeOK'
  BY <1>1, Moved DEF K!KTypeOK, DSteps
<1>5. Dialling'
  BY <1>2, BackendAssumption DEF Dialling, Dials, K!In
<1>6. Orderly'
  BY <1>2 DEF Orderly, Dials, K!In
<1> QED
  BY <1>2, <1>3, <1>4, <1>5, <1>6 DEF K!NoMarkedClient, K!OwnClientDropped, Finite, Budget, AtRisk

\* A dead connection, or any other failure of a call: what is registered is dropped.
LEMMA DropStep ==
  ASSUME LInv, NEW c \in K!In("use"), NEW step \in {"idle", "get"}, NEW n \in 0..2,
         Goes(c, step, NoClient, n), K!Drop(c), errorAt' \in {errorAt, second},
         UNCHANGED <<second, overlaps>>
  PROVE  LInv'
<1> USE DEF LInv, DInv
<1>1. K!KTypeOK /\ c \in Callers /\ c \notin Dials /\ step \in DSteps /\ step # "dial"
  BY DEF K!KTypeOK, DSteps, K!In, Dials
<1>2. /\ Dials' = Dials /\ K!Dialled' = {calls[d].client : d \in Dials}
      /\ K!In("use")' = K!In("use") \ {c}
      /\ \A d \in Callers \ {c} : calls'[d] = calls[d]
      /\ calls'[c].client = NoClient
  <2>1. NoClient \in Clients \cup {NoClient} /\ step # "use"
    OBVIOUS
  <2>2. Dials \ {c} = Dials
    BY <1>1
  <2> HIDE DEF LInv, DInv
  <2>3. /\ Dials' = Dials \ {c} /\ K!Dialled' = {calls[d].client : d \in Dials \ {c}}
        /\ K!In("use")' = K!In("use") \ {c}
        /\ \A d \in Callers \ {c} : calls'[d] = calls[d]
        /\ calls'[c].client = NoClient
    BY <1>1, <2>1, Moved
  <2> QED
    BY <2>2, <2>3
<1>3. registered' = NoClient /\ open' = open \ {registered}
  BY DEF K!Drop
<1>4. K!Dialled' = K!Dialled /\ Leaked' = Leaked
  BY <1>2, <1>3, BackendAssumption DEF K!Dialled, Dials, Leaked, K!KTypeOK
<1>5. K!KTypeOK'
  BY <1>1, <1>3, Moved DEF K!KTypeOK, DSteps, K!Drop
<1>6. Dialling'
  BY <1>2, <1>3, BackendAssumption DEF Dialling, Dials, K!In
<1>7. Orderly' /\ K!OwnClientDropped'
  <2>1. ~shared' => ~shared /\ \A d \in Callers \ {c} :
                               calls[d].client = registered => registered = NoClient
    BY DEF K!Drop, K!KTypeOK
  <2>2. innocent' => innocent \/ (registered # NoClient /\ registered # calls[c].client)
    BY DEF K!Drop, K!KTypeOK
  <2>3. \A d \in K!In("use")' : d \in K!In("use") /\ d # c /\ d \in Callers
    BY <1>2 DEF K!In
  <2>4. overlaps = 0 /\ ~shared' => K!In("use")' = {}
    BY <2>1, <2>3 DEF Orderly
  <2>5. Orderly'
    BY <1>2, <1>3, <2>4 DEF Orderly
  <2>6. overlaps \in Nat
    BY DEF K!KTypeOK
  <2>7. K!OwnClientDropped'
    BY <2>1, <2>2, <2>6 DEF Orderly, K!OwnClientDropped
  <2> QED
    BY <2>5, <2>7
<1>8. Finite'
  BY <1>2, <1>3, FS_Difference DEF Finite
<1>9. Budget'
  <2>1. Cardinality(Dials) \in Nat /\ (Dials = {} <=> Cardinality(Dials) = 0)
    BY FS_EmptySet, FS_CardinalityType DEF Finite
  <2>2. AtRisk' <= AtRisk /\ AtRisk' \in Int /\ AtRisk \in Int
    BY <1>2, <1>3, <2>1 DEF AtRisk
  <2>3. IsFiniteSet(Leaked)
    BY FS_Difference DEF Finite, Leaked
  <2>4. Cardinality(Leaked) \in Nat /\ overlaps \in Nat
    BY <2>3, FS_CardinalityType DEF K!KTypeOK
  <2> QED
    BY <1>4, <2>2, <2>4 DEF Budget
<1> QED
  BY <1>3, <1>5, <1>6, <1>7, <1>8, <1>9 DEF K!NoMarkedClient

LEMMA Counts ==
  ASSUME LInv
  PROVE  /\ IsFiniteSet(Leaked) /\ Cardinality(Leaked) \in Nat /\ overlaps \in Nat
         /\ Cardinality(Dials) \in Nat /\ (Dials = {} <=> Cardinality(Dials) = 0)
<1>1. IsFiniteSet(open) /\ IsFiniteSet(Dials) /\ overlaps \in Nat
  BY DEF LInv, DInv, Finite, K!KTypeOK
<1>2. IsFiniteSet(Leaked)
  BY <1>1, FS_Difference DEF Leaked
<1> QED
  BY <1>1, <1>2, FS_CardinalityType, FS_EmptySet

\* A dial begins; the client it creates is new.
LEMMA DialBegins ==
  ASSUME LInv, NEW c \in Callers, c \notin Dials, registered = NoClient,
         NEW x \in K!Unused, Goes(c, "dial", x, calls[c].attempt), open' = open \cup {x},
         Dials # {} => overlaps < MaxOverlaps,
         overlaps' = IF Dials = {} THEN overlaps ELSE overlaps + 1,
         UNCHANGED <<second, registered, errorAt, shared, innocent>>
  PROVE  LInv'
<1> USE DEF LInv, DInv
<1>1. /\ K!KTypeOK /\ "dial" \in DSteps /\ x \in Clients \cup {NoClient}
      /\ calls[c].attempt \in 0..2 /\ x \in Clients /\ x \notin open
      /\ \A d \in Callers : calls[d].client # x
  BY DEF K!KTypeOK, DSteps, K!Unused
<1>2. /\ Dials' = Dials \cup {c}
      /\ K!Dialled' = {calls[d].client : d \in Dials \ {c}} \cup {x}
      /\ K!In("use")' = K!In("use") \ {c}
      /\ \A d \in Callers \ {c} : calls'[d] = calls[d]
      /\ calls'[c].client = x
  BY <1>1, Moved
<1>3. Dials \ {c} = Dials
  OBVIOUS
<1>4. K!Dialled' = K!Dialled \cup {x}
  BY <1>2, <1>3 DEF K!Dialled, Dials
<1>5. Leaked' = Leaked
  BY <1>1, <1>4 DEF Leaked
<1>6. K!KTypeOK'
  <2>1. overlaps' \in 0..MaxOverlaps
    BY <1>1, BackendAssumption DEF K!KTypeOK
  <2> QED
    BY <1>1, <2>1, Moved DEF K!KTypeOK, DSteps
<1>7. Dialling'
  BY <1>1, <1>2, BackendAssumption DEF Dialling, Dials, K!In
<1>8. overlaps' = 0 => overlaps = 0 /\ Dials = {}
  BY Counts
<1>9. Orderly'
  BY <1>2, <1>8 DEF Orderly, K!In
<1>10. Finite' /\ Cardinality(Dials') = Cardinality(Dials) + 1
  BY <1>2, FS_AddElement DEF Finite
<1>11. AtRisk' = Cardinality(Dials) /\ AtRisk = IF Dials = {} THEN 0 ELSE Cardinality(Dials) - 1
  BY <1>2, <1>10, Counts, FS_EmptySet DEF AtRisk
<1>12. Budget'
  BY <1>5, <1>11, Counts DEF Budget
<1>13. K!NoMarkedClient' /\ K!OwnClientDropped'
  BY Counts DEF K!NoMarkedClient, K!OwnClientDropped
<1> QED
  BY <1>6, <1>7, <1>9, <1>10, <1>12, <1>13

(***************************************************************************
 A dial ends: what is registered by then, if anything, is forgotten unclosed.
 ***************************************************************************)
LEMMA DialGone ==
  ASSUME LInv, NEW c \in Dials, NEW step \in {"idle", "use"},
         NEW x \in Clients \cup {NoClient}, NEW n \in 0..2, Goes(c, step, x, n)
  PROVE  /\ calls' \in [Callers -> [step : DSteps, client : Clients \cup {NoClient},
                                    attempt : 0..2]]
         /\ Dials' = Dials \ {c} /\ IsFiniteSet(Dials')
         /\ Cardinality(Dials') = Cardinality(Dials) - 1
         /\ K!Dialled' = K!Dialled \ {calls[c].client}
         /\ K!In("use")' = IF step = "use" THEN K!In("use") \cup {c} ELSE K!In("use")
         /\ \A d \in Callers \ {c} : calls'[d] = calls[d]
         /\ calls'[c].client = x
<1> USE DEF LInv, DInv
<1>1. K!KTypeOK /\ c \in Callers /\ c \notin K!In("use") /\ step \in DSteps /\ step # "dial"
  BY DEF K!KTypeOK, DSteps, K!In, Dials
<1>2. /\ calls' \in [Callers -> [step : DSteps, client : Clients \cup {NoClient},
                                  attempt : 0..2]]
      /\ Dials' = Dials \ {c}
      /\ K!Dialled' = {calls[d].client : d \in Dials \ {c}}
      /\ K!In("use")' = IF step = "use" THEN K!In("use") \cup {c} ELSE K!In("use") \ {c}
      /\ \A d \in Callers \ {c} : calls'[d] = calls[d]
      /\ calls'[c].client = x
  BY <1>1, Moved
<1>3. \A d \in Dials \ {c} : calls[d].client # calls[c].client
  BY DEF Dialling, Dials, K!In
<1>4. {calls[d].client : d \in Dials \ {c}} = K!Dialled \ {calls[c].client}
  BY <1>3 DEF K!Dialled, Dials
<1>5. IsFiniteSet(Dials \ {c}) /\ Cardinality(Dials \ {c}) = Cardinality(Dials) - 1
  BY FS_RemoveElement DEF Finite
<1>6. K!In("use") \ {c} = K!In("use")
  BY <1>1
<1> QED
  BY <1>2, <1>4, <1>5, <1>6

\* The budget when a dial ends: Leaked gets the client registered, if any.
LEMMA BudgetKept ==
  ASSUME LInv, NEW c \in Dials, Cardinality(Dials') = Cardinality(Dials) - 1,
         Leaked' = Leaked \cup (IF registered = NoClient THEN {} ELSE {registered}),
         overlaps' = overlaps
  PROVE  Budget'
<1>1. /\ Cardinality(Leaked) \in Nat /\ overlaps \in Nat /\ Cardinality(Dials) \in Nat
      /\ Cardinality(Dials) # 0 /\ IsFiniteSet(Leaked)
  BY Counts
<1>2. AtRisk' <= Cardinality(Dials) - 1 /\ AtRisk' \in Int
  BY <1>1 DEF AtRisk
<1>3. CASE registered = NoClient
  <2>1. Cardinality(Leaked') = Cardinality(Leaked)
    BY <1>3
  <2>2. AtRisk = Cardinality(Dials) - 1
    BY <1>3 DEF AtRisk
  <2>3. Cardinality(Leaked) + AtRisk <= overlaps
    BY DEF LInv, Budget
  <2> QED
    BY <1>1, <1>2, <2>1, <2>2, <2>3 DEF Budget
<1>4. CASE registered # NoClient
  <2>1. Cardinality(Leaked') = Cardinality(Leaked) + 1
    BY <1>1, <1>4, FS_AddElement DEF Leaked
  <2>2. AtRisk = Cardinality(Dials)
    BY <1>4 DEF AtRisk
  <2>3. Cardinality(Leaked) + AtRisk <= overlaps
    BY DEF LInv, Budget
  <2> QED
    BY <1>1, <1>2, <2>1, <2>2, <2>3 DEF Budget
<1> QED
  BY <1>3, <1>4

\* The ping is answered.
LEMMA DialAnswered == ASSUME LInv, NEW c \in Callers, K!DialOk(c) PROVE LInv'
<1> USE DEF LInv, DInv
<1> PICK x : x = calls[c].client
  OBVIOUS
<1>1. /\ c \in Dials /\ x \in Clients /\ x \in open /\ x # registered /\ x # NoClient
      /\ x \in K!Dialled /\ calls[c].attempt \in 0..2 /\ NoClient \in Clients \cup {NoClient}
  BY BackendAssumption DEF K!DialOk, Dials, K!In, Dialling, K!Dialled, K!KTypeOK
<1>2. /\ registered' = x /\ errorAt' = K!NoError
      /\ UNCHANGED <<second, open, overlaps, shared, innocent>>
  BY DEF K!DialOk
<1>3. PICK step \in {"idle", "use"}, y \in Clients \cup {NoClient}, n \in 0..2 :
        Goes(c, step, y, n) /\ (step = "use" => y = x) /\ y \in {x, NoClient}
  BY <1>1 DEF K!DialOk, K!Got, K!End, K!Go, K!Resting, Goes
<1>4. /\ calls' \in [Callers -> [step : DSteps, client : Clients \cup {NoClient},
                                  attempt : 0..2]]
      /\ Dials' = Dials \ {c} /\ IsFiniteSet(Dials')
      /\ Cardinality(Dials') = Cardinality(Dials) - 1
      /\ K!Dialled' = K!Dialled \ {x}
      /\ K!In("use")' = IF step = "use" THEN K!In("use") \cup {c} ELSE K!In("use")
      /\ \A d \in Callers \ {c} : calls'[d] = calls[d]
      /\ calls'[c].client = y
  BY <1>1, <1>3, DialGone
<1>5. registered # NoClient => registered \in open /\ registered \notin K!Dialled
  BY DEF K!NoMarkedClient, Dialling, K!Dialled, Dials
<1>6. NoClient \notin open
  BY BackendAssumption DEF K!KTypeOK
<1>7. Leaked' = Leaked \cup (IF registered = NoClient THEN {} ELSE {registered})
  BY <1>1, <1>2, <1>4, <1>5, <1>6 DEF Leaked
<1>8. Budget'
  BY <1>1, <1>2, <1>4, <1>7, BudgetKept
<1>9. K!KTypeOK'
  BY <1>1, <1>2, <1>4 DEF K!KTypeOK, DSteps
<1>10. \A d \in Dials \ {c} : calls[d].client # x
  BY <1>1 DEF Dialling, Dials, K!In
<1>11. Dialling'
  BY <1>1, <1>2, <1>3, <1>4, <1>10, BackendAssumption DEF Dialling, Dials, K!In
<1>12. Orderly'
  <2>1. overlaps = 0 => Dials' = {}
    BY <1>1, <1>4 DEF Orderly
  <2>2. overlaps = 0 /\ ~shared => K!In("use") = {}
    BY <1>1 DEF Orderly
  <2> QED
    BY <1>1, <1>2, <1>3, <1>4, <2>1, <2>2 DEF Orderly
<1>13. K!NoMarkedClient' /\ K!OwnClientDropped'
  BY <1>1, <1>2 DEF K!NoMarkedClient, K!OwnClientDropped
<1> QED
  BY <1>2, <1>4, <1>8, <1>9, <1>11, <1>12, <1>13 DEF Finite

\* It is not.
LEMMA DialFailed == ASSUME LInv, NEW c \in Callers, K!DialFails(c) PROVE LInv'
<1> USE DEF LInv, DInv
<1> PICK x : x = calls[c].client
  OBVIOUS
<1>1. /\ c \in Dials /\ x \in Clients /\ x \in open /\ x # registered /\ x # NoClient
      /\ x \in K!Dialled /\ NoClient \in Clients \cup {NoClient}
  BY BackendAssumption DEF K!DialFails, Dials, K!In, Dialling, K!Dialled
<1>2. /\ open' = open \ {x} /\ registered' = NoClient /\ errorAt' = second
      /\ UNCHANGED <<second, overlaps, shared, innocent>>
  BY DEF K!DialFails
<1>3. Goes(c, "idle", NoClient, 0)
  BY DEF K!DialFails, K!End, K!Resting, Goes
<1>4. /\ calls' \in [Callers -> [step : DSteps, client : Clients \cup {NoClient},
                                  attempt : 0..2]]
      /\ Dials' = Dials \ {c} /\ IsFiniteSet(Dials')
      /\ Cardinality(Dials') = Cardinality(Dials) - 1
      /\ K!Dialled' = K!Dialled \ {x}
      /\ K!In("use")' = K!In("use")
      /\ \A d \in Callers \ {c} : calls'[d] = calls[d]
      /\ calls'[c].client = NoClient
  BY <1>1, <1>3, DialGone
<1>5. registered # NoClient => registered \in open /\ registered \notin K!Dialled
  BY DEF K!NoMarkedClient, Dialling, K!Dialled, Dials
<1>6. NoClient \notin open
  BY BackendAssumption DEF K!KTypeOK
<1>7. Leaked' = Leaked \cup (IF registered = NoClient THEN {} ELSE {registered})
  BY <1>1, <1>2, <1>4, <1>5, <1>6 DEF Leaked
<1>8. Budget'
  BY <1>1, <1>2, <1>4, <1>7, BudgetKept
<1>9. K!KTypeOK'
  BY <1>1, <1>2, <1>4 DEF K!KTypeOK, DSteps
<1>10. \A d \in Dials \ {c} : calls[d].client # x
  BY <1>1 DEF Dialling, Dials, K!In
<1>11. Dialling'
  BY <1>1, <1>2, <1>4, <1>10, BackendAssumption DEF Dialling, Dials, K!In
<1>12. Orderly'
  <2>1. overlaps = 0 => Dials' = {}
    BY <1>1, <1>4 DEF Orderly
  <2>2. overlaps = 0 /\ ~shared => K!In("use") = {}
    BY <1>1 DEF Orderly
  <2> QED
    BY <1>2, <1>4, <2>1, <2>2 DEF Orderly
<1>13. K!NoMarkedClient' /\ K!OwnClientDropped'
  BY <1>1, <1>2 DEF K!NoMarkedClient, K!OwnClientDropped
<1>14. Finite'
  BY <1>2, <1>4, FS_Difference DEF Finite
<1> QED
  BY <1>8, <1>9, <1>11, <1>12, <1>13, <1>14

LEMMA DStepInv == LInv /\ K!KNext => LInv'
<1> SUFFICES ASSUME LInv, K!KNext PROVE LInv'
  OBVIOUS
<1> USE DEF LInv, DInv
<1>0. /\ K!KTypeOK /\ registered \in Clients \cup {NoClient}
      /\ \A c \in Callers : calls[c].attempt \in 0..2
      /\ NoClient \in {NoClient, registered} /\ registered \in {NoClient, registered}
      /\ {"idle", "get"} \subseteq {"idle", "get", "use"}
  BY DEF K!KTypeOK
<1>1. ASSUME NEW c \in Callers, NEW n \in {0, 1}, K!Start(c, n) PROVE LInv'
  <2>1. c \notin Dials
    BY <1>1, Fields DEF K!Start, K!Resting, Dials, K!In
  <2>2. Goes(c, "get", NoClient, n) /\ n \in 0..2
    BY <1>1 DEF K!Start, Goes
  <2> QED
    BY <1>0, <1>1, <2>1, <2>2, QuietStep DEF K!Start
<1>2. ASSUME NEW c \in Callers, K!Get(c) PROVE LInv'
  <2>1. c \notin Dials /\ UNCHANGED <<second, registered, errorAt, shared, innocent>>
    BY <1>2 DEF K!Get, Dials, K!In
  <2>2. CASE /\ registered # NoClient /\ K!Got(c, registered)
             /\ UNCHANGED <<open, overlaps>>
    <3>1. \/ Goes(c, "idle", NoClient, 0)
          \/ Goes(c, "use", registered, calls[c].attempt)
      BY <2>2 DEF K!Got, K!End, K!Go, K!Resting, Goes
    <3> QED
      BY <1>0, <2>1, <2>2, <3>1, QuietStep
  <2>3. CASE K!End(c) /\ UNCHANGED <<open, overlaps>>
    <3>1. Goes(c, "idle", NoClient, 0)
      BY <2>3 DEF K!End, K!Resting, Goes
    <3> QED
      BY <1>0, <2>1, <2>3, <3>1, QuietStep
  <2>4. CASE /\ registered = NoClient
             /\ Dials # {} => overlaps < MaxOverlaps
             /\ overlaps' = IF Dials = {} THEN overlaps ELSE overlaps + 1
             /\ \E x \in K!Unused : K!Go(c, "dial", x) /\ open' = open \cup {x}
    <3>1. PICK x \in K!Unused : K!Go(c, "dial", x) /\ open' = open \cup {x}
      BY <2>4
    <3>2. Goes(c, "dial", x, calls[c].attempt)
      BY <3>1 DEF K!Go, Goes
    <3> QED
      BY <2>1, <2>4, <3>1, <3>2, DialBegins
  <2> QED
    BY <1>2, <2>2, <2>3, <2>4 DEF K!Get, Dials
<1>3. ASSUME NEW c \in Callers, K!Answered(c) PROVE LInv'
  <2>1. c \notin Dials
    BY <1>3 DEF K!Answered, Dials, K!In
  <2>2. Goes(c, "idle", NoClient, 0)
    BY <1>3 DEF K!Answered, K!End, K!Resting, Goes
  <2> QED
    BY <1>0, <1>3, <2>1, <2>2, QuietStep DEF K!Answered
<1>4. ASSUME NEW c \in Callers, K!Transient(c) PROVE LInv'
  <2>1. c \in K!In("use") /\ Goes(c, "get", NoClient, 2)
    BY <1>4 DEF K!Transient, K!In, Goes
  <2> QED
    BY <1>4, <2>1, DropStep DEF K!Transient
<1>5. ASSUME NEW c \in Callers, K!Broken(c) PROVE LInv'
  <2>1. c \in K!In("use") /\ Goes(c, "idle", NoClient, 0)
    BY <1>5 DEF K!Broken, K!In, K!End, K!Resting, Goes
  <2> QED
    BY <1>5, <2>1, DropStep DEF K!Broken
<1>6. ASSUME K!Wait PROVE LInv'
  <2>1. /\ second' = second + 1 /\ second < MaxSeconds
        /\ UNCHANGED <<registered, errorAt, open, calls, overlaps, shared, innocent>>
    BY <1>6 DEF K!Wait
  <2>2. K!KTypeOK'
    BY <2>1, BackendAssumption DEF K!KTypeOK
  <2>3. Dials' = Dials /\ K!Dialled' = K!Dialled /\ K!In("use")' = K!In("use")
    BY <2>1 DEF Dials, K!Dialled, K!In
  <2> QED
    BY <2>1, <2>2, <2>3 DEF K!NoMarkedClient, K!OwnClientDropped, Dialling, Orderly, Finite,
                            Budget, AtRisk, Leaked
<1> QED
  BY <1>1, <1>2, <1>3, <1>4, <1>5, <1>6, DialAnswered, DialFailed DEF K!KNext

\* A marked Docker host has no client, the one that calls are given is open, a client
\* in use is dropped by another call only after two shared one or two dials overlapped, and clients leak
\* only from overlapping dials, however many threads use it (docker_hosts.py).
THEOREM DockerClients == Spec => []ClientsFit
<1>1. Init => LInv
  BY DInitInv DEF Init
<1>2. LInv /\ [Next]_vars => LInv'
  <2> SUFFICES ASSUME LInv, [Next]_vars PROVE LInv'
    OBVIOUS
  <2>1. CASE K!KNext
    BY <2>1, DStepInv
  <2>2. CASE UNCHANGED dvars
    BY <2>2 DEF dvars, LInv, DInv, K!KTypeOK, K!NoMarkedClient, K!OwnClientDropped, Dialling,
                Orderly, Finite, Budget, AtRisk, Leaked, Dials, K!Dialled, K!In
  <2> QED
    BY <2>1, <2>2 DEF Next, vars
<1>3. LInv => ClientsFit
  <2> SUFFICES ASSUME LInv PROVE ClientsFit
    OBVIOUS
  <2>1. Cardinality(Leaked) <= overlaps
    <3>1. /\ Cardinality(Leaked) \in Nat /\ overlaps \in Nat /\ Cardinality(Dials) \in Nat
          /\ (Dials = {} <=> Cardinality(Dials) = 0)
      BY Counts
    <3>2. AtRisk \in Nat
      BY <3>1 DEF AtRisk
    <3> QED
      BY <3>1, <3>2 DEF LInv, Budget
  <2>2. K!LeaksBounded
    BY <2>1 DEF K!LeaksBounded, Leaked, K!Cardinality, Cardinality
  <2> QED
    BY <2>2 DEF LInv, DInv, ClientsFit, K!ClientsFit
<1> QED
  BY <1>1, <1>2, <1>3, PTL DEF Spec

----------------------------------------------------------------------------
(***************************************************************************
 InfraReadings.  Until loads cross, one thread loads at a time; it began after
 the pauses of the failures before it, and what it was answered is no older than
 what the cache holds.  Until threads cross in _rates, one computes at a time, from
 the sample up to which the traffic is reported; an entry not done always has its
 thread.
 ***************************************************************************)
AtMost(s, t) == ~R!Older(t, s)
Loading == {t \in Overviews : thread[t].step \in {"load", "loaded"}}
Computing == {t \in Overviews : thread[t].step = "compute"}

ThreadKinds ==
  {R!Out} \cup [step : {"load"}, start : 0..MaxTick]
  \cup [step : {"loaded", "rates"}, sample : R!Sample]
  \cup [step : {"compute"}, sample : R!Sample, now : 0..MaxTick, from : R!Sample]

RTyped ==
  /\ tick \in 0..MaxTick /\ failUntil \in Nat /\ pauseEnd \in Nat /\ guest \in R!Sample
  /\ cached \in {R!Nothing} \cup [at : 0..MaxTick, sample : R!Sample]
  /\ entry \in {R!Nothing} \cup [at : 0..MaxTick, sample : R!Sample, done : BOOLEAN]
  /\ base \in R!Sample /\ reported \in Int
  /\ thread \in [Overviews -> ThreadKinds]

NoneNewer ==
  /\ cached # R!Nothing => AtMost(cached.sample, guest)
  /\ \A t \in Loading : thread[t].step = "loaded" => AtMost(thread[t].sample, guest)

OneLoad ==
  /\ \A t, u \in Loading : t = u
  /\ pauseEnd <= failUntil
  /\ \A t \in Loading :
       IF thread[t].step = "load" THEN pauseEnd <= thread[t].start
       ELSE cached # R!Nothing => AtMost(cached.sample, thread[t].sample)

DoneOrComputed == entry # R!Nothing => entry.done \/ Computing # {}

\* All is reported up to s.
ReportedTo(s) == s.boot = base.boot /\ reported = s.count - base.count

OneComputation ==
  /\ \A t, u \in Computing : t = u
  /\ \A t \in Computing :
       /\ entry # R!Nothing /\ entry.sample = thread[t].sample
       /\ ReportedTo(thread[t].from) /\ AtMost(thread[t].from, thread[t].sample)
  /\ entry # R!Nothing /\ Computing = {} => ReportedTo(entry.sample)

RInv ==
  /\ RTyped /\ NoneNewer /\ DoneOrComputed
  /\ early = FALSE /\ back = FALSE /\ blank = FALSE
  /\ loadsCrossed \in BOOLEAN /\ ratesCrossed \in BOOLEAN
  /\ ~loadsCrossed => OneLoad
  /\ ~ratesCrossed => OneComputation

LEMMA Kinds ==
  ASSUME RTyped, NEW t \in Overviews
  PROVE  /\ thread[t].step \in {"out", "load", "loaded", "rates", "compute"}
         /\ thread[t].step = "load" => thread[t].start \in 0..MaxTick
         /\ thread[t].step \in {"loaded", "rates"} => thread[t].sample \in R!Sample
         /\ thread[t].step = "compute" =>
              /\ thread[t].sample \in R!Sample /\ thread[t].now \in 0..MaxTick
              /\ thread[t].from \in R!Sample
<1>1. thread[t] \in ThreadKinds
  BY DEF RTyped
<1>2. CASE thread[t] = R!Out
  BY <1>2 DEF R!Out
<1>3. CASE thread[t] \in [step : {"load"}, start : 0..MaxTick]
  BY <1>3
<1>4. CASE thread[t] \in [step : {"loaded", "rates"}, sample : R!Sample]
  BY <1>4
<1>5. CASE thread[t] \in [step : {"compute"}, sample : R!Sample, now : 0..MaxTick,
                          from : R!Sample]
  BY <1>5
<1> QED
  BY <1>1, <1>2, <1>3, <1>4, <1>5 DEF ThreadKinds

\* Every kind of thread the actions make.
LEMMA KindsMade ==
  ASSUME NEW s \in R!Sample, NEW f \in R!Sample, NEW n \in 0..MaxTick
  PROVE  /\ R!Out \in ThreadKinds
         /\ [step |-> "load", start |-> n] \in ThreadKinds
         /\ [step |-> "loaded", sample |-> s] \in ThreadKinds
         /\ [step |-> "rates", sample |-> s] \in ThreadKinds
         /\ [step |-> "compute", sample |-> s, now |-> n, from |-> f] \in ThreadKinds
  BY DEF ThreadKinds

LEMMA ThreadMoves ==
  ASSUME RTyped, NEW t \in Overviews, NEW r \in ThreadKinds, R!Set(t, r)
  PROVE  /\ thread' \in [Overviews -> ThreadKinds] /\ thread'[t] = r
         /\ \A u \in Overviews \ {t} : thread'[u] = thread[u]
  BY DEF RTyped, R!Set

LEMMA Order ==
  /\ \A a \in R!Sample : a.boot \in Int /\ a.count \in Int /\ AtMost(a, a)
  /\ \A a, b, c \in R!Sample : AtMost(a, b) /\ AtMost(b, c) => AtMost(a, c)
<1>1. \A a \in R!Sample : a.boot \in Int /\ a.count \in Int
  BY DEF R!Sample
<1> QED
  BY <1>1 DEF AtMost, R!Older

LEMMA RInitInv == R!RInit => RInv
<1> SUFFICES ASSUME R!RInit PROVE RInv
  OBVIOUS
<1> USE BackendAssumption DEF R!RInit
<1>1. guest \in R!Sample /\ base \in R!Sample
  BY DEF R!Sample
<1>2. R!Out \in ThreadKinds
  BY DEF ThreadKinds
<1>3. RTyped
  BY <1>1, <1>2 DEF RTyped
<1>4. Loading = {} /\ Computing = {}
  BY DEF Loading, Computing, R!Out
<1>5. NoneNewer /\ DoneOrComputed
  BY <1>4 DEF NoneNewer, DoneOrComputed
<1>6. OneLoad
  BY <1>4 DEF OneLoad
<1>7. OneComputation
  BY <1>4 DEF OneComputation
<1>8. /\ early = FALSE /\ back = FALSE /\ blank = FALSE
      /\ loadsCrossed \in BOOLEAN /\ ratesCrossed \in BOOLEAN
  OBVIOUS
<1> HIDE DEF R!RInit
<1> QED
  BY <1>3, <1>5, <1>6, <1>7, <1>8 DEF RInv

----------------------------------------------------------------------------
\* A step of a thread that neither loads before it nor after it, and leaves the
\* cache alone; and one of a thread that computes neither before nor after it.
LEMMA LoadsStay ==
  ASSUME RInv, NEW t \in Overviews, NEW r \in ThreadKinds, R!Set(t, r),
         t \notin Loading, r.step \notin {"load", "loaded"},
         UNCHANGED <<R!cacheVars, guest>>
  PROVE  NoneNewer' /\ early' = FALSE /\ back' = FALSE /\ loadsCrossed' \in BOOLEAN
         /\ (~loadsCrossed' => OneLoad')
<1>1. /\ thread'[t] = r
      /\ \A u \in Overviews \ {t} : thread'[u] = thread[u]
  BY ThreadMoves DEF RInv
<1>2. Loading' = Loading
  BY <1>1 DEF Loading
<1>3. \A u \in Loading : thread'[u] = thread[u]
  BY <1>1 DEF Loading
<1> QED
  BY <1>2, <1>3 DEF RInv, NoneNewer, OneLoad, AtMost, R!cacheVars

LEMMA RatesStay ==
  ASSUME RInv, NEW t \in Overviews, NEW r \in ThreadKinds, R!Set(t, r),
         t \notin Computing, r.step # "compute", UNCHANGED R!rateVars
  PROVE  DoneOrComputed' /\ blank' = FALSE /\ ratesCrossed' \in BOOLEAN
         /\ (~ratesCrossed' => OneComputation')
<1>1. /\ thread'[t] = r
      /\ \A u \in Overviews \ {t} : thread'[u] = thread[u]
  BY ThreadMoves DEF RInv
<1>2. Computing' = Computing
  BY <1>1 DEF Computing
<1>3. \A u \in Computing : thread'[u] = thread[u]
  BY <1>1 DEF Computing
<1> QED
  BY <1>2, <1>3 DEF RInv, DoneOrComputed, OneComputation, ReportedTo, AtMost, R!rateVars

LEMMA AskingNodes ==
  ASSUME RInv, NEW t \in Overviews, R!AskNodes(t)
  PROVE  \E r \in ThreadKinds : R!Set(t, r) /\ r.step \in {"out", "rates"}
<1>1. R!Out \in ThreadKinds /\ R!Out.step = "out"
  BY DEF ThreadKinds, R!Out
<1>2. [step |-> "rates", sample |-> guest] \in ThreadKinds
  BY DEF RInv, RTyped, ThreadKinds
<1> QED
  BY <1>1, <1>2 DEF R!AskNodes

LEMMA CacheRead ==
  ASSUME RInv, NEW t \in Overviews, R!ReadCache(t)
  PROVE  RInv'
<1>1. /\ thread[t].step = "out" /\ t \notin Loading /\ t \notin Computing
      /\ UNCHANGED <<R!world, R!rateVars, cached, failUntil, pauseEnd, back>>
  BY DEF R!ReadCache, R!Out, Loading, Computing
<1>2. ASSUME NEW r \in ThreadKinds, R!Set(t, r), r.step # "compute"
      PROVE  /\ RTyped' /\ DoneOrComputed' /\ blank' = FALSE
             /\ ratesCrossed' \in BOOLEAN /\ (~ratesCrossed' => OneComputation')
  <2>1. thread' \in [Overviews -> ThreadKinds]
    BY <1>2, ThreadMoves DEF RInv
  <2>2. RTyped'
    BY <1>1, <2>1 DEF RInv, RTyped, R!world, R!rateVars
  <2> QED
    BY <1>1, <1>2, <2>2, RatesStay
<1>3. ASSUME NEW r \in ThreadKinds, R!Set(t, r), r.step \in {"out", "rates"},
             UNCHANGED <<early, loadsCrossed>>
      PROVE  RInv'
  <2>1. UNCHANGED <<R!cacheVars, guest>>
    BY <1>1, <1>3 DEF R!world, R!cacheVars
  <2> QED
    BY <1>1, <1>2, <1>3, <2>1, LoadsStay DEF RInv
<1>4. CASE R!AskNodes(t) /\ UNCHANGED <<early, loadsCrossed>>
  BY <1>3, <1>4, AskingNodes
<1>5. CASE /\ cached # R!Nothing
           /\ R!Set(t, [step |-> "rates", sample |-> cached.sample])
           /\ UNCHANGED <<early, loadsCrossed>>
  <2>1. cached.sample \in R!Sample
    BY <1>5 DEF RInv, RTyped
  <2>2. [step |-> "rates", sample |-> cached.sample] \in ThreadKinds
    BY <2>1 DEF ThreadKinds
  <2> QED
    BY <1>3, <1>5, <2>2
<1>6. CASE /\ failUntil <= tick
           /\ R!Set(t, [step |-> "load", start |-> tick])
           /\ loadsCrossed' = (loadsCrossed \/ R!Others(t, {"load", "loaded"}))
           /\ early' = (early \/ (~loadsCrossed' /\ tick < pauseEnd))
  <2> DEFINE r == [step |-> "load", start |-> tick]
  <2>1. r \in ThreadKinds
    BY DEF RInv, RTyped, ThreadKinds
  <2>2. thread'[t] = r /\ \A u \in Overviews \ {t} : thread'[u] = thread[u]
    BY <1>6, <2>1, ThreadMoves DEF RInv
  <2>3. loadsCrossed' \in BOOLEAN
    BY <1>6
  <2>4. NoneNewer'
    BY <1>1, <2>2 DEF RInv, NoneNewer, Loading, AtMost, R!world
  <2>5. ~loadsCrossed' => OneLoad'
    <3> SUFFICES ASSUME ~loadsCrossed' PROVE OneLoad'
      OBVIOUS
    <3>1. ~loadsCrossed /\ \A u \in Overviews \ {t} : u \notin Loading
      BY <1>6 DEF R!Others, Loading
    <3>2. Loading' = {t}
      BY <2>2, <3>1 DEF Loading
    <3>3. pauseEnd <= failUntil /\ pauseEnd \in Nat /\ failUntil \in Nat /\ tick \in Nat
      BY <3>1, BackendAssumption DEF RInv, RTyped, OneLoad
    <3>4. pauseEnd' <= thread'[t].start /\ thread'[t].step = "load"
      BY <1>1, <1>6, <2>2, <3>3
    <3> QED
      BY <1>1, <3>2, <3>3, <3>4 DEF OneLoad
  <2>6. early' = FALSE
    <3>1. ~loadsCrossed' => ~(tick < pauseEnd)
      BY <1>6, BackendAssumption DEF RInv, RTyped, OneLoad
    <3> QED
      BY <1>6, <3>1 DEF RInv
  <2> QED
    BY <1>1, <1>2, <1>6, <2>1, <2>3, <2>4, <2>5, <2>6 DEF RInv
<1>7. failUntil \in Int /\ tick \in Int
  BY DEF RInv, RTyped
<1> QED
  BY <1>4, <1>5, <1>6, <1>7 DEF R!ReadCache

LEMMA LoadAnswered ==
  ASSUME RInv, NEW t \in Overviews, R!Load(t)
  PROVE  RInv'
<1> DEFINE r == [step |-> "loaded", sample |-> guest]
<1>1. /\ thread[t].step = "load" /\ R!Set(t, r) /\ UNCHANGED <<R!world, R!cacheVars, R!rateVars>>
      /\ t \in Loading /\ t \notin Computing
  BY DEF R!Load, Loading, Computing
<1>2. r \in ThreadKinds
  BY DEF RInv, RTyped, ThreadKinds
<1>3. /\ thread' \in [Overviews -> ThreadKinds] /\ thread'[t] = r
      /\ \A u \in Overviews \ {t} : thread'[u] = thread[u]
  BY <1>1, <1>2, ThreadMoves DEF RInv
<1>4. RTyped'
  BY <1>1, <1>3 DEF RInv, RTyped, R!world, R!cacheVars, R!rateVars
<1>5. Loading' = Loading
  BY <1>1, <1>3 DEF Loading
<1>6. guest \in R!Sample /\ AtMost(guest, guest)
  BY Order DEF RInv, RTyped
<1>7. NoneNewer'
  BY <1>1, <1>3, <1>5, <1>6 DEF RInv, NoneNewer, Loading, AtMost, R!world, R!cacheVars
<1>8. ~loadsCrossed' => OneLoad'
  BY <1>1, <1>3, <1>5 DEF RInv, NoneNewer, OneLoad, Loading, AtMost, R!world, R!cacheVars
<1>9. /\ DoneOrComputed' /\ blank' = FALSE /\ ratesCrossed' \in BOOLEAN
      /\ (~ratesCrossed' => OneComputation')
  BY <1>1, <1>2, RatesStay
<1> QED
  BY <1>1, <1>4, <1>7, <1>8, <1>9 DEF RInv, R!cacheVars

LEMMA LoadStored ==
  ASSUME RInv, NEW t \in Overviews, R!Store(t)
  PROVE  RInv'
<1> DEFINE s == thread[t].sample
           r == [step |-> "rates", sample |-> s]
<1>1. /\ thread[t].step = "loaded" /\ R!Set(t, r)
      /\ failUntil' = 0 /\ pauseEnd' = 0 /\ cached' = [at |-> tick, sample |-> s]
      /\ back' = (back \/ (~loadsCrossed /\ cached # R!Nothing
                             /\ R!Older(s, cached.sample)))
      /\ UNCHANGED <<R!world, R!rateVars, early, loadsCrossed>>
      /\ t \in Loading /\ t \notin Computing
  BY DEF R!Store, Loading, Computing
<1>2. s \in R!Sample /\ r \in ThreadKinds
  BY <1>1, Kinds DEF RInv, ThreadKinds
<1>3. /\ thread' \in [Overviews -> ThreadKinds] /\ thread'[t] = r
      /\ \A u \in Overviews \ {t} : thread'[u] = thread[u]
  BY <1>1, <1>2, ThreadMoves DEF RInv
<1>4. AtMost(s, guest) /\ (~loadsCrossed /\ cached # R!Nothing => AtMost(cached.sample, s))
  BY <1>1 DEF RInv, NoneNewer, OneLoad
<1> HIDE DEF s
<1>5. RTyped'
  <2>1. cached' \in [at : 0..MaxTick, sample : R!Sample]
    BY <1>1, <1>2 DEF RInv, RTyped
  <2> QED
    BY <1>1, <1>3, <2>1 DEF RInv, RTyped, R!world, R!rateVars
<1>6. Loading' = Loading \ {t}
  BY <1>3 DEF Loading
<1>7. NoneNewer'
  <2>1. cached'.sample = s
    BY <1>1
  <2> QED
    BY <1>1, <1>3, <1>4, <1>6, <2>1 DEF RInv, NoneNewer, Loading, AtMost, R!world
<1>8. ~loadsCrossed' => OneLoad'
  <2> SUFFICES ASSUME ~loadsCrossed' PROVE OneLoad'
    OBVIOUS
  <2>1. Loading' = {}
    BY <1>1, <1>6 DEF RInv, OneLoad
  <2> QED
    BY <1>1, <2>1 DEF OneLoad
<1>9. back' = FALSE
  BY <1>1, <1>4 DEF RInv, AtMost
<1>10. /\ DoneOrComputed' /\ blank' = FALSE /\ ratesCrossed' \in BOOLEAN
       /\ (~ratesCrossed' => OneComputation')
  BY <1>1, <1>2, RatesStay
<1> QED
  BY <1>1, <1>5, <1>7, <1>8, <1>9, <1>10 DEF RInv

LEMMA LoadFailed ==
  ASSUME RInv, NEW t \in Overviews, NEW kind \in DOMAIN Backoff, R!Fails(t, kind)
  PROVE  RInv'
<1> DEFINE until == thread[t].start + Backoff[kind]
<1>1. /\ thread[t].step = "load" /\ R!AskNodes(t) /\ failUntil' = until
      /\ pauseEnd' = IF pauseEnd > until THEN pauseEnd ELSE until
      /\ UNCHANGED <<R!world, R!rateVars, cached, early, back, loadsCrossed>>
      /\ t \in Loading /\ t \notin Computing
  BY DEF R!Fails, R!Failed, Loading, Computing
<1>2. PICK r \in ThreadKinds : R!Set(t, r) /\ r.step \in {"out", "rates"}
  BY <1>1, AskingNodes
<1>3. /\ thread' \in [Overviews -> ThreadKinds] /\ thread'[t] = r
      /\ \A u \in Overviews \ {t} : thread'[u] = thread[u]
  BY <1>2, ThreadMoves DEF RInv
<1>4. thread[t].start \in Nat /\ until \in Nat /\ Backoff[kind] \in Nat
  BY <1>1, Kinds, BackendAssumption DEF RInv
<1>5. RTyped'
  BY <1>1, <1>3, <1>4 DEF RInv, RTyped, R!world, R!rateVars
<1>6. Loading' = Loading \ {t}
  BY <1>2, <1>3 DEF Loading
<1>7. NoneNewer'
  BY <1>1, <1>3, <1>6 DEF RInv, NoneNewer, Loading, AtMost, R!world
<1>8. ~loadsCrossed' => OneLoad'
  <2> SUFFICES ASSUME ~loadsCrossed' PROVE OneLoad'
    OBVIOUS
  <2>1. Loading' = {}
    BY <1>1, <1>6 DEF RInv, OneLoad
  <2>2. pauseEnd <= thread[t].start /\ pauseEnd \in Nat
    BY <1>1 DEF RInv, RTyped, OneLoad
  <2>3. pauseEnd' <= failUntil'
    BY <1>1, <1>4, <2>2
  <2> QED
    BY <2>1, <2>3 DEF OneLoad
<1>9. /\ DoneOrComputed' /\ blank' = FALSE /\ ratesCrossed' \in BOOLEAN
      /\ (~ratesCrossed' => OneComputation')
  BY <1>1, <1>2, RatesStay
<1> QED
  BY <1>1, <1>5, <1>7, <1>8, <1>9 DEF RInv

LEMMA RatesEntered ==
  ASSUME RInv, NEW t \in Overviews, R!EnterRates(t)
  PROVE  RInv'
<1> DEFINE s == thread[t].sample
           soon == entry # R!Nothing /\ tick - entry.at < Soon
           c == [step |-> "compute", sample |-> s, now |-> tick, from |-> entry.sample]
<1>1. /\ thread[t].step = "rates" /\ t \notin Loading /\ t \notin Computing
      /\ UNCHANGED <<R!world, R!cacheVars>>
      /\ ratesCrossed' = (ratesCrossed \/ R!Others(t, {"compute"})
                            \/ (~soon /\ entry # R!Nothing /\ R!Older(s, entry.sample)))
      /\ blank' = (blank \/ (~ratesCrossed' /\ soon /\ ~entry.done))
  BY DEF R!EnterRates, Loading, Computing
<1>2. s \in R!Sample
  BY <1>1, Kinds DEF RInv
<1>3. R!Out \in ThreadKinds /\ R!Out.step = "out"
  BY DEF ThreadKinds, R!Out
<1>4. ~ratesCrossed' =>
        /\ ~ratesCrossed /\ Computing = {}
        /\ ~soon /\ entry # R!Nothing => AtMost(entry.sample, s)
  BY <1>1 DEF R!Others, Computing, AtMost
<1>5. blank' = FALSE /\ ratesCrossed' \in BOOLEAN
  <2>1. ~ratesCrossed' /\ soon => entry.done
    BY <1>4 DEF RInv, DoneOrComputed
  <2> QED
    BY <1>1, <2>1 DEF RInv
<1> HIDE DEF s
<1>6. ASSUME NEW r \in ThreadKinds, R!Set(t, r), r.step \in {"out", "compute"}
      PROVE  /\ NoneNewer' /\ early' = FALSE /\ back' = FALSE /\ loadsCrossed' \in BOOLEAN
             /\ (~loadsCrossed' => OneLoad')
             /\ thread' \in [Overviews -> ThreadKinds] /\ thread'[t] = r
             /\ \A u \in Overviews \ {t} : thread'[u] = thread[u]
  <2>1. UNCHANGED <<R!cacheVars, guest>>
    BY <1>1 DEF R!world
  <2>2. /\ thread' \in [Overviews -> ThreadKinds] /\ thread'[t] = r
        /\ \A u \in Overviews \ {t} : thread'[u] = thread[u]
    BY <1>6, ThreadMoves DEF RInv
  <2> QED
    BY <1>1, <1>6, <2>1, <2>2, LoadsStay
<1>7. CASE soon /\ R!Set(t, R!Out) /\ UNCHANGED <<entry, base, reported>>
  <2>1. /\ thread'[t].step = "out"
        /\ \A u \in Overviews \ {t} : thread'[u] = thread[u]
    BY <1>3, <1>6, <1>7
  <2>2. Computing' = Computing
    BY <1>1, <2>1 DEF Computing
  <2>3. DoneOrComputed'
    BY <1>7, <2>2 DEF RInv, DoneOrComputed
  <2>4. ~ratesCrossed' => OneComputation'
    BY <1>4, <1>7, <2>2 DEF RInv, OneComputation, ReportedTo
  <2>5. RTyped'
    BY <1>1, <1>3, <1>6, <1>7 DEF RInv, RTyped, R!world, R!cacheVars
  <2> QED
    BY <1>3, <1>5, <1>6, <1>7, <2>3, <2>4, <2>5 DEF RInv
<1>8. CASE /\ entry' = [at |-> tick, sample |-> s, done |-> TRUE]
           /\ R!Set(t, R!Out) /\ R!Restarted(s)
  <2>1. /\ thread'[t].step = "out"
        /\ \A u \in Overviews \ {t} : thread'[u] = thread[u]
    BY <1>3, <1>6, <1>8
  <2>2. Computing' = Computing
    BY <1>1, <2>1 DEF Computing
  <2>3. DoneOrComputed'
    BY <1>8 DEF DoneOrComputed
  <2>4. ~ratesCrossed' => OneComputation'
    <3>1. base' = s /\ reported' = 0 /\ entry'.sample = s
      BY <1>8 DEF R!Restarted
    <3>2. s.count \in Int
      BY <1>2, Order
    <3>3. ReportedTo(entry.sample)'
      BY <3>1, <3>2 DEF ReportedTo
    <3> QED
      BY <1>4, <2>2, <3>3 DEF OneComputation
  <2>5. RTyped'
    <3>1. entry' \in [at : 0..MaxTick, sample : R!Sample, done : BOOLEAN]
      BY <1>2, <1>8 DEF RInv, RTyped
    <3>2. base' \in R!Sample /\ reported' \in Int
      BY <1>2, <1>8 DEF R!Restarted
    <3>3. thread' \in [Overviews -> ThreadKinds]
      BY <1>3, <1>6, <1>8
    <3>4. UNCHANGED <<tick, guest, cached, failUntil, pauseEnd>>
      BY <1>1 DEF R!world, R!cacheVars
    <3> QED
      BY <3>1, <3>2, <3>3, <3>4 DEF RInv, RTyped
  <2> QED
    BY <1>3, <1>5, <1>6, <1>8, <2>3, <2>4, <2>5 DEF RInv
<1>9. CASE /\ ~soon /\ entry # R!Nothing
           /\ entry' = [at |-> tick, sample |-> s, done |-> FALSE]
           /\ R!Set(t, c) /\ UNCHANGED <<base, reported>>
  <2>1. entry.sample \in R!Sample /\ tick \in 0..MaxTick
    BY <1>9 DEF RInv, RTyped
  <2>2. c \in ThreadKinds /\ c.step = "compute"
    BY <1>2, <2>1 DEF ThreadKinds
  <2>3. /\ thread'[t] = c
        /\ \A u \in Overviews \ {t} : thread'[u] = thread[u]
    BY <1>6, <1>9, <2>2
  <2>4. Computing' = Computing \cup {t}
    BY <2>2, <2>3 DEF Computing
  <2>5. DoneOrComputed'
    BY <2>4 DEF DoneOrComputed
  <2>6. ~ratesCrossed' => OneComputation'
    <3> SUFFICES ASSUME ~ratesCrossed' PROVE OneComputation'
      OBVIOUS
    <3>1. Computing' = {t} /\ ReportedTo(entry.sample) /\ AtMost(entry.sample, s)
      BY <1>4, <1>9, <2>4 DEF RInv, OneComputation
    <3>2. /\ thread'[t].from = entry.sample /\ thread'[t].sample = s
          /\ entry'.sample = s /\ entry' # R!Nothing
      BY <1>9, <2>3 DEF R!Nothing
    <3> QED
      BY <1>9, <3>1, <3>2 DEF OneComputation, ReportedTo, AtMost
  <2>7. RTyped'
    <3>1. entry' \in [at : 0..MaxTick, sample : R!Sample, done : BOOLEAN]
      BY <1>2, <1>9, <2>1
    <3> QED
      BY <1>1, <1>6, <1>9, <2>2, <3>1 DEF RInv, RTyped, R!world, R!cacheVars
  <2> QED
    BY <1>5, <1>6, <1>9, <2>2, <2>5, <2>6, <2>7 DEF RInv
<1> QED
  BY <1>7, <1>8, <1>9 DEF R!EnterRates, s

LEMMA RatesWritten ==
  ASSUME RInv, NEW t \in Overviews, R!WriteRates(t)
  PROVE  RInv'
<1> DEFINE s == thread[t].sample
           f == thread[t].from
           delta == s.count - f.count
<1>1. /\ thread[t].step = "compute" /\ t \notin Loading /\ t \in Computing
      /\ UNCHANGED <<R!world, R!cacheVars, blank, ratesCrossed>>
      /\ entry' = [at |-> thread[t].now, sample |-> s, done |-> TRUE]
      /\ R!Set(t, R!Out)
      /\ IF s.boot # f.boot THEN R!Restarted(s)
         ELSE reported' = reported + (IF delta < 0 THEN 0 ELSE delta) /\ UNCHANGED base
  BY DEF R!WriteRates, Loading, Computing
<1>2. s \in R!Sample /\ f \in R!Sample /\ thread[t].now \in 0..MaxTick
  BY <1>1, Kinds DEF RInv
<1>3. R!Out \in ThreadKinds /\ R!Out.step = "out"
  BY DEF ThreadKinds, R!Out
<1>4. /\ thread' \in [Overviews -> ThreadKinds] /\ thread'[t] = R!Out
      /\ \A u \in Overviews \ {t} : thread'[u] = thread[u]
  BY <1>1, <1>3, ThreadMoves DEF RInv
<1>5. /\ NoneNewer' /\ early' = FALSE /\ back' = FALSE /\ loadsCrossed' \in BOOLEAN
      /\ (~loadsCrossed' => OneLoad')
  <2>1. UNCHANGED <<R!cacheVars, guest>>
    BY <1>1 DEF R!world
  <2> QED
    BY <1>1, <1>3, <2>1, LoadsStay
<1>6. ~ratesCrossed => ReportedTo(f) /\ AtMost(f, s)
  BY <1>1 DEF RInv, OneComputation
<1>7. s.count \in Int /\ f.count \in Int /\ s.boot \in Int /\ f.boot \in Int
  BY <1>2, Order
<1> HIDE DEF s, f
<1>8. base' \in R!Sample /\ reported' \in Int
  <2>1. CASE s.boot # f.boot
    BY <1>1, <1>2, <2>1 DEF R!Restarted
  <2>2. CASE s.boot = f.boot
    <3>1. base \in R!Sample /\ reported \in Int
      BY DEF RInv, RTyped
    <3> QED
      BY <1>1, <1>7, <2>2, <3>1
  <2> QED
    BY <2>1, <2>2
<1>9. RTyped'
  <2>1. entry' \in [at : 0..MaxTick, sample : R!Sample, done : BOOLEAN]
    BY <1>1, <1>2
  <2> QED
    BY <1>1, <1>4, <1>8, <2>1 DEF RInv, RTyped, R!world, R!cacheVars
<1>10. DoneOrComputed'
  BY <1>1 DEF DoneOrComputed
<1>11. ~ratesCrossed' => OneComputation'
  <2> SUFFICES ASSUME ~ratesCrossed' PROVE OneComputation'
    OBVIOUS
  <2>1. ~ratesCrossed
    BY <1>1
  <2>2. Computing' = {}
    BY <1>1, <1>3, <1>4, <2>1 DEF RInv, OneComputation, Computing
  <2>3. s.boot = base'.boot /\ reported' = s.count - base'.count
    <3>1. CASE s.boot # f.boot
      BY <1>1, <1>7, <3>1 DEF R!Restarted
    <3>2. CASE s.boot = f.boot
      <4>1. base' = base /\ f.boot = base.boot /\ reported = f.count - base.count
        BY <1>1, <1>6, <2>1, <3>2 DEF ReportedTo
      <4>2. delta >= 0
        BY <1>6, <1>7, <2>1, <3>2 DEF AtMost, R!Older
      <4>3. reported' = reported + delta
        BY <1>1, <1>7, <3>2, <4>2
      <4>4. base.count \in Int
        BY Order DEF RInv, RTyped
      <4> QED
        BY <1>7, <3>2, <4>1, <4>3, <4>4
    <3> QED
      BY <3>1, <3>2
  <2>4. entry'.sample = s
    BY <1>1
  <2> QED
    BY <2>2, <2>3, <2>4 DEF OneComputation, ReportedTo
<1> QED
  BY <1>1, <1>5, <1>9, <1>10, <1>11 DEF RInv

\* The guest only goes on: no sample gets newer than it.
LEMMA WorldGoesOn ==
  ASSUME RInv, guest' \in R!Sample, AtMost(guest, guest'), tick' \in 0..MaxTick,
         UNCHANGED <<R!cacheVars, R!rateVars, thread>>
  PROVE  RInv'
<1>1. Loading' = Loading /\ Computing' = Computing
  BY DEF Loading, Computing
<1>2. NoneNewer'
  <2>1. ASSUME NEW a \in R!Sample, AtMost(a, guest) PROVE AtMost(a, guest')
    BY <2>1, Order DEF RInv, RTyped
  <2>2. cached # R!Nothing => cached.sample \in R!Sample
    BY DEF RInv, RTyped
  <2>3. \A u \in Loading : thread[u].step = "loaded" => thread[u].sample \in R!Sample
    BY Kinds DEF RInv, Loading
  <2>4. cached' # R!Nothing => AtMost(cached'.sample, guest')
    BY <2>1, <2>2 DEF RInv, NoneNewer, R!cacheVars
  <2>5. \A u \in Loading : thread[u].step = "loaded" => AtMost(thread[u].sample, guest')
    BY <2>1, <2>3 DEF RInv, NoneNewer
  <2> QED
    BY <1>1, <2>4, <2>5 DEF NoneNewer, AtMost
<1>3. RTyped'
  BY DEF RInv, RTyped, R!cacheVars, R!rateVars
<1>4. (~loadsCrossed => OneLoad) => (~loadsCrossed' => OneLoad')
  BY <1>1 DEF OneLoad, AtMost, R!cacheVars
<1>5. (~ratesCrossed => OneComputation) => (~ratesCrossed' => OneComputation')
  BY <1>1 DEF OneComputation, ReportedTo, AtMost, R!rateVars
<1>6. DoneOrComputed'
  BY <1>1 DEF RInv, DoneOrComputed, R!rateVars
<1>7. UNCHANGED <<early, back, blank, loadsCrossed, ratesCrossed>>
  BY DEF R!cacheVars, R!rateVars
<1> QED
  BY <1>2, <1>3, <1>4, <1>5, <1>6, <1>7 DEF RInv

LEMMA RStepInv == RInv /\ R!RNext => RInv'
<1> SUFFICES ASSUME RInv, R!RNext PROVE RInv'
  OBVIOUS
<1>a. guest \in R!Sample /\ tick \in 0..MaxTick
  BY DEF RInv, RTyped
<1>1. ASSUME R!Traffic PROVE RInv'
  <2>1. /\ guest' = [guest EXCEPT !.count = guest.count + 1] /\ guest.count < MaxTraffic
        /\ UNCHANGED <<R!cacheVars, R!rateVars, tick, thread>>
    BY <1>1 DEF R!Traffic
  <2>2. guest' \in R!Sample
    BY <1>a, <2>1, BackendAssumption DEF R!Sample
  <2>3. AtMost(guest, guest')
    BY <1>a, <2>1 DEF R!Sample, AtMost, R!Older
  <2> QED
    BY <1>a, <2>1, <2>2, <2>3, WorldGoesOn
<1>2. ASSUME R!Reboot PROVE RInv'
  <2>1. /\ guest' = [count |-> 0, boot |-> guest.boot + 1] /\ guest.boot < MaxBoots
        /\ UNCHANGED <<R!cacheVars, R!rateVars, tick, thread>>
    BY <1>2 DEF R!Reboot
  <2>2. guest' \in R!Sample
    BY <1>a, <2>1, BackendAssumption DEF R!Sample
  <2>3. AtMost(guest, guest')
    BY <1>a, <2>1 DEF R!Sample, AtMost, R!Older
  <2> QED
    BY <1>a, <2>1, <2>2, <2>3, WorldGoesOn
<1>3. ASSUME R!SecondPasses PROVE RInv'
  <2>1. tick' \in 0..MaxTick /\ guest' = guest
        /\ UNCHANGED <<R!cacheVars, R!rateVars, thread>>
    BY <1>3, <1>a, BackendAssumption DEF R!SecondPasses
  <2>2. AtMost(guest, guest')
    BY <1>a, <2>1, Order DEF AtMost
  <2> QED
    BY <1>a, <2>1, <2>2, WorldGoesOn
<1> QED
  BY <1>1, <1>2, <1>3, CacheRead, LoadAnswered, LoadStored, LoadFailed, RatesEntered,
     RatesWritten DEF R!RNext

\* The cache honours every pause a failure asked for and never gets older while loads
\* do not cross, nobody is shown the zeros of an entry being computed, and the rates
\* account for all traffic while threads do not cross in _rates, for any number of
\* overviews, pauses and boots (services/proxmox.py, core/infra_overview.py).
THEOREM Readings == Spec => []ReadingsFit
<1>1. Init => RInv
  BY RInitInv DEF Init
<1>2. RInv /\ [Next]_vars => RInv'
  <2> SUFFICES ASSUME RInv, [Next]_vars PROVE RInv'
    OBVIOUS
  <2>1. CASE R!RNext
    BY <2>1, RStepInv
  <2>2. CASE UNCHANGED rvars
    <3>1. guest \in R!Sample /\ AtMost(guest, guest) /\ tick \in 0..MaxTick
      BY Order DEF RInv, RTyped
    <3>2. guest' = guest /\ tick' = tick /\ UNCHANGED <<R!cacheVars, R!rateVars, thread>>
      BY <2>2 DEF rvars, R!cacheVars, R!rateVars
    <3> QED
      BY <3>1, <3>2, WorldGoesOn DEF AtMost
  <2> QED
    BY <2>1, <2>2 DEF Next, vars
<1>3. RInv => ReadingsFit
  <2> SUFFICES ASSUME RInv PROVE ReadingsFit
    OBVIOUS
  <2>1. R!RTypeOK
    BY Kinds DEF RInv, RTyped, R!RTypeOK
  <2>2. R!CacheFits /\ R!NoBlankRates
    BY DEF RInv, R!CacheFits, R!NoBlankRates
  <2>3. R!TrafficConserved
    BY DEF RInv, OneComputation, ReportedTo, Computing, R!TrafficConserved
  <2> QED
    BY <2>1, <2>2, <2>3 DEF ReadingsFit, R!ReadingsFit
<1> QED
  BY <1>1, <1>2, <1>3, PTL DEF Spec

----------------------------------------------------------------------------
(***************************************************************************
 HardwareAlerts.  A title no two handlers looked for at once has an incident or at
 most one handler about to insert it; a key no two worked on at once has at most
 one handler past the debounce table, which found the table clear for as long as
 it holds nothing newer than the key's last incident.  The table is older than
 that incident only after an unacknowledged insert that no second incident has
 followed yet.
 ***************************************************************************)
WorkingOn(k) == {h \in Handlers : raising[h].step \in {"find", "insert", "note"} /\ H!Alert(h).key = k}
Inserting(t) == {h \in Handlers : raising[h].step = "insert" /\ H!Alert(h).title = t}

HandlerStates ==
  [todo : Seq(H!Alerts), at : 0..MaxTime, step : {"idle", "table", "find", "insert", "note"}]

HTyped ==
  /\ clock \in 0..MaxTime /\ source \in {"ingest", "job"}
  /\ debounce \in [H!Keys -> {H!Never} \cup 0..MaxTime]
  /\ raisedAt \in [H!Keys -> {H!Never} \cup 0..MaxTime]
  /\ incidents \in [H!Titles -> Nat]
  /\ hasty \in [H!Keys -> Nat] /\ unacked \in [H!Keys -> Nat]
  /\ raising \in [Handlers -> HandlerStates]
  /\ \A h \in Handlers : raising[h].step = "idle" <=> raising[h].todo = << >>

\* Every handler about to insert counts as if it had.
Bounded ==
  \A t \in H!Titles : incidents[t] + Cardinality(Inserting(t)) <= Cardinality(Handlers)

OneJob ==
  source = "job" =>
    /\ racedTitles = {} /\ racedKeys = {}
    /\ \A g, h \in Handlers : raising[g].step # "idle" /\ raising[h].step # "idle" => g = h

TitleFits(t) ==
  /\ incidents[t] <= 1
  /\ \A g, h \in Inserting(t) : g = h
  /\ Inserting(t) # {} => incidents[t] = 0

OneInsertion == \A t \in H!Titles \ racedTitles : TitleFits(t)

\* The table was clear for the incident h is about to look for.
Clear(h, k) == debounce[k] = H!Never \/ raising[h].at - debounce[k] >= Cooldown

KeyFits(k) ==
  /\ \A g, h \in WorkingOn(k) : g = h
  /\ \A h \in WorkingOn(k) : IF raising[h].step = "note" THEN raisedAt[k] = raising[h].at
                             ELSE Clear(h, k)
  /\ raisedAt[k] # H!Never /\ hasty[k] = unacked[k] =>
       \/ debounce[k] # H!Never /\ raisedAt[k] <= debounce[k]
       \/ \E h \in WorkingOn(k) : raising[h].step = "note"

OneWorker == \A k \in H!Keys \ racedKeys : KeyFits(k)

Noted ==
  \A h \in Handlers : raising[h].step = "note" => incidents[H!Alert(h).title] > 0

AlertsInv ==
  /\ HTyped /\ Bounded /\ OneJob /\ OneInsertion /\ OneWorker /\ Noted
  /\ H!SilenceIsFounded /\ H!CooldownHolds

LEMMA AlertFacts ==
  ASSUME HTyped, NEW h \in Handlers, raising[h].step # "idle"
  PROVE  /\ H!Alert(h) \in H!Alerts
         /\ H!Alert(h).key \in H!Keys /\ H!Alert(h).title \in H!Titles
         /\ raising[h].todo \in Seq(H!Alerts) /\ raising[h].at \in 0..MaxTime
         /\ Tail(raising[h].todo) \in Seq(H!Alerts)
         /\ Len(raising[h].todo) # 1 => Tail(raising[h].todo) # << >>
<1> DEFINE s == raising[h].todo
<1>1. s \in Seq(H!Alerts) /\ s # << >> /\ raising[h].at \in 0..MaxTime
  BY DEF HTyped, HandlerStates
<1> HIDE DEF s
<1>2. /\ Head(s) \in H!Alerts /\ Tail(s) \in Seq(H!Alerts)
      /\ Len(Tail(s)) = Len(s) - 1
  BY <1>1, HeadTailProperties
<1>3. Len(s) # 1 => Tail(s) # << >>
  <2>1. Len(s) \in Nat
    BY <1>1, LenProperties
  <2>2. Len(<< >>) = 0
    OBVIOUS
  <2>3. Len(s) # 1 => Len(Tail(s)) # 0
    BY <1>2, <2>1
  <2> QED
    BY <2>2, <2>3
<1>4. H!Alert(h) \in H!Alerts
  BY <1>2 DEF H!Alert, s
<1>5. H!Alert(h).key \in H!Keys /\ H!Alert(h).title \in H!Titles
  BY <1>4 DEF H!Keys, H!Titles
<1> QED
  BY <1>1, <1>2, <1>3, <1>4, <1>5 DEF s

\* Handler h goes on as r, and the others stay.
Becomes(h, r) ==
  /\ r \in HandlerStates /\ (r.step = "idle" <=> r.todo = << >>)
  /\ raising' = [raising EXCEPT ![h] = r]

LEMMA Becoming ==
  ASSUME HTyped, NEW h \in Handlers, NEW r, Becomes(h, r)
  PROVE  /\ raising' \in [Handlers -> HandlerStates] /\ raising'[h] = r
         /\ \A g \in Handlers \ {h} :
              raising'[g] = raising[g] /\ H!Alert(g)' = H!Alert(g)
         /\ \A g \in Handlers : raising'[g].step = "idle" <=> raising'[g].todo = << >>
         /\ H!Alert(h)' = Head(r.todo)
<1>1. /\ raising' \in [Handlers -> HandlerStates] /\ raising'[h] = r
      /\ \A g \in Handlers \ {h} : raising'[g] = raising[g]
  BY DEF HTyped, Becomes
<1>2. \A g \in Handlers : raising'[g].step = "idle" <=> raising'[g].todo = << >>
  BY <1>1 DEF HTyped, Becomes
<1> QED
  BY <1>1, <1>2 DEF H!Alert

\* The ends of a handler's steps: it is idle, or at its next alert, or goes on with
\* the same one.
LEMMA Ends ==
  ASSUME HTyped, NEW h \in Handlers, raising[h].step # "idle", H!Done(h) \/ H!Stop(h)
  PROVE  \E r : Becomes(h, r) /\ r.step \in {"idle", "table"}
<1>1. H!Idle \in HandlerStates /\ H!Idle.step = "idle" /\ H!Idle.todo = << >>
  <2>1. << >> \in Seq(H!Alerts)
    OBVIOUS
  <2> QED
    BY <2>1, BackendAssumption DEF H!Idle, HandlerStates
<1>2. CASE H!Stop(h)
  BY <1>1, <1>2 DEF H!Stop, Becomes
<1>3. CASE H!Done(h) /\ Len(raising[h].todo) # 1
  <2> DEFINE r == [todo |-> Tail(raising[h].todo), at |-> raising[h].at, step |-> "table"]
  <2>1. r \in HandlerStates /\ r.todo # << >> /\ r.step = "table"
    BY <1>3, AlertFacts DEF HandlerStates
  <2>2. raising' = [raising EXCEPT ![h] = r]
    BY <1>3 DEF H!Done, H!Work
  <2> QED
    BY <2>1, <2>2 DEF Becomes
<1> QED
  BY <1>2, <1>3 DEF H!Done

LEMMA GoesOn ==
  ASSUME HTyped, NEW h \in Handlers, raising[h].step # "idle",
         NEW step \in {"find", "insert", "note"}, H!Go(h, step)
  PROVE  /\ Becomes(h, [todo |-> raising[h].todo, at |-> raising[h].at, step |-> step])
         /\ raising'[h].step = step /\ raising'[h].at = raising[h].at
         /\ H!Alert(h)' = H!Alert(h)
<1> DEFINE r == [todo |-> raising[h].todo, at |-> raising[h].at, step |-> step]
<1>1. r \in HandlerStates /\ r.step # "idle" /\ r.todo # << >>
  BY AlertFacts DEF HTyped, HandlerStates
<1>2. Becomes(h, r)
  BY <1>1 DEF H!Go, H!Work, Becomes
<1>3. raising'[h] = r /\ H!Alert(h)' = Head(r.todo)
  BY <1>2, Becoming
<1> QED
  BY <1>2, <1>3 DEF H!Alert

----------------------------------------------------------------------------
\* What stays fitting: a title of which no incident is made and that no handler
\* starts to insert; a key whose record and table stay and that no handler starts on.
LEMMA TitleStays ==
  ASSUME NEW t, TitleFits(t), incidents'[t] = incidents[t], Inserting(t)' \subseteq Inserting(t)
  PROVE  TitleFits(t)'
  BY DEF TitleFits

LEMMA KeyStays ==
  ASSUME NEW k, KeyFits(k), raisedAt'[k] = raisedAt[k], debounce'[k] = debounce[k],
         hasty'[k] = hasty[k], unacked'[k] = unacked[k],
         WorkingOn(k)' \subseteq WorkingOn(k),
         \A g \in WorkingOn(k) : raising[g].step = "note" => g \in WorkingOn(k)',
         \A g \in WorkingOn(k)' : /\ raising'[g].at = raising[g].at
                                  /\ raising'[g].step = "note" <=> raising[g].step = "note"
  PROVE  KeyFits(k)'
<1>1. \A g, h \in WorkingOn(k)' : g = h
  BY DEF KeyFits
<1>2. \A h \in WorkingOn(k)' : IF raising'[h].step = "note" THEN raisedAt'[k] = raising'[h].at
                               ELSE Clear(h, k)'
  BY DEF KeyFits, Clear
<1>3. raisedAt'[k] # H!Never /\ hasty'[k] = unacked'[k] =>
        \/ debounce'[k] # H!Never /\ raisedAt'[k] <= debounce'[k]
        \/ \E h \in WorkingOn(k)' : raising'[h].step = "note"
  BY DEF KeyFits
<1> QED
  BY <1>1, <1>2, <1>3 DEF KeyFits

LEMMA BoundedStays ==
  ASSUME HTyped, Bounded, incidents' = incidents,
         \A t \in H!Titles : Inserting(t)' \subseteq Inserting(t)
  PROVE  Bounded'
<1> SUFFICES ASSUME NEW t \in H!Titles
             PROVE  incidents'[t] + Cardinality(Inserting(t)') <= Cardinality(Handlers)
  BY DEF Bounded
<1>1. IsFiniteSet(Inserting(t))
  BY BackendAssumption, FS_Subset DEF Inserting
<1>2. /\ Cardinality(Inserting(t)') <= Cardinality(Inserting(t))
      /\ IsFiniteSet(Inserting(t)')
  BY <1>1, FS_Subset
<1>3. /\ Cardinality(Inserting(t)') \in Nat /\ Cardinality(Inserting(t)) \in Nat
      /\ Cardinality(Handlers) \in Nat /\ incidents[t] \in Nat
  BY <1>1, <1>2, BackendAssumption, FS_CardinalityType DEF HTyped
<1> QED
  BY <1>2, <1>3 DEF Bounded

\* A handler that has left the work of its alert, or never began it.
LEMMA Leaves ==
  ASSUME HTyped, NEW h \in Handlers, NEW r, Becomes(h, r), r.step \in {"idle", "table"}
  PROVE  /\ \A t : Inserting(t)' = Inserting(t) \ {h}
         /\ \A k : WorkingOn(k)' = WorkingOn(k) \ {h}
<1>1. raising'[h].step \in {"idle", "table"}
  BY Becoming
<1>2. \A g \in Handlers \ {h} : raising'[g] = raising[g] /\ H!Alert(g)' = H!Alert(g)
  BY Becoming
<1> QED
  BY <1>1, <1>2 DEF Inserting, WorkingOn

\* One job at a time: a step that makes no handler busy keeps it so.
LEMMA JobStays ==
  ASSUME OneJob, source' = source,
         source = "job" => racedTitles' = racedTitles /\ racedKeys' = racedKeys,
         \A g \in Handlers : raising'[g].step # "idle" => raising[g].step # "idle"
  PROVE  OneJob'
  BY DEF OneJob

LEMMA SilenceStays ==
  ASSUME H!SilenceIsFounded, \A t \in H!Titles : incidents[t] > 0 => incidents'[t] > 0,
         \A k \in H!Keys : debounce'[k] # H!Never =>
           \/ debounce[k] # H!Never
           \/ \E a \in H!Alerts : a.key = k /\ incidents'[a.title] > 0
  PROVE  H!SilenceIsFounded'
<1> SUFFICES ASSUME NEW k \in H!Keys, debounce'[k] # H!Never
             PROVE  \E a \in H!Alerts : a.key = k /\ incidents'[a.title] > 0
  BY DEF H!SilenceIsFounded
<1>1. CASE debounce[k] # H!Never
  <2>1. PICK a \in H!Alerts : a.key = k /\ incidents[a.title] > 0
    BY <1>1 DEF H!SilenceIsFounded
  <2>2. a.title \in H!Titles
    BY DEF H!Titles
  <2> QED
    BY <2>1, <2>2
<1> QED
  BY <1>1

----------------------------------------------------------------------------
LEMMA AlertsInit == H!HInit => AlertsInv
<1> SUFFICES ASSUME H!HInit PROVE AlertsInv
  OBVIOUS
<1>1. /\ << >> \in Seq(H!Alerts) /\ H!Idle.step = "idle" /\ H!Idle.todo = << >>
      /\ 0 \in 0..MaxTime
  BY BackendAssumption DEF H!Idle
<1>2. H!Idle \in HandlerStates
  BY <1>1 DEF H!Idle, HandlerStates
<1>3. \A h \in Handlers : raising[h] = H!Idle
  BY DEF H!HInit
<1>4. HTyped
  BY <1>1, <1>2, <1>3 DEF H!HInit, HTyped
<1>5. \A t : Inserting(t) = {}
  BY <1>1, <1>3 DEF Inserting
<1>6. \A k : WorkingOn(k) = {}
  BY <1>1, <1>3 DEF WorkingOn
<1>7. Bounded
  <2>1. Cardinality({}) = 0 /\ Cardinality(Handlers) \in Nat
    BY BackendAssumption, FS_EmptySet, FS_CardinalityType
  <2> QED
    BY <1>5, <2>1 DEF Bounded, H!HInit
<1>8. OneInsertion
  BY <1>5 DEF OneInsertion, TitleFits, H!HInit
<1>9. OneWorker
  BY <1>6 DEF OneWorker, KeyFits, H!HInit
<1>10. OneJob /\ Noted
  BY <1>1, <1>3 DEF OneJob, Noted, H!HInit
<1>11. H!SilenceIsFounded /\ H!CooldownHolds
  BY DEF H!SilenceIsFounded, H!CooldownHolds, H!HInit
<1> QED
  BY <1>4, <1>7, <1>8, <1>9, <1>10, <1>11 DEF AlertsInv

\* What a handler that leaves its alert, or begins with one, keeps.
LEMMA LeavingKeeps ==
  ASSUME AlertsInv, NEW h \in Handlers, NEW r, Becomes(h, r), r.step \in {"idle", "table"},
         incidents' = incidents, racedTitles' = racedTitles
  PROVE  Bounded' /\ OneInsertion' /\ Noted'
<1>1. /\ HTyped /\ \A t : Inserting(t)' = Inserting(t) \ {h}
  BY Leaves DEF AlertsInv
<1>2. Bounded'
  BY <1>1, BoundedStays DEF AlertsInv
<1>3. OneInsertion'
  BY <1>1, TitleStays DEF AlertsInv, OneInsertion
<1>4. Noted'
  <2>1. raising'[h].step # "note"
    BY <1>1, Becoming
  <2>2. \A g \in Handlers \ {h} : raising'[g] = raising[g] /\ H!Alert(g)' = H!Alert(g)
    BY <1>1, Becoming
  <2>3. \A g \in Handlers : raising'[g].step = "note" =>
          raising[g].step = "note" /\ H!Alert(g)' = H!Alert(g)
    BY <2>1, <2>2
  <2> QED
    BY <2>3 DEF AlertsInv, Noted
<1> QED
  BY <1>2, <1>3, <1>4

LEMMA KeyLeft ==
  ASSUME HTyped, NEW h \in Handlers, NEW r, Becomes(h, r), r.step \in {"idle", "table"},
         NEW k, KeyFits(k), raisedAt'[k] = raisedAt[k], debounce'[k] = debounce[k],
         hasty'[k] = hasty[k], unacked'[k] = unacked[k],
         h \in WorkingOn(k) => raising[h].step # "note"
  PROVE  KeyFits(k)'
<1>1. WorkingOn(k)' = WorkingOn(k) \ {h}
  BY Leaves
<1>2. \A g \in Handlers \ {h} : raising'[g] = raising[g]
  BY Becoming
<1>3. \A g \in WorkingOn(k)' : g \in Handlers \ {h}
  BY <1>1 DEF WorkingOn
<1>4. \A g \in WorkingOn(k) : raising[g].step = "note" => g \in WorkingOn(k)'
  BY <1>1
<1> QED
  BY <1>1, <1>2, <1>3, <1>4, KeyStays

\* The handler that leaves has renewed the debounce of its key.
LEMMA KeyRenewed ==
  ASSUME HTyped, NEW h \in Handlers, NEW r, Becomes(h, r), r.step \in {"idle", "table"},
         raising[h].step \in {"find", "note"},
         NEW k, k = H!Alert(h).key, KeyFits(k), raisedAt' = raisedAt,
         hasty' = hasty, unacked' = unacked,
         debounce' = [debounce EXCEPT ![k] = raising[h].at]
  PROVE  KeyFits(k)'
<1>1. h \in WorkingOn(k)
  BY DEF WorkingOn
<1>2. WorkingOn(k)' = {} /\ \A g \in WorkingOn(k) : g = h
  <2>1. WorkingOn(k)' = WorkingOn(k) \ {h}
    BY Leaves
  <2>2. \A g \in WorkingOn(k) : g = h
    BY <1>1 DEF KeyFits
  <2> QED
    BY <2>1, <2>2
<1>3. k \in H!Keys /\ raising[h].at \in 0..MaxTime
  BY AlertFacts
<1>4. debounce'[k] = raising[h].at /\ debounce'[k] # H!Never
  BY <1>3 DEF HTyped, H!Never
<1>5. raisedAt[k] # H!Never /\ hasty[k] = unacked[k] => raisedAt[k] <= raising[h].at
  <2>1. CASE raising[h].step = "note"
    BY <2>1, <1>1, <1>3 DEF KeyFits
  <2>2. CASE raising[h].step = "find"
    <3>1. Clear(h, k)
      BY <2>2, <1>1 DEF KeyFits
    <3>2. raisedAt[k] # H!Never /\ hasty[k] = unacked[k] =>
            debounce[k] # H!Never /\ raisedAt[k] <= debounce[k]
      BY <2>2, <1>2 DEF KeyFits
    <3>3. debounce[k] \in {H!Never} \cup 0..MaxTime /\ raisedAt[k] \in {H!Never} \cup 0..MaxTime
      BY <1>3 DEF HTyped
    <3> QED
      BY <1>3, <3>1, <3>2, <3>3, BackendAssumption DEF Clear, H!Never
  <2> QED
    BY <2>1, <2>2
<1> QED
  BY <1>2, <1>4, <1>5 DEF KeyFits

LEMMA Begins ==
  ASSUME AlertsInv, NEW h \in Handlers, H!Begin(h)
  PROVE  AlertsInv'
<1>1. PICK p \in Payloads \cup Warnings :
        raising' = [raising EXCEPT ![h] = [todo |-> p, at |-> clock, step |-> "table"]]
  BY DEF H!Begin
<1> DEFINE r == [todo |-> p, at |-> clock, step |-> "table"]
<1>2. /\ UNCHANGED <<clock, source, incidents, raisedAt, hasty, unacked, racedTitles, racedKeys,
                     debounce>>
      /\ raising[h].step = "idle"
  BY DEF H!Begin, H!stay, H!store, H!races, H!At
<1>3. Becomes(h, r) /\ r.step = "table"
  <2>1. p \in Seq(H!Alerts) /\ p # << >>
    BY BackendAssumption
  <2>2. r \in HandlerStates
    BY <2>1 DEF AlertsInv, HTyped, HandlerStates
  <2> QED
    BY <1>1, <2>1, <2>2 DEF Becomes
<1> HIDE DEF r
<1>4. HTyped /\ h \notin {g \in Handlers : raising[g].step # "idle"}
  BY <1>2 DEF AlertsInv
<1>5. HTyped'
  BY <1>2, <1>3, <1>4, Becoming DEF HTyped
<1>6. Bounded' /\ OneInsertion' /\ Noted'
  BY <1>2, <1>3, LeavingKeeps
<1>7. OneWorker'
  <2>1. \A k : h \notin WorkingOn(k)
    BY <1>2 DEF WorkingOn
  <2> QED
    BY <1>2, <1>3, <1>4, <2>1, KeyLeft DEF AlertsInv, OneWorker
<1>8. OneJob'
  <2>1. source = "job" => \A g \in Handlers : raising[g].step = "idle"
    BY DEF H!Begin, H!At
  <2>2. \A g \in Handlers \ {h} : raising'[g] = raising[g]
    BY <1>3, <1>4, Becoming
  <2>3. source = "job" => \A g \in Handlers : raising'[g].step # "idle" => g = h
    BY <2>1, <2>2
  <2> QED
    BY <1>2, <2>3 DEF AlertsInv, OneJob
<1>9. H!SilenceIsFounded' /\ H!CooldownHolds'
  BY <1>2 DEF AlertsInv, H!SilenceIsFounded, H!CooldownHolds
<1> QED
  BY <1>5, <1>6, <1>7, <1>8, <1>9 DEF AlertsInv

\* A handler that is at an alert and leaves it keeps one job at a time.
LEMMA LeavingAlone ==
  ASSUME HTyped, OneJob, NEW h \in Handlers, NEW r, Becomes(h, r), raising[h].step # "idle",
         source' = source,
         source = "job" => racedTitles' = racedTitles /\ racedKeys' = racedKeys
  PROVE  OneJob'
<1>1. \A g \in Handlers \ {h} : raising'[g] = raising[g]
  BY Becoming
<1>2. \A g \in Handlers : raising'[g].step # "idle" => raising[g].step # "idle"
  BY <1>1
<1> QED
  BY <1>2, JobStays

\* What a handler that goes on with its alert keeps of the other titles and keys.
LEMMA GoingKeeps ==
  ASSUME HTyped, NEW h \in Handlers, raising[h].step # "idle",
         NEW step \in {"find", "insert", "note"}, H!Go(h, step)
  PROVE  /\ raising' \in [Handlers -> HandlerStates]
         /\ \A g \in Handlers : raising'[g].step = "idle" <=> raising'[g].todo = << >>
         /\ raising'[h].step = step /\ raising'[h].at = raising[h].at
         /\ \A g \in Handlers : H!Alert(g)' = H!Alert(g) /\ raising'[g].at = raising[g].at
         /\ \A g \in Handlers \ {h} : raising'[g] = raising[g]
         /\ \A t : t # H!Alert(h).title => Inserting(t)' = Inserting(t)
         /\ \A k : k # H!Alert(h).key => WorkingOn(k)' = WorkingOn(k)
<1> DEFINE r == [todo |-> raising[h].todo, at |-> raising[h].at, step |-> step]
<1>1. /\ Becomes(h, r)
      /\ raising'[h].step = step /\ raising'[h].at = raising[h].at
      /\ H!Alert(h)' = H!Alert(h)
  BY GoesOn
<1> HIDE DEF r
<1>2. /\ raising' \in [Handlers -> HandlerStates]
      /\ \A g \in Handlers : raising'[g].step = "idle" <=> raising'[g].todo = << >>
      /\ \A g \in Handlers \ {h} : raising'[g] = raising[g] /\ H!Alert(g)' = H!Alert(g)
  BY <1>1, Becoming
<1>3. \A g \in Handlers : H!Alert(g)' = H!Alert(g) /\ raising'[g].at = raising[g].at
  BY <1>1, <1>2
<1>4. \A t : t # H!Alert(h).title => Inserting(t)' = Inserting(t)
  BY <1>1, <1>2 DEF Inserting
<1>5. \A k : k # H!Alert(h).key => WorkingOn(k)' = WorkingOn(k)
  BY <1>1, <1>2 DEF WorkingOn
<1> QED
  BY <1>1, <1>2, <1>3, <1>4, <1>5

\* A handler that goes on keeps what fits a key it does not touch.
LEMMA OtherKeyStays ==
  ASSUME HTyped, NEW h \in Handlers, raising[h].step # "idle",
         NEW step \in {"find", "insert", "note"}, H!Go(h, step),
         NEW k, k # H!Alert(h).key, KeyFits(k),
         raisedAt'[k] = raisedAt[k], debounce'[k] = debounce[k],
         hasty'[k] = hasty[k], unacked'[k] = unacked[k]
  PROVE  KeyFits(k)'
<1>1. WorkingOn(k)' = WorkingOn(k) /\ \A g \in Handlers \ {h} : raising'[g] = raising[g]
  BY GoingKeeps
<1>2. \A g \in WorkingOn(k) : g \in Handlers \ {h}
  BY DEF WorkingOn
<1> QED
  BY <1>1, <1>2, KeyStays

LEMMA GoingAlone ==
  ASSUME HTyped, OneJob, NEW h \in Handlers, raising[h].step # "idle",
         NEW step \in {"find", "insert", "note"}, H!Go(h, step), source' = source,
         source = "job" => racedTitles' = racedTitles /\ racedKeys' = racedKeys
  PROVE  OneJob'
<1>1. \A g \in Handlers \ {h} : raising'[g] = raising[g]
  BY GoingKeeps
<1>2. \A g \in Handlers : raising'[g].step # "idle" => raising[g].step # "idle"
  BY <1>1
<1> QED
  BY <1>2, JobStays

LEMMA ChecksTable ==
  ASSUME AlertsInv, NEW h \in Handlers, H!CheckTable(h)
  PROVE  AlertsInv'
<1> PICK k : k = H!Alert(h).key
  OBVIOUS
<1> DEFINE Others == {g \in Handlers \ {h} :
                        raising[g].step \in {"find", "insert", "note"} /\ H!Alert(g).key = k}
<1>1. /\ UNCHANGED <<clock, source, incidents, raisedAt, hasty, unacked, racedTitles, debounce>>
      /\ raising[h].step = "table" /\ HTyped
      /\ racedKeys' = racedKeys \cup {H!Alert(g).key : g \in Others}
  BY DEF H!CheckTable, H!stay, H!store, H!At, AlertsInv
<1>2. racedKeys \subseteq racedKeys' /\ (k \notin racedKeys' => WorkingOn(k) = {})
  <2>1. \A g \in WorkingOn(k) : g \in Others
    BY <1>1 DEF WorkingOn
  <2>2. \A g \in Others : H!Alert(g).key = k
    OBVIOUS
  <2>3. \A g \in Others : k \in racedKeys'
    BY <1>1, <2>2
  <2> QED
    BY <1>1, <2>1, <2>3
<1>3. source = "job" => racedTitles' = racedTitles /\ racedKeys' = racedKeys
  <2>1. source = "job" => \A g \in Handlers \ {h} : raising[g].step = "idle"
    BY <1>1 DEF AlertsInv, OneJob
  <2>2. source = "job" => Others = {}
    BY <2>1
  <2> QED
    BY <1>1, <2>2
<1>4. H!SilenceIsFounded' /\ H!CooldownHolds'
  BY <1>1, <1>2 DEF AlertsInv, H!SilenceIsFounded, H!CooldownHolds
<1>5. CASE H!Debounced(h)
  <2>1. PICK r : Becomes(h, r) /\ r.step \in {"idle", "table"}
    BY <1>1, <1>5, Ends DEF H!CheckTable
  <2>2. HTyped'
    BY <1>1, <2>1, Becoming DEF HTyped
  <2>3. Bounded' /\ OneInsertion' /\ Noted'
    BY <1>1, <2>1, LeavingKeeps
  <2>4. OneWorker'
    <3>1. \A q : h \notin WorkingOn(q)
      BY <1>1 DEF WorkingOn
    <3>2. \A q \in H!Keys \ racedKeys : KeyFits(q)'
      BY <1>1, <2>1, <3>1, KeyLeft DEF AlertsInv, OneWorker
    <3> QED
      BY <1>2, <3>2 DEF OneWorker
  <2>5. OneJob'
    BY <1>1, <1>3, <2>1, LeavingAlone DEF AlertsInv
  <2> QED
    BY <1>4, <2>2, <2>3, <2>4, <2>5 DEF AlertsInv
<1>6. CASE ~H!Debounced(h)
  <2>1. H!Go(h, "find")
    BY <1>6 DEF H!CheckTable
  <2>2. /\ raising' \in [Handlers -> HandlerStates]
        /\ \A g \in Handlers : raising'[g].step = "idle" <=> raising'[g].todo = << >>
        /\ raising'[h].step = "find" /\ raising'[h].at = raising[h].at
        /\ \A g \in Handlers : H!Alert(g)' = H!Alert(g)
        /\ \A g \in Handlers \ {h} : raising'[g] = raising[g]
    BY <1>1, <2>1, GoingKeeps
  <2>3. HTyped'
    BY <1>1, <2>2 DEF HTyped
  <2>4. \A t : Inserting(t)' \subseteq Inserting(t)
    BY <1>1, <2>2 DEF Inserting
  <2>5. Bounded'
    BY <1>1, <2>4, BoundedStays DEF AlertsInv
  <2>6. OneInsertion'
    BY <1>1, <2>4, TitleStays DEF AlertsInv, OneInsertion
  <2>7. Noted'
    BY <1>1, <2>2 DEF AlertsInv, Noted
  <2>8. OneWorker'
    <3>1. ASSUME NEW q \in H!Keys \ racedKeys', q # k PROVE KeyFits(q)'
      <4>1. KeyFits(q)
        BY <1>2, <3>1 DEF AlertsInv, OneWorker
      <4> QED
        BY <1>1, <2>1, <3>1, <4>1, OtherKeyStays
    <3>2. ASSUME k \in H!Keys \ racedKeys' PROVE KeyFits(k)'
      <4>1. KeyFits(k) /\ WorkingOn(k) = {}
        BY <1>2, <3>2 DEF AlertsInv, OneWorker
      <4>2. \A g \in WorkingOn(k)' : g = h
        BY <2>2, <4>1 DEF WorkingOn
      <4>3. Clear(h, k)'
        <5>1. debounce[k] = H!Never \/ ~(raising[h].at - debounce[k] < Cooldown)
          BY <1>6 DEF H!Debounced
        <5>2. debounce[k] \in {H!Never} \cup 0..MaxTime /\ raising[h].at \in 0..MaxTime
          BY <1>1, <3>2, AlertFacts DEF HTyped
        <5>3. debounce[k] = H!Never \/ raising[h].at - debounce[k] >= Cooldown
          BY <5>1, <5>2, BackendAssumption DEF H!Never
        <5> QED
          BY <1>1, <2>2, <5>3 DEF Clear
      <4>4. raisedAt'[k] # H!Never /\ hasty'[k] = unacked'[k] =>
              debounce'[k] # H!Never /\ raisedAt'[k] <= debounce'[k]
        BY <1>1, <4>1 DEF KeyFits
      <4> QED
        BY <2>2, <4>2, <4>3, <4>4 DEF KeyFits
    <3> QED
      BY <3>1, <3>2 DEF OneWorker
  <2>9. OneJob'
    BY <1>1, <1>3, <2>1, GoingAlone DEF AlertsInv
  <2> QED
    BY <1>4, <2>3, <2>5, <2>6, <2>7, <2>8, <2>9 DEF AlertsInv
<1> QED
  BY <1>5, <1>6

LEMMA Finds ==
  ASSUME AlertsInv, NEW h \in Handlers, H!Find(h)
  PROVE  AlertsInv'
<1> PICK k, t : k = H!Alert(h).key /\ t = H!Alert(h).title
  OBVIOUS
<1>1. /\ UNCHANGED <<clock, source, incidents, raisedAt, hasty, unacked, racedKeys>>
      /\ raising[h].step = "find" /\ HTyped
      /\ k \in H!Keys /\ t \in H!Titles /\ raising[h].at \in 0..MaxTime
      /\ H!Alert(h) \in H!Alerts
  <2>1. UNCHANGED <<clock, source, incidents, raisedAt, hasty, unacked, racedKeys>>
    BY DEF H!Find, H!stay, H!store
  <2>2. raising[h].step = "find" /\ HTyped
    BY DEF H!Find, H!At, AlertsInv
  <2>3. raising[h].step # "idle"
    BY <2>2
  <2> QED
    BY <2>1, <2>2, <2>3, AlertFacts
<1>2. CASE incidents[t] > 0
  <2>1. /\ debounce' = [debounce EXCEPT ![k] = raising[h].at]
        /\ racedTitles' = racedTitles /\ H!Done(h)
    BY <1>2 DEF H!Find
  <2>2. PICK r : Becomes(h, r) /\ r.step \in {"idle", "table"}
    BY <1>1, <2>1, Ends
  <2>3. HTyped'
    BY <1>1, <2>1, <2>2, Becoming DEF HTyped
  <2>4. Bounded' /\ OneInsertion' /\ Noted'
    BY <1>1, <2>1, <2>2, LeavingKeeps
  <2>5. OneWorker'
    <3>1. ASSUME NEW q \in H!Keys \ racedKeys, q # k PROVE KeyFits(q)'
      <4>1. h \notin WorkingOn(q) /\ debounce'[q] = debounce[q]
        BY <1>1, <2>1, <3>1 DEF WorkingOn, HTyped
      <4>2. KeyFits(q)
        BY <3>1 DEF AlertsInv, OneWorker
      <4> QED
        BY <1>1, <2>2, <4>1, <4>2, KeyLeft
    <3>2. ASSUME k \notin racedKeys PROVE KeyFits(k)'
      <4>1. KeyFits(k)
        BY <1>1, <3>2 DEF AlertsInv, OneWorker
      <4> QED
        BY <1>1, <2>1, <2>2, <4>1, KeyRenewed
    <3> QED
      BY <1>1, <3>1, <3>2 DEF OneWorker
  <2>6. OneJob'
    BY <1>1, <2>1, <2>2, LeavingAlone DEF AlertsInv
  <2>7. H!SilenceIsFounded'
    <3>1. \A q \in H!Keys : debounce'[q] # H!Never => debounce[q] # H!Never \/ q = k
      BY <2>1 DEF HTyped
    <3>2. H!Alert(h) \in H!Alerts /\ H!Alert(h).key = k /\ incidents'[H!Alert(h).title] > 0
      BY <1>1, <1>2
    <3>3. \E a \in H!Alerts : a.key = k /\ incidents'[a.title] > 0
      BY <3>2
    <3>4. \A q \in H!Titles : incidents[q] > 0 => incidents'[q] > 0
      BY <1>1
    <3>5. \A q \in H!Keys : debounce'[q] # H!Never =>
            debounce[q] # H!Never \/ \E a \in H!Alerts : a.key = q /\ incidents'[a.title] > 0
      BY <3>1, <3>3
    <3> QED
      BY <3>4, <3>5, SilenceStays DEF AlertsInv
  <2>8. H!CooldownHolds'
    BY <1>1 DEF AlertsInv, H!CooldownHolds
  <2> QED
    BY <2>3, <2>4, <2>5, <2>6, <2>7, <2>8 DEF AlertsInv
<1>3. CASE ~(incidents[t] > 0)
  <2> DEFINE Others == {g \in Handlers \ {h} :
                          H!At(g, "insert") /\ H!Alert(g).title = t}
  <2>1. /\ debounce' = debounce /\ H!Go(h, "insert")
        /\ racedTitles' = racedTitles \cup {H!Alert(g).title : g \in Others}
    BY <1>3 DEF H!Find
  <2>2. /\ raising' \in [Handlers -> HandlerStates]
        /\ \A g \in Handlers : raising'[g].step = "idle" <=> raising'[g].todo = << >>
        /\ raising'[h].step = "insert"
        /\ \A g \in Handlers : H!Alert(g)' = H!Alert(g) /\ raising'[g].at = raising[g].at
        /\ \A g \in Handlers \ {h} : raising'[g] = raising[g]
        /\ \A u : u # t => Inserting(u)' = Inserting(u)
    BY <1>1, <2>1, GoingKeeps
  <2>3. racedTitles \subseteq racedTitles' /\ (t \notin racedTitles' => Inserting(t) = {})
    <3>1. \A g \in Inserting(t) : g \in Others
      BY <1>1 DEF Inserting, H!At
    <3>2. \A g \in Others : H!Alert(g).title = t
      OBVIOUS
    <3>3. \A g \in Others : t \in racedTitles'
      BY <2>1, <3>2
    <3> QED
      BY <2>1, <3>1, <3>3
  <2>4. HTyped'
    BY <1>1, <2>1, <2>2 DEF HTyped
  <2>5. Bounded'
    <3> SUFFICES ASSUME NEW u \in H!Titles
                 PROVE  incidents'[u] + Cardinality(Inserting(u)') <= Cardinality(Handlers)
      BY DEF Bounded
    <3>1. CASE u = t
      <4>1. /\ Cardinality(Inserting(t)') <= Cardinality(Handlers)
            /\ Cardinality(Inserting(t)') \in Nat
        <5>1. Inserting(t)' \subseteq Handlers
          BY DEF Inserting
        <5>2. IsFiniteSet(Inserting(t)')
          BY <5>1, BackendAssumption, FS_Subset
        <5> QED
          BY <5>1, <5>2, BackendAssumption, FS_Subset, FS_CardinalityType
      <4>2. incidents'[t] = 0
        BY <1>1, <1>3 DEF HTyped
      <4>3. Cardinality(Handlers) \in Nat
        BY BackendAssumption, FS_CardinalityType
      <4> QED
        BY <3>1, <4>1, <4>2, <4>3
    <3>2. CASE u # t
      BY <1>1, <2>2, <3>2 DEF AlertsInv, Bounded
    <3> QED
      BY <3>1, <3>2
  <2>6. OneInsertion'
    <3>1. ASSUME NEW u \in H!Titles \ racedTitles', u # t PROVE TitleFits(u)'
      <4>1. TitleFits(u)
        BY <2>3, <3>1 DEF AlertsInv, OneInsertion
      <4> QED
        BY <1>1, <2>2, <3>1, <4>1, TitleStays
    <3>2. ASSUME t \notin racedTitles' PROVE TitleFits(t)'
      <4>1. Inserting(t) = {}
        BY <2>3, <3>2
      <4>2. \A g \in Inserting(t)' : g = h
        BY <2>2, <4>1 DEF Inserting
      <4>3. incidents'[t] = 0
        BY <1>1, <1>3 DEF HTyped
      <4> QED
        BY <4>2, <4>3 DEF TitleFits
    <3> QED
      BY <3>1, <3>2 DEF OneInsertion
  <2>7. OneWorker'
    <3> SUFFICES ASSUME NEW q \in H!Keys \ racedKeys PROVE KeyFits(q)'
      BY <1>1 DEF OneWorker
    <3>1. KeyFits(q)
      BY DEF AlertsInv, OneWorker
    <3>2. WorkingOn(q)' = WorkingOn(q)
      BY <1>1, <2>2 DEF WorkingOn
    <3>3. \A g \in WorkingOn(q) : raising'[g].step = "note" <=> raising[g].step = "note"
      BY <1>1, <2>2 DEF WorkingOn
    <3>4. \A g \in WorkingOn(q) : raising'[g].at = raising[g].at
      BY <2>2 DEF WorkingOn
    <3> QED
      BY <1>1, <2>1, <3>1, <3>2, <3>3, <3>4, KeyStays
  <2>8. OneJob'
    <3>1. source = "job" => racedTitles' = racedTitles
      <4>1. source = "job" => \A g \in Handlers \ {h} : raising[g].step = "idle"
        BY <1>1 DEF AlertsInv, OneJob
      <4>2. source = "job" => Others = {}
        BY <4>1 DEF H!At
      <4> QED
        BY <2>1, <4>2
    <3> QED
      BY <1>1, <2>1, <3>1, GoingAlone DEF AlertsInv
  <2>9. Noted'
    BY <1>1, <2>2 DEF AlertsInv, Noted
  <2>10. H!SilenceIsFounded' /\ H!CooldownHolds'
    BY <1>1, <2>1 DEF AlertsInv, H!SilenceIsFounded, H!CooldownHolds
  <2> QED
    BY <2>4, <2>5, <2>6, <2>7, <2>8, <2>9, <2>10 DEF AlertsInv
<1> QED
  BY <1>2, <1>3

\* A second incident within the cooldown uses up an unacknowledged one.
LEMMA Counted ==
  ASSUME AlertsInv, NEW h \in Handlers, raising[h].step = "insert", H!Applied(h),
         NEW k, k = H!Alert(h).key
  PROVE  /\ hasty' \in [H!Keys -> Nat]
         /\ \A q \in H!Keys \ {k} : hasty'[q] = hasty[q]
         /\ k \notin racedKeys => hasty'[k] <= unacked[k]
<1>1. HTyped /\ k \in H!Keys /\ raising[h].at \in 0..MaxTime
  BY AlertFacts DEF AlertsInv
<1>2. hasty' = IF raisedAt[k] # H!Never /\ raising[h].at - raisedAt[k] < Cooldown
               THEN [hasty EXCEPT ![k] = @ + 1] ELSE hasty
  BY DEF H!Applied
<1>3. hasty[k] \in Nat /\ unacked[k] \in Nat
  BY <1>1 DEF HTyped
<1>4. ASSUME k \notin racedKeys PROVE hasty'[k] <= unacked[k]
  <2>1. KeyFits(k) /\ h \in WorkingOn(k) /\ hasty[k] <= unacked[k]
    BY <1>1, <1>4 DEF AlertsInv, OneWorker, WorkingOn, H!CooldownHolds
  <2>2. Clear(h, k) /\ \A g \in WorkingOn(k) : raising[g].step # "note"
    BY <2>1 DEF KeyFits
  <2>3. CASE hasty[k] = unacked[k]
    <3>1. raisedAt[k] # H!Never => debounce[k] # H!Never /\ raisedAt[k] <= debounce[k]
      BY <2>1, <2>2, <2>3 DEF KeyFits
    <3>2. debounce[k] \in {H!Never} \cup 0..MaxTime /\ raisedAt[k] \in {H!Never} \cup 0..MaxTime
      BY <1>1 DEF HTyped
    <3>3. ~(raisedAt[k] # H!Never /\ raising[h].at - raisedAt[k] < Cooldown)
      BY <1>1, <2>2, <3>1, <3>2, BackendAssumption DEF Clear, H!Never
    <3> QED
      BY <1>2, <2>1, <3>3
  <2>4. CASE hasty[k] # unacked[k]
    <3>1. hasty'[k] \in {hasty[k], hasty[k] + 1}
      BY <1>1, <1>2 DEF HTyped
    <3> QED
      BY <1>3, <2>1, <2>4, <3>1
  <2> QED
    BY <2>3, <2>4
<1> QED
  BY <1>1, <1>2, <1>3, <1>4 DEF HTyped

LEMMA Inserts ==
  ASSUME AlertsInv, NEW h \in Handlers, H!Insert(h)
  PROVE  AlertsInv'
<1> PICK k, t : k = H!Alert(h).key /\ t = H!Alert(h).title
  OBVIOUS
<1>1. /\ UNCHANGED <<clock, source, racedTitles, racedKeys, unacked, debounce>>
      /\ incidents' = [incidents EXCEPT ![t] = @ + 1]
      /\ raisedAt' = [raisedAt EXCEPT ![k] = raising[h].at]
      /\ H!Applied(h) /\ H!Go(h, "note")
  BY DEF H!Insert, H!Applied, H!stay, H!races
<1>2. /\ raising[h].step = "insert" /\ HTyped
      /\ k \in H!Keys /\ t \in H!Titles /\ raising[h].at \in 0..MaxTime
      /\ H!Alert(h) \in H!Alerts
  <2>1. raising[h].step = "insert" /\ HTyped
    BY DEF H!Insert, H!At, AlertsInv
  <2> QED
    BY <2>1, AlertFacts
<1>3. /\ raising' \in [Handlers -> HandlerStates]
      /\ \A g \in Handlers : raising'[g].step = "idle" <=> raising'[g].todo = << >>
      /\ raising'[h].step = "note" /\ raising'[h].at = raising[h].at
      /\ \A g \in Handlers : H!Alert(g)' = H!Alert(g) /\ raising'[g].at = raising[g].at
      /\ \A g \in Handlers \ {h} : raising'[g] = raising[g]
      /\ \A u : u # t => Inserting(u)' = Inserting(u)
  BY <1>1, <1>2, GoingKeeps
<1>4. /\ incidents'[t] = incidents[t] + 1 /\ incidents[t] \in Nat
      /\ \A u \in H!Titles \ {t} : incidents'[u] = incidents[u]
      /\ raisedAt'[k] = raising[h].at
      /\ \A q \in H!Keys \ {k} : raisedAt'[q] = raisedAt[q]
      /\ incidents' \in [H!Titles -> Nat]
  BY <1>1, <1>2 DEF HTyped
<1>4a. /\ hasty' \in [H!Keys -> Nat] /\ \A q \in H!Keys \ {k} : hasty'[q] = hasty[q]
       /\ k \notin racedKeys => hasty'[k] <= unacked[k]
  BY <1>1, <1>2, Counted
<1>5. Inserting(t)' = Inserting(t) \ {h} /\ h \in Inserting(t)
  BY <1>2, <1>3 DEF Inserting
<1>6. HTyped'
  BY <1>1, <1>2, <1>3, <1>4, <1>4a DEF HTyped
<1>7. Bounded'
  <2> SUFFICES ASSUME NEW u \in H!Titles
               PROVE  incidents'[u] + Cardinality(Inserting(u)') <= Cardinality(Handlers)
    BY DEF Bounded
  <2>1. CASE u = t
    <3>1. IsFiniteSet(Inserting(t))
      BY BackendAssumption, FS_Subset DEF Inserting
    <3>2. Cardinality(Inserting(t)') = Cardinality(Inserting(t)) - 1
      BY <1>5, <3>1, FS_RemoveElement
    <3>3. incidents[t] + Cardinality(Inserting(t)) <= Cardinality(Handlers)
      BY <1>2 DEF AlertsInv, Bounded
    <3>4. Cardinality(Inserting(t)) \in Nat /\ Cardinality(Handlers) \in Nat
      BY <3>1, BackendAssumption, FS_CardinalityType
    <3> QED
      BY <1>4, <2>1, <3>2, <3>3, <3>4
  <2>2. CASE u # t
    BY <1>3, <1>4, <2>2 DEF AlertsInv, Bounded
  <2> QED
    BY <2>1, <2>2
<1>8. OneInsertion'
  <2> SUFFICES ASSUME NEW u \in H!Titles \ racedTitles PROVE TitleFits(u)'
    BY <1>1 DEF OneInsertion
  <2>1. TitleFits(u)
    BY DEF AlertsInv, OneInsertion
  <2>2. CASE u = t
    <3>1. incidents[t] = 0 /\ Inserting(t)' = {}
      BY <1>5, <2>1, <2>2 DEF TitleFits
    <3> QED
      BY <1>4, <2>2, <3>1 DEF TitleFits
  <2>3. CASE u # t
    BY <1>3, <1>4, <2>1, <2>3, TitleStays
  <2> QED
    BY <2>2, <2>3
<1>9. ASSUME k \notin racedKeys PROVE KeyFits(k) /\ h \in WorkingOn(k)
  BY <1>2, <1>9 DEF AlertsInv, OneWorker, WorkingOn
<1>10. OneWorker'
  <2> SUFFICES ASSUME NEW q \in H!Keys \ racedKeys PROVE KeyFits(q)'
    BY <1>1 DEF OneWorker
  <2>1. CASE q = k
    <3>1. \A g \in WorkingOn(k) : g = h
      BY <1>9, <2>1 DEF KeyFits
    <3>2. WorkingOn(k)' = {h}
      BY <1>2, <1>3, <3>1 DEF WorkingOn
    <3> QED
      BY <1>3, <1>4, <2>1, <3>2 DEF KeyFits
  <2>2. CASE q # k
    <3>1. KeyFits(q)
      BY DEF AlertsInv, OneWorker
    <3> QED
      BY <1>1, <1>2, <1>4, <1>4a, <2>2, <3>1, OtherKeyStays
  <2> QED
    BY <2>1, <2>2
<1>11. OneJob'
  BY <1>1, <1>2, GoingAlone DEF AlertsInv
<1>12. Noted'
  <2> SUFFICES ASSUME NEW g \in Handlers, raising'[g].step = "note"
               PROVE  incidents'[H!Alert(g)'.title] > 0
    BY DEF Noted
  <2>1. H!Alert(g)' = H!Alert(g)
    BY <1>3
  <2>2. CASE g = h
    BY <1>4, <2>1, <2>2
  <2>3. CASE g # h
    <3>1. raising[g].step = "note"
      BY <1>3, <2>3
    <3>2. H!Alert(g).title \in H!Titles /\ incidents[H!Alert(g).title] > 0
      BY <1>2, <3>1, AlertFacts DEF AlertsInv, Noted
    <3> QED
      BY <1>4, <2>1, <3>2
  <2> QED
    BY <2>2, <2>3
<1>13. H!SilenceIsFounded'
  <2>1. \A u \in H!Titles : incidents[u] > 0 => incidents'[u] > 0
    BY <1>4
  <2>2. \A q \in H!Keys : debounce'[q] # H!Never => debounce[q] # H!Never
    BY <1>1
  <2> QED
    BY <2>1, <2>2, SilenceStays DEF AlertsInv
<1>14. H!CooldownHolds'
  BY <1>1, <1>2, <1>4a DEF AlertsInv, H!CooldownHolds
<1> QED
  BY <1>6, <1>7, <1>8, <1>10, <1>11, <1>12, <1>13, <1>14 DEF AlertsInv

LEMMA Notes ==
  ASSUME AlertsInv, NEW h \in Handlers, H!Note(h)
  PROVE  AlertsInv'
<1> PICK k, t : k = H!Alert(h).key /\ t = H!Alert(h).title
  OBVIOUS
<1>1. /\ UNCHANGED <<clock, source, incidents, raisedAt, hasty, unacked, racedTitles, racedKeys>>
      /\ debounce' = [debounce EXCEPT ![k] = raising[h].at] /\ H!Done(h)
  BY DEF H!Note, H!stay, H!store, H!races
<1>2. /\ raising[h].step = "note" /\ HTyped
      /\ k \in H!Keys /\ t \in H!Titles /\ raising[h].at \in 0..MaxTime
      /\ H!Alert(h) \in H!Alerts
  <2>1. raising[h].step = "note" /\ HTyped
    BY DEF H!Note, H!At, AlertsInv
  <2> QED
    BY <2>1, AlertFacts
<1>3. PICK r : Becomes(h, r) /\ r.step \in {"idle", "table"}
  BY <1>1, <1>2, Ends
<1>4. HTyped'
  BY <1>1, <1>2, <1>3, Becoming DEF HTyped
<1>5. Bounded' /\ OneInsertion' /\ Noted'
  BY <1>1, <1>3, LeavingKeeps
<1>6. OneWorker'
  <2>1. ASSUME NEW q \in H!Keys \ racedKeys, q # k PROVE KeyFits(q)'
    <3>1. h \notin WorkingOn(q) /\ debounce'[q] = debounce[q]
      BY <1>1, <1>2, <2>1 DEF WorkingOn, HTyped
    <3>2. KeyFits(q)
      BY <2>1 DEF AlertsInv, OneWorker
    <3> QED
      BY <1>1, <1>2, <1>3, <3>1, <3>2, KeyLeft
  <2>2. ASSUME k \notin racedKeys PROVE KeyFits(k)'
    <3>1. KeyFits(k)
      BY <1>2, <2>2 DEF AlertsInv, OneWorker
    <3> QED
      BY <1>1, <1>2, <1>3, <3>1, KeyRenewed
  <2> QED
    BY <1>1, <2>1, <2>2 DEF OneWorker
<1>7. OneJob'
  BY <1>1, <1>2, <1>3, LeavingAlone DEF AlertsInv
<1>8. H!SilenceIsFounded'
  <2>1. \A q \in H!Keys : debounce'[q] # H!Never => debounce[q] # H!Never \/ q = k
    BY <1>1 DEF HTyped
  <2>2. incidents'[t] > 0
    BY <1>1, <1>2 DEF AlertsInv, Noted
  <2>3. \E a \in H!Alerts : a.key = k /\ incidents'[a.title] > 0
    BY <1>2, <2>2
  <2>4. \A q \in H!Titles : incidents[q] > 0 => incidents'[q] > 0
    BY <1>1
  <2>5. \A q \in H!Keys : debounce'[q] # H!Never =>
          debounce[q] # H!Never \/ \E a \in H!Alerts : a.key = q /\ incidents'[a.title] > 0
    BY <2>1, <2>3
  <2> QED
    BY <2>4, <2>5, SilenceStays DEF AlertsInv
<1>9. H!CooldownHolds'
  BY <1>1 DEF AlertsInv, H!CooldownHolds
<1> QED
  BY <1>4, <1>5, <1>6, <1>7, <1>8, <1>9 DEF AlertsInv

\* The incident is there and the handler gone: the key has one more to answer for.
LEMMA InsertsUnacked ==
  ASSUME AlertsInv, NEW h \in Handlers, H!InsertUnacked(h)
  PROVE  AlertsInv'
<1> PICK k, t : k = H!Alert(h).key /\ t = H!Alert(h).title
  OBVIOUS
<1>1. /\ UNCHANGED <<clock, source, racedTitles, racedKeys, debounce>>
      /\ incidents' = [incidents EXCEPT ![t] = @ + 1]
      /\ raisedAt' = [raisedAt EXCEPT ![k] = raising[h].at]
      /\ unacked' = [unacked EXCEPT ![k] = @ + 1]
      /\ H!Applied(h) /\ H!Stop(h)
  BY DEF H!InsertUnacked, H!Applied, H!stay, H!races
<1>2. /\ raising[h].step = "insert" /\ HTyped
      /\ k \in H!Keys /\ t \in H!Titles /\ raising[h].at \in 0..MaxTime
  <2>1. raising[h].step = "insert" /\ HTyped
    BY DEF H!InsertUnacked, H!At, AlertsInv
  <2> QED
    BY <2>1, AlertFacts
<1>3. PICK r : Becomes(h, r) /\ r.step \in {"idle", "table"}
  BY <1>1, <1>2, Ends
<1>4. /\ raising' \in [Handlers -> HandlerStates]
      /\ \A g \in Handlers : raising'[g].step = "idle" <=> raising'[g].todo = << >>
      /\ raising'[h].step \in {"idle", "table"}
      /\ \A g \in Handlers \ {h} : raising'[g] = raising[g] /\ H!Alert(g)' = H!Alert(g)
      /\ \A u : Inserting(u)' = Inserting(u) \ {h}
      /\ \A q : WorkingOn(q)' = WorkingOn(q) \ {h}
  BY <1>2, <1>3, Becoming, Leaves
<1>5. /\ incidents'[t] = incidents[t] + 1 /\ incidents[t] \in Nat
      /\ \A u \in H!Titles \ {t} : incidents'[u] = incidents[u]
      /\ \A q \in H!Keys \ {k} : raisedAt'[q] = raisedAt[q] /\ unacked'[q] = unacked[q]
      /\ unacked[k] \in Nat /\ unacked'[k] = unacked[k] + 1
      /\ incidents' \in [H!Titles -> Nat] /\ unacked' \in [H!Keys -> Nat]
  BY <1>1, <1>2 DEF HTyped
<1>6. /\ hasty' \in [H!Keys -> Nat] /\ \A q \in H!Keys \ {k} : hasty'[q] = hasty[q]
      /\ k \notin racedKeys => hasty'[k] <= unacked[k]
  BY <1>1, <1>2, Counted
<1>7. k \notin racedKeys => hasty'[k] < unacked'[k]
  BY <1>2, <1>5, <1>6
<1>8. HTyped'
  BY <1>1, <1>2, <1>4, <1>5, <1>6 DEF HTyped
<1>9. h \in Inserting(t) /\ \A u : u # t => h \notin Inserting(u)
  BY <1>2 DEF Inserting
<1>10. Bounded'
  <2> SUFFICES ASSUME NEW u \in H!Titles
               PROVE  incidents'[u] + Cardinality(Inserting(u)') <= Cardinality(Handlers)
    BY DEF Bounded
  <2>1. CASE u = t
    <3>1. IsFiniteSet(Inserting(t))
      BY BackendAssumption, FS_Subset DEF Inserting
    <3>2. Cardinality(Inserting(t)') = Cardinality(Inserting(t)) - 1
      BY <1>4, <1>9, <3>1, FS_RemoveElement
    <3>3. incidents[t] + Cardinality(Inserting(t)) <= Cardinality(Handlers)
      BY <1>2 DEF AlertsInv, Bounded
    <3>4. Cardinality(Inserting(t)) \in Nat /\ Cardinality(Handlers) \in Nat
      BY <3>1, BackendAssumption, FS_CardinalityType
    <3> QED
      BY <1>5, <2>1, <3>2, <3>3, <3>4
  <2>2. CASE u # t
    <3>1. Inserting(u)' = Inserting(u)
      BY <1>4, <1>9, <2>2
    <3> QED
      BY <1>5, <2>2, <3>1 DEF AlertsInv, Bounded
  <2> QED
    BY <2>1, <2>2
<1>11. OneInsertion'
  <2> SUFFICES ASSUME NEW u \in H!Titles \ racedTitles PROVE TitleFits(u)'
    BY <1>1 DEF OneInsertion
  <2>1. TitleFits(u)
    BY DEF AlertsInv, OneInsertion
  <2>2. CASE u = t
    <3>1. incidents[t] = 0 /\ Inserting(t)' = {}
      BY <1>4, <1>9, <2>1, <2>2 DEF TitleFits
    <3> QED
      BY <1>5, <2>2, <3>1 DEF TitleFits
  <2>3. CASE u # t
    BY <1>4, <1>5, <2>1, <2>3, TitleStays
  <2> QED
    BY <2>2, <2>3
<1>12. OneWorker'
  <2> SUFFICES ASSUME NEW q \in H!Keys \ racedKeys PROVE KeyFits(q)'
    BY <1>1 DEF OneWorker
  <2>1. KeyFits(q)
    BY DEF AlertsInv, OneWorker
  <2>2. CASE q = k
    <3>1. WorkingOn(k)' = {}
      <4>1. h \in WorkingOn(k)
        BY <1>2 DEF WorkingOn
      <4>2. \A g \in WorkingOn(k) : g = h
        BY <2>1, <2>2, <4>1 DEF KeyFits
      <4> QED
        BY <1>4, <4>2
    <3>2. hasty'[k] # unacked'[k]
      <4>1. hasty'[k] \in Nat /\ unacked'[k] \in Nat
        BY <1>2, <1>5, <1>6
      <4> QED
        BY <1>7, <2>2, <4>1
    <3> QED
      BY <2>2, <3>1, <3>2 DEF KeyFits
  <2>3. CASE q # k
    <3>1. h \notin WorkingOn(q) /\ debounce'[q] = debounce[q]
      BY <1>1, <2>3 DEF WorkingOn
    <3> QED
      BY <1>2, <1>3, <1>5, <1>6, <2>1, <2>3, <3>1, KeyLeft
  <2> QED
    BY <2>2, <2>3
<1>13. OneJob'
  BY <1>1, <1>2, <1>3, LeavingAlone DEF AlertsInv
<1>14. Noted'
  <2> SUFFICES ASSUME NEW g \in Handlers, raising'[g].step = "note"
               PROVE  incidents'[H!Alert(g)'.title] > 0
    BY DEF Noted
  <2>1. g # h /\ H!Alert(g)' = H!Alert(g) /\ raising[g].step = "note"
    BY <1>4
  <2>2. H!Alert(g).title \in H!Titles /\ incidents[H!Alert(g).title] > 0
    BY <1>2, <2>1, AlertFacts DEF AlertsInv, Noted
  <2> QED
    BY <1>5, <2>1, <2>2
<1>15. H!SilenceIsFounded'
  <2>1. \A u \in H!Titles : incidents[u] > 0 => incidents'[u] > 0
    BY <1>5
  <2>2. \A q \in H!Keys : debounce'[q] # H!Never => debounce[q] # H!Never
    BY <1>1
  <2> QED
    BY <2>1, <2>2, SilenceStays DEF AlertsInv
<1>16. H!CooldownHolds'
  <2> SUFFICES ASSUME NEW q \in H!Keys \ racedKeys PROVE hasty'[q] <= unacked'[q]
    BY <1>1 DEF H!CooldownHolds
  <2>1. CASE q = k
    BY <1>2, <1>5, <1>6, <1>7, <2>1
  <2>2. CASE q # k
    BY <1>5, <1>6, <2>2 DEF AlertsInv, H!CooldownHolds
  <2> QED
    BY <2>1, <2>2
<1> QED
  BY <1>8, <1>10, <1>11, <1>12, <1>13, <1>14, <1>15, <1>16 DEF AlertsInv

LEMMA Fails ==
  ASSUME AlertsInv, NEW h \in Handlers, H!MongoFails(h)
  PROVE  AlertsInv'
<1>1. /\ UNCHANGED <<clock, source, incidents, raisedAt, hasty, unacked, racedTitles, racedKeys,
                     debounce>>
      /\ raising[h].step \in {"find", "insert"} /\ H!Stop(h) /\ HTyped
  BY DEF H!MongoFails, H!At, H!stay, H!store, H!races, AlertsInv
<1>2. PICK r : Becomes(h, r) /\ r.step \in {"idle", "table"}
  BY <1>1, Ends
<1>3. HTyped'
  BY <1>1, <1>2, Becoming DEF HTyped
<1>4. Bounded' /\ OneInsertion' /\ Noted'
  BY <1>1, <1>2, LeavingKeeps
<1>5. OneWorker'
  BY <1>1, <1>2, KeyLeft DEF AlertsInv, OneWorker
<1>6. OneJob'
  BY <1>1, <1>2, LeavingAlone DEF AlertsInv
<1>7. H!SilenceIsFounded' /\ H!CooldownHolds'
  BY <1>1 DEF AlertsInv, H!SilenceIsFounded, H!CooldownHolds
<1> QED
  BY <1>3, <1>4, <1>5, <1>6, <1>7 DEF AlertsInv

LEMMA Restarts ==
  ASSUME AlertsInv, H!Restart
  PROVE  AlertsInv'
<1>1. /\ debounce' = [k \in H!Keys |-> H!Never] /\ raisedAt' = [k \in H!Keys |-> H!Never]
      /\ raising' = [h \in Handlers |-> H!Idle]
      /\ UNCHANGED <<racedTitles, racedKeys, clock, source, incidents, hasty, unacked>>
  BY DEF H!Restart, H!races
<1>2. /\ H!Idle \in HandlerStates /\ H!Idle.step = "idle" /\ H!Idle.todo = << >>
  <2>1. << >> \in Seq(H!Alerts)
    OBVIOUS
  <2> QED
    BY <2>1, BackendAssumption DEF H!Idle, HandlerStates
<1>3. HTyped'
  BY <1>1, <1>2 DEF AlertsInv, HTyped
<1>4. \A h \in Handlers : raising'[h].step = "idle"
  BY <1>1, <1>2
<1>5. \A u : Inserting(u)' = {} /\ WorkingOn(u)' = {}
  BY <1>4 DEF Inserting, WorkingOn
<1>6. Bounded'
  BY <1>1, <1>5, BoundedStays DEF AlertsInv
<1>7. OneInsertion'
  BY <1>1, <1>5, TitleStays DEF AlertsInv, OneInsertion
<1>8. OneWorker'
  BY <1>1, <1>5 DEF OneWorker, KeyFits
<1>9. OneJob' /\ Noted'
  BY <1>1, <1>4 DEF AlertsInv, OneJob, Noted
<1>10. H!SilenceIsFounded' /\ H!CooldownHolds'
  BY <1>1 DEF AlertsInv, H!SilenceIsFounded, H!CooldownHolds
<1> QED
  BY <1>3, <1>6, <1>7, <1>8, <1>9, <1>10 DEF AlertsInv

LEMMA AlertsStand ==
  ASSUME AlertsInv, UNCHANGED <<source, debounce, incidents, raisedAt, hasty, unacked,
                                raising, racedTitles, racedKeys>>, clock' \in 0..MaxTime
  PROVE  AlertsInv'
<1>1. /\ \A u : Inserting(u)' = Inserting(u) /\ WorkingOn(u)' = WorkingOn(u)
      /\ \A h \in Handlers : H!Alert(h)' = H!Alert(h)
  BY DEF Inserting, WorkingOn, H!Alert
<1>2. HTyped' /\ Bounded' /\ OneJob' /\ Noted'
  BY <1>1 DEF AlertsInv, HTyped, Bounded, OneJob, Noted
<1>3. OneInsertion'
  BY <1>1, TitleStays DEF AlertsInv, OneInsertion
<1>4. OneWorker'
  BY <1>1, KeyStays DEF AlertsInv, OneWorker
<1>5. H!SilenceIsFounded' /\ H!CooldownHolds'
  BY DEF AlertsInv, H!SilenceIsFounded, H!CooldownHolds
<1> QED
  BY <1>2, <1>3, <1>4, <1>5 DEF AlertsInv

LEMMA AlertsStep == AlertsInv /\ (H!HNext \/ UNCHANGED hvars) => AlertsInv'
<1> SUFFICES ASSUME AlertsInv, H!HNext \/ UNCHANGED hvars PROVE AlertsInv'
  OBVIOUS
<1>1. clock \in 0..MaxTime
  BY DEF AlertsInv, HTyped
<1>2. CASE UNCHANGED hvars
  BY <1>1, <1>2, AlertsStand DEF hvars
<1>3. CASE H!TimePasses
  <2>1. clock' \in 0..MaxTime
    BY <1>1, <1>3, BackendAssumption DEF H!TimePasses
  <2> QED
    BY <1>3, <2>1, AlertsStand DEF H!TimePasses, H!store, H!races
<1> QED
  BY <1>2, <1>3, Begins, ChecksTable, Finds, Inserts, InsertsUnacked, Notes, Fails,
     Restarts DEF H!HNext

\* AlertsInv is about each handler; the property is about what they did.
LEMMA AlertsFitting == AlertsInv => AlertsFit
<1> SUFFICES ASSUME AlertsInv PROVE AlertsFit
  OBVIOUS
<1>1. incidents \in [H!Titles -> 0..Cardinality(Handlers)]
  <2>1. \A t \in H!Titles : incidents[t] <= Cardinality(Handlers)
    <3> SUFFICES ASSUME NEW t \in H!Titles PROVE incidents[t] <= Cardinality(Handlers)
      OBVIOUS
    <3>1. IsFiniteSet(Inserting(t))
      BY BackendAssumption, FS_Subset DEF Inserting
    <3>2. Cardinality(Inserting(t)) \in Nat /\ Cardinality(Handlers) \in Nat
          /\ incidents[t] \in Nat
      BY <3>1, BackendAssumption, FS_CardinalityType DEF AlertsInv, HTyped
    <3> QED
      BY <3>2 DEF AlertsInv, Bounded
  <2>2. Cardinality(Handlers) \in Nat
    BY BackendAssumption, FS_CardinalityType
  <2> QED
    BY <2>1, <2>2 DEF AlertsInv, HTyped
<1>2. H!Cardinality(Handlers) = Cardinality(Handlers)
  BY DEF H!Cardinality, Cardinality
<1>3. H!HTypeOK
  BY <1>1, <1>2 DEF AlertsInv, HTyped, HandlerStates, H!HTypeOK, H!At
<1>4. H!OneIncident
  BY DEF AlertsInv, OneJob, OneInsertion, TitleFits, H!OneIncident
<1> QED
  BY <1>3, <1>4 DEF AlertsInv, AlertsFit, H!AlertsFit

\* AlertsFit of every behaviour: whichever handlers run on which threads, whatever
\* fails, and over any restarts, a title has one incident and a silenced key one to
\* show for it, and a key one incident in a cooldown of one life, plus one for every
\* insert that was applied though it raised, unless two handlers worked on it at
\* once (_raise_incidents of the sensor API and of the jobs).
THEOREM Alarms == Spec => []AlertsFit
<1>1. Init => AlertsInv
  BY AlertsInit DEF Init
<1>2. AlertsInv /\ [Next]_vars => AlertsInv'
  BY AlertsStep DEF Next, vars
<1>3. AlertsInv => AlertsFit
  BY AlertsFitting
<1> QED
  BY <1>1, <1>2, <1>3, PTL DEF Spec
====
