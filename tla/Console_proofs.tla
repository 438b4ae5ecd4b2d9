---- MODULE Console_proofs ----
(***************************************************************************
 Proofs about the console: what its panes, desks, polling pages, lists and map promise
 one session, for any roles, rows, questions, guests, hosts, nodes, jobs and events.

 One page is mounted at a time, so each promise has an inductive invariant over the
 variables of its module alone, which says what they are while no page of it is
 mounted.  Most promises hold "unless requests crossed": the invariants follow the
 one request that is then in flight, from the click to the answer and to the request
 that may follow it.
 ***************************************************************************)
EXTENDS Console, TLAPS, FiniteSetTheorems, WellFoundedInduction

----------------------------------------------------------------------------
(***************************************************************************
 What a step of the console is for the pages of one module.
 ***************************************************************************)
LEMMA PaneStep ==
  ASSUME [Next]_vars
  PROVE  \/ UNCHANGED paneVars \/ Q!ClearPane
         \/ \E p \in Q!Panes : Q!MountPane(p)
         \/ pane # "none" /\ Q!QNext
<1>1. CASE ProtectedRoute
  BY <1>1 DEF ProtectedRoute, Q!Panes
<1>2. CASE LoggedIn \/ DropToken \/ Leave
  BY <1>2 DEF LoggedIn, DropToken, Leave, Clear
<1>3. CASE VisitPane
  BY <1>3 DEF VisitPane
<1>4. CASE VisitList \/ VisitDesk \/ VisitPolling \/ VisitMap
  BY <1>4 DEF VisitList, VisitDesk, VisitPolling, VisitMap
<1>5. CASE OnPane /\ Q!QNext
  BY <1>5 DEF OnPane
<1>6. CASE OnList \/ OnDesk \/ OnPage \/ OnMap
  BY <1>6 DEF OnList, OnDesk, OnPage, OnMap
<1>7. CASE UNCHANGED vars
  BY <1>7 DEF vars
<1> QED
  BY <1>1, <1>2, <1>3, <1>4, <1>5, <1>6, <1>7 DEF Next

LEMMA DeskStep ==
  ASSUME [Next]_vars
  PROVE  \/ UNCHANGED deskVars \/ D!ClearDesk
         \/ \E p \in {"infra", "dash"} : D!MountDesk(p, role \in Admins, role \in Controllers)
         \/ desk # "none" /\ D!DNext
<1>1. CASE ProtectedRoute \/ LoggedIn
  BY <1>1 DEF ProtectedRoute, LoggedIn
<1>2. CASE DropToken \/ Leave
  BY <1>2 DEF DropToken, Leave, Clear
<1>3. CASE VisitDesk
  BY <1>3 DEF VisitDesk
<1>4. CASE VisitList \/ VisitPane \/ VisitPolling \/ VisitMap
  BY <1>4 DEF VisitList, VisitPane, VisitPolling, VisitMap
<1>5. CASE OnDesk /\ D!DNext
  BY <1>5 DEF OnDesk
<1>6. CASE OnList \/ OnPane \/ OnPage \/ OnMap
  BY <1>6 DEF OnList, OnPane, OnPage, OnMap
<1>7. CASE UNCHANGED vars
  BY <1>7 DEF vars
<1> QED
  BY <1>1, <1>2, <1>3, <1>4, <1>5, <1>6, <1>7 DEF Next

----------------------------------------------------------------------------
(***************************************************************************
 The panes that send one question and show its answer.  While no questions have
 crossed, the one in flight is the last one asked, and about the heading of the
 dialog over the map; timers and answers are as many as there were questions.
 ***************************************************************************)
Questions == [n : 1..MaxAsks, about : Subjects \cup {NoSubject}]
Shows == [n : 0..MaxAsks, about : Subjects \cup {NoSubject}]
Marked == {"hunt", "search", "click", "summary", "login"}

PaneCounts ==
  /\ IsFiniteSet(flight) /\ resets + Cardinality(flight) <= asks
  /\ resets > 0 => pane = "discord"
  /\ pane = "none" => Q!NoPane

OneQuestion ==
  ~crossing =>
    /\ \A p, q \in flight : p = q
    /\ \A q \in flight : q.n = asks
    /\ pane = "click" /\ heading # NoSubject => \A q \in flight : q.about = heading

PaneInv == Q!QTypeOK /\ PaneCounts /\ OneQuestion /\ Q!AnswerFits

LEMMA NothingShown == Q!Nothing \in Shows /\ Q!Nothing.n = 0 /\ MaxAsks \in Nat
  BY BoundsAssumption DEF Q!Nothing, Shows

LEMMA PaneIdle == ASSUME Q!NoPane PROVE PaneInv
<1>1. IsFiniteSet({}) /\ Cardinality({}) = 0
  BY FS_EmptySet
<1>2. Q!QTypeOK
  BY NothingShown DEF Q!NoPane, Q!QTypeOK, Shows
<1>3. PaneCounts
  BY <1>1 DEF PaneCounts, Q!NoPane
<1> QED
  BY <1>2, <1>3, NothingShown DEF PaneInv, OneQuestion, Q!AnswerFits, Q!NoPane

LEMMA PaneCleared == ASSUME Q!ClearPane PROVE PaneInv'
<1>1. IsFiniteSet({}) /\ Cardinality({}) = 0
  BY FS_EmptySet
<1>2. Q!QTypeOK'
  BY NothingShown DEF Q!ClearPane, Q!QTypeOK, Shows
<1>3. PaneCounts'
  BY <1>1 DEF PaneCounts, Q!ClearPane, Q!NoPane, Q!Nothing
<1> QED
  BY <1>2, <1>3, NothingShown DEF PaneInv, OneQuestion, Q!AnswerFits, Q!ClearPane

LEMMA PaneMounted == ASSUME PaneInv, NEW p \in Q!Panes, Q!MountPane(p) PROVE PaneInv'
<1>1. /\ pane = "none" /\ pane' = p /\ p # "none" /\ Q!NoPane
      /\ UNCHANGED <<subject, heading, flight, asks, busy, shown, failed, resets, crossing>>
  BY DEF Q!MountPane, PaneInv, PaneCounts, Q!Panes
<1>2. Q!QTypeOK'
  BY <1>1 DEF PaneInv, Q!QTypeOK
<1>3. PaneCounts'
  BY <1>1 DEF PaneInv, PaneCounts, Q!NoPane
<1> QED
  BY <1>1, <1>2, <1>3, NothingShown DEF PaneInv, OneQuestion, Q!AnswerFits, Q!NoPane

\* What the handlers have in common up to their await.
AskedOne ==
  /\ Q!Sends /\ pane # "none"
  /\ heading' = heading \/ (pane = "click" /\ heading' = subject)
  /\ shown' = shown \/ shown' = Q!Nothing
  /\ failed' = failed \/ failed' = FALSE
  /\ busy' = busy \/ busy' = TRUE
  /\ pane = "click" => shown' = Q!Nothing /\ heading' = subject
  /\ pane \in Marked => busy' = TRUE

LEMMA Asking == ASSUME Q!Ask PROVE AskedOne
<1>1. ASSUME NEW how, Q!handleHunt(how) PROVE AskedOne
  BY <1>1 DEF Q!handleHunt, AskedOne
<1>2. ASSUME NEW how, Q!handleSearch(how) PROVE AskedOne
  BY <1>2 DEF Q!handleSearch, AskedOne
<1>3. CASE Q!handleEventClick
  BY <1>3 DEF Q!handleEventClick, AskedOne
<1>4. CASE Q!handleLookup
  BY <1>4 DEF Q!handleLookup, AskedOne, Marked
<1>5. CASE Q!handleSummarize
  BY <1>5 DEF Q!handleSummarize, AskedOne
<1>6. CASE Q!validateRule \/ Q!dryRunRule
  BY <1>6 DEF Q!validateRule, Q!dryRunRule, AskedOne, Marked
<1>7. CASE Q!handleTestDiscord
  BY <1>7 DEF Q!handleTestDiscord, AskedOne
<1>8. CASE Q!handleLogin
  BY <1>8 DEF Q!handleLogin, AskedOne
<1> QED
  BY <1>1, <1>2, <1>3, <1>4, <1>5, <1>6, <1>7, <1>8 DEF Q!Ask

LEMMA PaneAsks == ASSUME PaneInv, Q!Ask PROVE PaneInv'
<1> DEFINE q == [n |-> asks + 1, about |-> subject]
<1>1. /\ AskedOne /\ asks < MaxAsks /\ asks' = asks + 1 /\ flight' = flight \cup {q}
      /\ crossing' = (flight # {}) /\ UNCHANGED <<pane, subject, resets>>
  BY Asking DEF AskedOne, Q!Sends, PaneInv, Q!QTypeOK
<1>2. /\ asks \in Nat /\ resets \in Nat /\ MaxAsks \in Nat /\ asks' \in 1..MaxAsks
      /\ subject \in Subjects \cup {NoSubject} /\ q \in Questions
  BY <1>1, NothingShown DEF PaneInv, Q!QTypeOK, Questions
<1>3. Q!QTypeOK'
  <2>1. flight' \subseteq Questions
    BY <1>1, <1>2 DEF PaneInv, Q!QTypeOK, Questions
  <2>2. shown' \in Shows /\ heading' \in Subjects \cup {NoSubject}
    BY <1>1, <1>2, NothingShown DEF AskedOne, PaneInv, Q!QTypeOK, Shows
  <2>3. busy' \in BOOLEAN /\ failed' \in BOOLEAN /\ crossing' \in BOOLEAN
    BY <1>1 DEF AskedOne, PaneInv, Q!QTypeOK
  <2> QED
    BY <1>1, <1>2, <2>1, <2>2, <2>3 DEF PaneInv, Q!QTypeOK, Questions, Shows
<1>4. PaneCounts'
  <2>1. IsFiniteSet(flight') /\ Cardinality(flight') <= Cardinality(flight) + 1
        /\ Cardinality(flight) \in Nat /\ Cardinality(flight') \in Nat
    <3>1. /\ IsFiniteSet(flight)
          /\ IsFiniteSet(flight \cup {q})
          /\ Cardinality(flight \cup {q}) = IF q \in flight THEN Cardinality(flight)
                                                       ELSE Cardinality(flight) + 1
      BY FS_AddElement DEF PaneInv, PaneCounts
    <3>2. Cardinality(flight) \in Nat
      BY <3>1, FS_CardinalityType
    <3> QED
      BY <1>1, <3>1, <3>2
  <2> QED
    BY <1>1, <1>2, <2>1 DEF PaneInv, PaneCounts, AskedOne
<1>5. OneQuestion'
  <2> SUFFICES ASSUME flight = {}
               PROVE  /\ \A p, r \in flight' : p = r
                      /\ \A r \in flight' : r.n = asks'
                      /\ pane = "click" => \A r \in flight' : r.about = heading'
    BY <1>1 DEF OneQuestion
  <2> QED
    BY <1>1 DEF AskedOne
<1>6. Q!AnswerFits'
  <2> SUFFICES ASSUME ~crossing'
               PROVE  /\ flight' # {}
                      /\ pane = "click" => shown'.n = 0
                      /\ pane \in Marked => (busy' <=> flight' # {})
    BY <1>1 DEF Q!AnswerFits, Marked
  <2> QED
    BY <1>1, NothingShown DEF AskedOne
<1> QED
  BY <1>3, <1>4, <1>5, <1>6 DEF PaneInv

\* And after it.
AnsweredOne(q) ==
  /\ Q!Arrives(q)
  /\ shown' \in {shown, q, Q!Nothing} /\ failed' \in BOOLEAN /\ busy' \in {busy, FALSE}
  /\ pane \notin Q!KeepsOld => shown' = q \/ shown' = Q!Nothing \/ failed'
  /\ pane = "click" => shown' \in {q, Q!Nothing}
  /\ pane \in Marked => busy' = FALSE
  /\ resets' = resets \/ (pane = "discord" /\ resets' = resets + 1)

LEMMA Answering ==
  ASSUME Q!QTypeOK, NEW q, NEW kind, Q!Answer(q, kind) PROVE AnsweredOne(q)
<1> USE DEF AnsweredOne, Marked, Q!KeepsOld
<1>1. failed \in BOOLEAN
  BY DEF Q!QTypeOK
<1>2. CASE Q!huntAnswer(q, kind)
  BY <1>2 DEF Q!huntAnswer, Q!Show, Q!Fail
<1>3. CASE Q!searchAnswer(q, kind)
  BY <1>1, <1>3 DEF Q!searchAnswer
<1>4. CASE Q!clickAnswer(q, kind)
  BY <1>4 DEF Q!clickAnswer, Q!Show, Q!Fail
<1>5. CASE Q!lookupAnswer(q, kind)
  BY <1>1, <1>5 DEF Q!lookupAnswer, Q!Show, Q!Keep
<1>6. CASE Q!summaryAnswer(q, kind)
  BY <1>1, <1>6 DEF Q!summaryAnswer
<1>7. CASE Q!validateAnswer(q, kind)
  BY <1>7 DEF Q!validateAnswer, Q!Show, Q!Fail
<1>8. CASE Q!dryRunAnswer(q, kind)
  BY <1>1, <1>8 DEF Q!dryRunAnswer, Q!Show, Q!Keep
<1>9. CASE Q!discordAnswer(q, kind)
  BY <1>9 DEF Q!discordAnswer, Q!Show, Q!Fail
<1>10. CASE Q!loginAnswer(q, kind)
  BY <1>10 DEF Q!loginAnswer
<1> QED
  BY <1>2, <1>3, <1>4, <1>5, <1>6, <1>7, <1>8, <1>9, <1>10 DEF Q!Answer

LEMMA PaneAnswered ==
  ASSUME PaneInv, pane # "none", NEW q, NEW kind, Q!Answer(q, kind) PROVE PaneInv'
<1>1. AnsweredOne(q)
  BY Answering DEF PaneInv
<1>2. /\ q \in flight /\ flight' = flight \ {q} /\ q \in Questions
      /\ UNCHANGED <<pane, subject, heading, asks, crossing>>
  BY <1>1 DEF AnsweredOne, Q!Arrives, PaneInv, Q!QTypeOK, Questions
<1>3. /\ IsFiniteSet(flight') /\ Cardinality(flight') = Cardinality(flight) - 1
      /\ Cardinality(flight) \in Nat /\ Cardinality(flight') \in Nat
  BY <1>2, FS_RemoveElement, FS_CardinalityType DEF PaneInv, PaneCounts
<1>4. resets \in Nat /\ asks \in Nat /\ resets' \in Nat /\ resets' <= asks /\ MaxAsks \in Nat
      /\ resets' + Cardinality(flight') <= asks /\ asks \in 0..MaxAsks
  BY <1>1, <1>3, NothingShown DEF AnsweredOne, PaneInv, Q!QTypeOK, PaneCounts
<1>5. Q!QTypeOK'
  <2>1. q \in Shows /\ shown' \in Shows
    BY <1>1, <1>2, NothingShown DEF AnsweredOne, PaneInv, Q!QTypeOK, Questions, Shows
  <2>2. busy' \in BOOLEAN /\ failed' \in BOOLEAN
    BY <1>1 DEF AnsweredOne, PaneInv, Q!QTypeOK
  <2>3. flight' \subseteq Questions /\ resets' \in 0..MaxAsks
    BY <1>2, <1>4 DEF PaneInv, Q!QTypeOK, Questions
  <2> QED
    BY <1>2, <2>1, <2>2, <2>3 DEF PaneInv, Q!QTypeOK, Questions, Shows
<1>6. PaneCounts'
  BY <1>1, <1>2, <1>3, <1>4 DEF AnsweredOne, PaneInv, PaneCounts
<1>7. OneQuestion'
  BY <1>2 DEF PaneInv, OneQuestion
<1>8. Q!AnswerFits'
  <2> SUFFICES ASSUME ~crossing
               PROVE  /\ pane \notin Q!KeepsOld /\ shown'.n > 0 => shown'.n = asks \/ failed'
                      /\ pane = "click" /\ heading # NoSubject /\ shown'.n > 0 =>
                           shown'.about = heading
                      /\ pane \in Marked => ~busy'
                      /\ flight' = {}
    BY <1>2 DEF Q!AnswerFits, Marked
  <2>1. /\ \A r \in flight : r = q
        /\ q.n = asks
        /\ pane = "click" /\ heading # NoSubject => q.about = heading
    BY <1>2 DEF PaneInv, OneQuestion
  <2>2. ~(0 > 0)
    OBVIOUS
  <2> QED
    BY <1>1, <1>2, <2>1, <2>2, NothingShown DEF AnsweredOne
<1> QED
  BY <1>5, <1>6, <1>7, <1>8 DEF PaneInv

\* The steps that send nothing and bring no answer.
LEMMA PaneRests ==
  ASSUME PaneInv, pane # "none",
         \/ Q!CloseDialog \/ Q!Dismiss \/ Q!DiscordIdle
         \/ \E s \in Subjects : Q!Choose(s)
         \/ UNCHANGED paneVars
  PROVE  PaneInv'
<1>1. /\ UNCHANGED <<pane, flight, asks, crossing>>
      /\ shown' \in {shown, Q!Nothing} /\ heading' \in {heading, NoSubject}
      /\ subject' = subject \/ subject' \in Subjects
      /\ (resets > 0 /\ resets' = resets - 1 /\ busy' = FALSE /\ failed' = FALSE
           /\ shown' = Q!Nothing)
         \/ (UNCHANGED <<resets, busy, failed>>)
  BY DEF Q!CloseDialog, Q!Dismiss, Q!DiscordIdle, Q!Choose, paneVars
<1>2. resets \in Nat /\ asks \in Nat /\ MaxAsks \in Nat /\ resets <= MaxAsks
  BY NothingShown DEF PaneInv, Q!QTypeOK
<1>3. Cardinality(flight) \in Nat
  BY FS_CardinalityType DEF PaneInv, PaneCounts
<1>4. Q!QTypeOK'
  <2>1. shown' \in Shows /\ resets' \in 0..MaxAsks /\ resets' \in Nat
    BY <1>1, <1>2, NothingShown DEF PaneInv, Q!QTypeOK, Shows
  <2>2. busy' \in BOOLEAN /\ failed' \in BOOLEAN
    BY <1>1 DEF PaneInv, Q!QTypeOK
  <2> QED
    BY <1>1, <2>1, <2>2 DEF PaneInv, Q!QTypeOK, Shows
<1>5. PaneCounts'
  BY <1>1, <1>2, <1>3 DEF PaneInv, PaneCounts
<1>6. OneQuestion'
  BY <1>1 DEF PaneInv, OneQuestion
<1>7. Q!AnswerFits'
  <2>1. /\ shown'.n > 0 => shown' = shown /\ UNCHANGED <<resets, busy, failed>>
        /\ pane \in Marked => UNCHANGED busy
    BY <1>1, <1>2, NothingShown DEF PaneInv, PaneCounts, Marked
  <2> QED
    BY <1>1, <2>1 DEF PaneInv, Q!AnswerFits, Marked
<1> QED
  BY <1>4, <1>5, <1>6, <1>7 DEF PaneInv

LEMMA PaneKept == ASSUME PaneInv, UNCHANGED paneVars PROVE PaneInv'
<1>1. CASE pane = "none"
  <2>1. Q!NoPane'
    BY <1>1 DEF PaneInv, PaneCounts, Q!NoPane, paneVars
  <2> QED
    BY <2>1, PaneCleared DEF Q!NoPane, Q!ClearPane, Q!Nothing
<1>2. CASE pane # "none"
  BY <1>2, PaneRests
<1> QED
  BY <1>1, <1>2

\* What a pane shows is the answer to its last question, once nothing is in flight and
\* unless questions crossed; a pane that marks itself busy is busy exactly while its
\* question is in flight; the dialog over the map shows its own heading's answer.
\* (The handlers of Logs, ThreatIntel, ThreatMapLayout, Header, AISummaryButton, Rules,
\* Settings and Login, over any number of questions and subjects.)
THEOREM AnswersMatch == Spec => []AnswerFits
<1>1. Init => PaneInv
  BY PaneIdle DEF Init
<1>2. PaneInv /\ [Next]_vars => PaneInv'
  <2> SUFFICES ASSUME PaneInv, [Next]_vars PROVE PaneInv'
    OBVIOUS
  <2>1. CASE pane # "none" /\ Q!QNext
    BY <2>1, PaneAsks, PaneAnswered, PaneRests DEF Q!QNext
  <2> QED
    BY <2>1, PaneStep, PaneCleared, PaneMounted, PaneKept
<1>3. PaneInv => AnswerFits
  BY DEF PaneInv, AnswerFits
<1> QED
  BY <1>1, <1>2, <1>3, PTL DEF Spec

----------------------------------------------------------------------------
(***************************************************************************
 Who sits at the desk: without a token no page is mounted but the login form, and
 only the roles that may control the host are given its buttons.
 ***************************************************************************)
Session ==
  /\ role \in Roles \cup {"none"}
  /\ role = "none" => desk = "none"
  /\ pane = "login" => role = "none"
  /\ may \in BOOLEAN /\ (may => role \in Controllers)
  /\ desk = "none" => ~may

LEMMA DeskStays == ASSUME D!DNext PROVE UNCHANGED <<desk, may>>
<1>1. CASE D!DeskOps
  BY <1>1 DEF D!DeskOps, D!handleAction, D!Execute, D!Cancel, D!Confirm, D!OthersAct, D!saveThresholds,
              D!MoveSlider, D!saveMode, D!SaveSends, D!cmdVars
<1>2. CASE D!DeskWork
  BY <1>2 DEF D!DeskWork, D!StreamDelivers, D!RefreshTimer, D!ServeCmd, D!CmdAnswer,
              D!ServeSave, D!SaveAnswer, D!cmdVars
<1> QED
  BY <1>1, <1>2 DEF D!DNext

LEMMA PaneStays == ASSUME Q!QNext PROVE UNCHANGED pane
<1>1. CASE Q!Ask
  BY <1>1, Asking DEF AskedOne, Q!Sends
<1>2. ASSUME NEW q, NEW kind, Q!Answer(q, kind) PROVE UNCHANGED pane
  BY <1>2 DEF Q!Answer, Q!Arrives, Q!huntAnswer, Q!searchAnswer, Q!clickAnswer, Q!lookupAnswer,
              Q!summaryAnswer, Q!validateAnswer, Q!dryRunAnswer, Q!discordAnswer, Q!loginAnswer
<1>3. ASSUME NEW s, Q!Choose(s) PROVE UNCHANGED pane
  BY <1>3 DEF Q!Choose
<1>4. CASE Q!CloseDialog \/ Q!Dismiss \/ Q!DiscordIdle
  BY <1>4 DEF Q!CloseDialog, Q!Dismiss, Q!DiscordIdle
<1> QED
  BY <1>1, <1>2, <1>3, <1>4 DEF Q!QNext

LEMMA SessionKept == ASSUME Session, UNCHANGED <<role, desk, may, pane>> PROVE Session'
  BY DEF Session

LEMMA SessionStep == ASSUME Session, [Next]_vars PROVE Session'
<1>1. CASE ProtectedRoute
  <2>1. role = "none" /\ pane' = "login" /\ UNCHANGED <<role, desk, may>>
    BY <1>1 DEF ProtectedRoute, Q!MountPane, deskVars
  <2> QED
    BY <2>1 DEF Session
<1>2. CASE LoggedIn
  <2>1. pane = "login" /\ role' \in Roles /\ pane' = "none" /\ UNCHANGED <<desk, may>>
    BY <1>2 DEF LoggedIn, Q!ClearPane, deskVars
  <2>2. role' # "none" /\ desk = "none" /\ ~may
    BY <2>1, NamesAssumption DEF Session
  <2> QED
    BY <2>1, <2>2 DEF Session
<1>3. CASE DropToken \/ Leave
  <2>1. role' \in {role, "none"} /\ Clear
    BY <1>3 DEF DropToken, Leave
  <2>2. pane' = "none"
    BY <2>1 DEF Clear, Q!ClearPane, paneVars
  <2>3. desk' = "none" /\ may' = FALSE
    BY <2>1 DEF Clear, D!ClearDesk, deskVars, Session
  <2> QED
    BY <2>1, <2>2, <2>3 DEF Session
<1>4. CASE VisitPane
  <2>1. role # "none" /\ pane' # "login" /\ UNCHANGED <<role, desk, may>>
    BY <1>4 DEF VisitPane, Open, Q!MountPane, deskVars
  <2> QED
    BY <2>1 DEF Session
<1>5. CASE VisitDesk
  <2> PICK p \in {"infra", "dash"} :
        Open(PageOf[p]) /\ D!MountDesk(p, role \in Admins, role \in Controllers)
    BY <1>5 DEF VisitDesk
  <2>1. role # "none" /\ desk' = p /\ UNCHANGED <<role, pane>>
    BY <1>5 DEF VisitDesk, Open, D!MountDesk, paneVars
  <2>2. may' \in BOOLEAN /\ (may' => role \in Controllers)
    BY DEF D!MountDesk, Controllers
  <2> QED
    BY <2>1, <2>2 DEF Session
<1>6. CASE VisitList \/ VisitPolling \/ VisitMap \/ OnList \/ OnPage \/ OnMap \/ UNCHANGED vars
  <2>1. UNCHANGED <<role, desk, may, pane>>
    BY <1>6 DEF VisitList, VisitPolling, VisitMap, OnList, OnPage, OnMap, vars, deskVars, paneVars
  <2> QED
    BY <2>1, SessionKept
<1>7. CASE OnPane /\ Q!QNext
  <2>1. UNCHANGED <<role, desk, may, pane>>
    BY <1>7, PaneStays DEF OnPane, deskVars
  <2> QED
    BY <2>1, SessionKept
<1>8. CASE OnDesk /\ D!DNext
  <2>1. UNCHANGED <<role, desk, may, pane>>
    BY <1>8, DeskStays DEF OnDesk, paneVars
  <2> QED
    BY <2>1, SessionKept
<1> QED
  BY <1>1, <1>2, <1>3, <1>4, <1>5, <1>6, <1>7, <1>8 DEF Next

----------------------------------------------------------------------------
(***************************************************************************
 The guest commands: one at a time, confirmed in the dialog when it destroys.
 ***************************************************************************)
Orders == [guest : Guests, action : Actions]
Sent == [guest : Guests, action : Actions, stage : {"sent", "ok", "refused"},
         agreed : {D!None} \cup Orders]
Servers == [Guests -> {"running", "stopped"}]

Commands ==
  /\ {real, seen} \subseteq Servers
  /\ {confirming, agreed, busyWith} \subseteq {D!None} \cup Orders
  /\ cmds \subseteq Sent
  /\ \A c, d \in cmds : c = d
  /\ busyWith = D!None <=> cmds = {}
  /\ \A c \in cmds :
       /\ busyWith = D!Cmd(c.guest, c.action)
       /\ desk = "infra" /\ c.action \in D!DESTRUCTIVE => c.agreed = busyWith
  /\ confirming # D!None => cmds = {} /\ may
  /\ cmds # {} => may

LEMMA NoneIsNoOrder == D!None \notin Orders
  BY NamesAssumption DEF D!None, Orders

LEMMA RunningServers == D!Running \in Servers
  BY DEF D!Running, Servers

LEMMA CommandsIdle ==
  /\ D!NoDesk => Commands
  /\ D!ClearDesk => Commands'
  BY RunningServers DEF D!NoDesk, D!ClearDesk, Commands

LEMMA CommandsKept ==
  ASSUME Commands, UNCHANGED <<desk, may, real, confirming, agreed, busyWith, cmds>>,
         seen' = seen \/ seen' = real
  PROVE  Commands'
  BY DEF Commands

\* A command leaves when none is in flight.
LEMMA CommandLeaves ==
  ASSUME Commands, NEW g \in Guests, NEW a \in Actions, D!Execute(g, a), cmds = {}, may,
         UNCHANGED <<desk, may, real, seen>>, confirming' = D!None,
         agreed' \in {D!None} \cup Orders,
         desk = "infra" /\ a \in D!DESTRUCTIVE => agreed' = D!Cmd(g, a)
  PROVE  Commands'
<1> DEFINE c == [guest |-> g, action |-> a, stage |-> "sent", agreed |-> agreed']
<1>1. cmds' = {c} /\ busyWith' = D!Cmd(g, a)
  BY DEF D!Execute
<1>2. D!Cmd(g, a) \in Orders /\ c \in Sent
  BY DEF D!Cmd, Orders, Sent
<1>3. busyWith' # D!None
  BY <1>1, <1>2, NoneIsNoOrder
<1>4. c.guest = g /\ c.action = a /\ c.agreed = agreed'
  OBVIOUS
<1> HIDE DEF c
<1> QED
  BY <1>1, <1>2, <1>3, <1>4 DEF Commands

LEMMA CommandClicked ==
  ASSUME Commands, NEW g \in Guests, NEW a \in Actions, D!handleAction(g, a) PROVE Commands'
<1>1. /\ may /\ confirming = D!None /\ busyWith = D!None /\ cmds = {} /\ agreed' = D!None
      /\ UNCHANGED <<desk, may, real, seen>>
  BY DEF D!handleAction, D!Clickable, Commands
<1>2. CASE desk = "infra" /\ a \in D!DESTRUCTIVE
  <2>1. confirming' = D!Cmd(g, a) /\ UNCHANGED <<busyWith, cmds>>
    BY <1>2 DEF D!handleAction
  <2>2. D!Cmd(g, a) \in Orders
    BY DEF D!Cmd, Orders
  <2> QED
    BY <1>1, <2>1, <2>2 DEF Commands
<1>3. CASE ~(desk = "infra" /\ a \in D!DESTRUCTIVE)
  <2>1. D!Execute(g, a) /\ UNCHANGED confirming
    BY <1>3 DEF D!handleAction
  <2> QED
    BY <1>1, <1>3, <2>1, CommandLeaves
<1> QED
  BY <1>2, <1>3

LEMMA CommandConfirmed == ASSUME Commands, D!Confirm PROVE Commands'
<1>1. /\ confirming # D!None /\ confirming' = D!None /\ agreed' = confirming
      /\ D!Execute(confirming.guest, confirming.action)
      /\ UNCHANGED <<desk, may, real, seen>>
  BY DEF D!Confirm
<1>2. confirming \in Orders /\ cmds = {} /\ may
  BY <1>1 DEF Commands
<1> PICK g \in Guests, a \in Actions : g = confirming.guest /\ a = confirming.action
  BY <1>2 DEF Orders
<1>3. confirming = D!Cmd(g, a)
  BY <1>2 DEF Orders, D!Cmd
<1> QED
  BY <1>1, <1>2, <1>3, CommandLeaves

LEMMA CommandServed == ASSUME Commands, NEW c, D!ServeCmd(c) PROVE Commands'
<1>1. /\ c \in cmds /\ c \in Sent /\ cmds = {c}
      /\ UNCHANGED <<desk, may, seen, confirming, agreed, busyWith>>
  BY DEF D!ServeCmd, Commands
<1>2. real' \in Servers
  <2>1. /\ real \in Servers /\ c.guest \in Guests
        /\ [real EXCEPT ![c.guest] = "running"] \in Servers
        /\ [real EXCEPT ![c.guest] = "stopped"] \in Servers
    BY <1>1 DEF Commands, Servers, Sent
  <2>2. \/ real' = [real EXCEPT ![c.guest] = "running"]
        \/ real' = [real EXCEPT ![c.guest] = "stopped"]
        \/ real' = real
    BY DEF D!ServeCmd
  <2> QED
    BY <2>1, <2>2
<1> PICK d : cmds' = {d} /\ (d = [c EXCEPT !.stage = "ok"] \/ d = [c EXCEPT !.stage = "refused"])
  <2>1. \/ cmds' = (cmds \ {c}) \cup {[c EXCEPT !.stage = "ok"]}
        \/ cmds' = (cmds \ {c}) \cup {[c EXCEPT !.stage = "refused"]}
    BY DEF D!ServeCmd
  <2> QED
    BY <1>1, <2>1
<1>3. d \in Sent /\ d.guest = c.guest /\ d.action = c.action /\ d.agreed = c.agreed
  BY <1>1 DEF Sent
<1> QED
  BY <1>1, <1>2, <1>3 DEF Commands

LEMMA CommandAnswered == ASSUME Commands, NEW c, NEW kind, D!CmdAnswer(c, kind) PROVE Commands'
<1>1. /\ c \in cmds /\ cmds' = cmds \ {c} /\ busyWith' = D!None
      /\ UNCHANGED <<desk, may, real, seen, confirming, agreed>>
  BY DEF D!CmdAnswer
<1>2. cmds' = {}
  BY <1>1 DEF Commands
<1> QED
  BY <1>1, <1>2 DEF Commands

----------------------------------------------------------------------------
(***************************************************************************
 The fan panel: what is typed is the server's policy or that of the last overview,
 until a slider moves; a save that was accepted is the server's policy.
 ***************************************************************************)
Saves == [next : Policies, stage : {"sent", "ok", "refused"}]

Fans ==
  /\ {fanBusy, edited, crossed} \subseteq BOOLEAN
  /\ {policy, shownPolicy, draft} \subseteq Policies
  /\ saves \subseteq Saves
  /\ \A s, t \in saves : s = t
  /\ fanBusy <=> saves # {}
  /\ saves # {} => desk = "infra" /\ may
  /\ policy.off < policy.on - Gap
  /\ ~crossed => /\ \A s \in saves : s.stage = "ok" => policy = s.next
                 /\ edited \/ draft = policy \/ draft = shownPolicy

LEMMA DefaultPolicy == D!Default \in Policies /\ D!Default.off < D!Default.on - Gap
  BY PoliciesAssumption DEF D!Default

LEMMA FansIdle ==
  /\ D!NoDesk => Fans
  /\ D!ClearDesk => Fans'
  BY DefaultPolicy DEF D!NoDesk, D!ClearDesk, Fans

LEMMA FansKept == ASSUME Fans, UNCHANGED <<desk, may, policy, shownPolicy, draft, fanBusy, saves, edited, crossed>> PROVE Fans'
  BY DEF Fans

LEMMA FansOverview ==
  ASSUME Fans, D!Overview, UNCHANGED <<desk, may, policy, fanBusy, saves>> PROVE Fans'
<1>1. CASE policy # shownPolicy
  BY <1>1 DEF Fans, D!Overview
<1>2. CASE policy = shownPolicy
  BY <1>2 DEF Fans, D!Overview
<1> QED
  BY <1>1, <1>2

LEMMA FansOthers ==
  ASSUME Fans, NEW p \in Policies, p.off < p.on - Gap, policy' = p,
         crossed' = (crossed \/ saves # {} \/ policy # shownPolicy),
         UNCHANGED <<desk, may, shownPolicy, draft, fanBusy, saves, edited>>
  PROVE  Fans'
  BY DEF Fans

LEMMA FansTyped == ASSUME Fans, NEW p \in Policies, D!MoveSlider(p) PROVE Fans'
  BY DEF Fans, D!MoveSlider, D!cmdVars

LEMMA FansSend ==
  ASSUME Fans, NEW next \in Policies, D!SaveSends(next) PROVE Fans'
<1> DEFINE s == [next |-> next, stage |-> "sent"]
<1>1. /\ saves = {} /\ saves' = {s} /\ fanBusy' = TRUE /\ desk = "infra" /\ may
      /\ UNCHANGED <<desk, may, policy, shownPolicy, draft, edited, crossed>>
  BY DEF Fans, D!SaveSends, D!FanPanel, D!cmdVars
<1>2. s \in Saves /\ s.stage # "ok"
  BY DEF Saves
<1> HIDE DEF s
<1> QED
  BY <1>1, <1>2 DEF Fans

LEMMA FansServed == ASSUME Fans, NEW s, D!ServeSave(s) PROVE Fans'
<1>1. /\ s \in saves /\ s \in Saves /\ saves = {s}
      /\ UNCHANGED <<desk, may, shownPolicy, draft, fanBusy, edited>>
  BY DEF D!ServeSave, Fans, D!cmdVars
<1>2. CASE /\ s.next.off < s.next.on - Gap /\ policy' = s.next
           /\ saves' = (saves \ {s}) \cup {[s EXCEPT !.stage = "ok"]}
           /\ crossed' = (crossed \/ policy # shownPolicy)
  <2> PICK t : t = [s EXCEPT !.stage = "ok"]
    OBVIOUS
  <2>1. t \in Saves /\ t.next = s.next /\ saves' = {t} /\ s.next \in Policies
    BY <1>1, <1>2 DEF Saves
  <2> QED
    BY <1>1, <1>2, <2>1 DEF Fans
<1>3. CASE UNCHANGED <<policy, crossed>> /\ saves' = (saves \ {s}) \cup {[s EXCEPT !.stage = "refused"]}
  <2> PICK t : t = [s EXCEPT !.stage = "refused"]
    OBVIOUS
  <2>1. t \in Saves /\ t.stage = "refused" /\ saves' = {t}
    BY <1>1, <1>3 DEF Saves
  <2> QED
    BY <1>1, <1>3, <2>1 DEF Fans
<1> QED
  BY <1>2, <1>3 DEF D!ServeSave

LEMMA FansAnswered == ASSUME Fans, NEW s, NEW kind, D!SaveAnswer(s, kind) PROVE Fans'
<1>1. /\ s \in saves /\ s \in Saves /\ saves' = {} /\ fanBusy' = FALSE
      /\ UNCHANGED <<desk, may, policy, shownPolicy, crossed>>
  BY DEF D!SaveAnswer, Fans
<1>2. CASE kind = "ok"
  <2>1. s.stage = "ok" /\ draft' = s.next /\ edited' = FALSE /\ s.next \in Policies
    BY <1>1, <1>2 DEF D!SaveAnswer, Saves
  <2> QED
    BY <1>1, <2>1 DEF Fans
<1>3. CASE kind # "ok"
  <2>1. UNCHANGED <<draft, edited>>
    BY <1>3 DEF D!SaveAnswer
  <2> QED
    BY <1>1, <2>1 DEF Fans
<1> QED
  BY <1>2, <1>3

----------------------------------------------------------------------------
DeskCounts ==
  /\ desk \in {"none", "infra", "dash"} /\ sentCmds \in 0..MaxCmds
  /\ desk = "none" => D!NoDesk

DeskInv == DeskCounts /\ Commands /\ Fans

LEMMA DeskBounds == MaxCmds \in Nat /\ 0 \in 0..MaxCmds
  BY BoundsAssumption

LEMMA DeskIdle ==
  /\ D!NoDesk => DeskInv
  /\ D!ClearDesk => DeskInv'
<1>1. D!NoDesk => DeskCounts
  BY DeskBounds DEF D!NoDesk, DeskCounts
<1>2. D!ClearDesk => DeskCounts'
  BY DeskBounds DEF D!ClearDesk, D!NoDesk, DeskCounts, D!Default, D!Running, D!None
<1> QED
  BY <1>1, <1>2, CommandsIdle, FansIdle DEF DeskInv

LEMMA DeskKept == ASSUME DeskInv, UNCHANGED deskVars PROVE DeskInv'
<1>1. DeskCounts'
  <2>1. desk = "none" => D!NoDesk'
    BY DEF DeskInv, DeskCounts, D!NoDesk, deskVars
  <2> QED
    BY <2>1 DEF DeskInv, DeskCounts, deskVars
<1>2. Commands'
  BY CommandsKept DEF DeskInv, deskVars
<1>3. Fans'
  BY FansKept DEF DeskInv, deskVars
<1> QED
  BY <1>1, <1>2, <1>3 DEF DeskInv

LEMMA DeskMounted ==
  ASSUME DeskInv, NEW p \in {"infra", "dash"},
         D!MountDesk(p, role \in Admins, role \in Controllers)
  PROVE  DeskInv'
<1>1. /\ desk = "none" /\ desk' = p /\ D!NoDesk /\ may' \in BOOLEAN
      /\ UNCHANGED <<real, seen, confirming, agreed, busyWith, cmds, refreshes, sentCmds>>
      /\ UNCHANGED <<policy, shownPolicy, draft, fanBusy, saves, edited, crossed>>
  BY DEF D!MountDesk, DeskInv, DeskCounts, D!fanVars
<1>2. DeskCounts'
  BY <1>1 DEF DeskInv, DeskCounts
<1>3. Commands'
  BY <1>1 DEF DeskInv, Commands, D!NoDesk
<1>4. Fans'
  BY <1>1 DEF DeskInv, Fans, D!NoDesk
<1> QED
  BY <1>2, <1>3, <1>4 DEF DeskInv

LEMMA DeskCounted ==
  ASSUME DeskCounts, desk # "none", desk' = desk,
         sentCmds' = sentCmds \/ (sentCmds < MaxCmds /\ sentCmds' = sentCmds + 1)
  PROVE  DeskCounts'
  BY DeskBounds DEF DeskCounts

LEMMA DeskOpsStep == ASSUME DeskInv, desk # "none", D!DeskOps PROVE DeskInv'
<1> USE DEF DeskInv
<1>1. desk' = desk
  BY DeskStays DEF D!DNext
<1>2. ASSUME NEW g \in Guests, NEW a \in Actions, D!handleAction(g, a) PROVE DeskInv'
  <2>1. DeskCounts'
    BY <1>1, <1>2, DeskCounted DEF D!handleAction, D!Execute
  <2>2. Fans'
    BY <1>2, FansKept DEF D!handleAction, D!fanVars
  <2> QED
    BY <1>2, <2>1, <2>2, CommandClicked
<1>3. CASE D!Confirm
  <2>1. DeskCounts'
    BY <1>1, <1>3, DeskCounted DEF D!Confirm, D!Execute
  <2>2. Fans'
    BY <1>3, FansKept DEF D!Confirm, D!fanVars
  <2> QED
    BY <1>3, <2>1, <2>2, CommandConfirmed
<1>4. CASE D!Cancel
  <2>1. DeskCounts' /\ Fans'
    BY <1>1, <1>4, DeskCounted, FansKept DEF D!Cancel, D!fanVars
  <2>2. Commands'
    BY <1>4 DEF D!Cancel, Commands
  <2> QED
    BY <2>1, <2>2
<1>5. CASE D!OthersAct
  <2>1. DeskCounts'
    BY <1>1, <1>5, DeskCounted DEF D!OthersAct
  <2>2. CASE UNCHANGED <<policy, crossed>> /\ \E g \in Guests, s \in {"running", "stopped"} :
                                                real' = [real EXCEPT ![g] = s]
    <3>1. UNCHANGED <<desk, may, seen, confirming, agreed, busyWith, cmds, shownPolicy, draft,
                      fanBusy, saves, edited>>
      BY <1>5 DEF D!OthersAct
    <3>2. real' \in Servers
      BY <2>2 DEF Commands, Servers
    <3>3. Commands'
      BY <3>1, <3>2 DEF Commands
    <3>4. Fans'
      BY <2>2, <3>1, FansKept
    <3> QED
      BY <2>1, <3>3, <3>4
  <2>3. CASE /\ \E p \in Policies : p.off < p.on - Gap /\ policy' = p
             /\ crossed' = (crossed \/ saves # {} \/ policy # shownPolicy)
             /\ UNCHANGED real
    <3>1. UNCHANGED <<desk, may, seen, confirming, agreed, busyWith, cmds, shownPolicy, draft,
                      fanBusy, saves, edited>>
      BY <1>5 DEF D!OthersAct
    <3>2. Commands'
      BY <2>3, <3>1, CommandsKept
    <3>3. Fans'
      BY <2>3, <3>1, FansOthers
    <3> QED
      BY <2>1, <3>2, <3>3
  <2> QED
    BY <1>5, <2>2, <2>3 DEF D!OthersAct
<1>6. ASSUME NEW p \in Policies, D!MoveSlider(p) PROVE DeskInv'
  <2>1. DeskCounts' /\ Commands'
    BY <1>1, <1>6, DeskCounted, CommandsKept DEF D!MoveSlider, D!cmdVars
  <2> QED
    BY <1>6, <2>1, FansTyped
<1>7. ASSUME NEW next \in Policies, D!SaveSends(next) PROVE DeskInv'
  <2>1. DeskCounts' /\ Commands'
    BY <1>1, <1>7, DeskCounted, CommandsKept DEF D!SaveSends, D!cmdVars
  <2> QED
    BY <1>7, <2>1, FansSend
<1>8. CASE D!saveThresholds
  <2>1. draft \in Policies /\ D!SaveSends(draft)
    BY <1>8 DEF D!saveThresholds, Fans
  <2> QED
    BY <1>7, <2>1
<1>9. ASSUME NEW mode \in {"auto", "max"}, D!saveMode(mode) PROVE DeskInv'
  <2>1. [draft EXCEPT !.mode = mode] \in Policies
    BY PoliciesAssumption DEF Fans
  <2> QED
    BY <1>7, <1>9, <2>1 DEF D!saveMode
<1> QED
  BY <1>2, <1>3, <1>4, <1>5, <1>6, <1>8, <1>9 DEF D!DeskOps

LEMMA DeskWorkStep == ASSUME DeskInv, desk # "none", D!DeskWork PROVE DeskInv'
<1> USE DEF DeskInv
<1>1. desk' = desk
  BY DeskStays DEF D!DNext
<1>2. CASE D!StreamDelivers \/ D!RefreshTimer
  <2>1. /\ D!Overview /\ seen' = real
        /\ UNCHANGED <<desk, may, real, confirming, agreed, busyWith, cmds, sentCmds,
                       policy, fanBusy, saves>>
    BY <1>2 DEF D!StreamDelivers, D!RefreshTimer, D!Overview
  <2> QED
    BY <2>1, DeskCounted, CommandsKept, FansOverview
<1>3. ASSUME NEW c, D!ServeCmd(c) PROVE DeskInv'
  <2>1. DeskCounts' /\ Fans'
    BY <1>1, <1>3, DeskCounted, FansKept DEF D!ServeCmd, D!fanVars
  <2> QED
    BY <1>3, <2>1, CommandServed
<1>4. ASSUME NEW c, NEW kind, D!CmdAnswer(c, kind) PROVE DeskInv'
  <2>1. DeskCounts' /\ Fans'
    BY <1>1, <1>4, DeskCounted, FansKept DEF D!CmdAnswer, D!fanVars
  <2> QED
    BY <1>4, <2>1, CommandAnswered
<1>5. ASSUME NEW s, D!ServeSave(s) PROVE DeskInv'
  <2>1. DeskCounts' /\ Commands'
    BY <1>1, <1>5, DeskCounted, CommandsKept DEF D!ServeSave, D!cmdVars
  <2> QED
    BY <1>5, <2>1, FansServed
<1>6. ASSUME NEW s, NEW kind, D!SaveAnswer(s, kind) PROVE DeskInv'
  <2>1. DeskCounts' /\ Commands'
    BY <1>1, <1>6, DeskCounted, CommandsKept DEF D!SaveAnswer
  <2> QED
    BY <1>6, <2>1, FansAnswered
<1> QED
  BY <1>2, <1>3, <1>4, <1>5, <1>6 DEF D!DeskWork

\* One element at most.
LEMMA AtMostOne == ASSUME NEW S, \A c, d \in S : c = d PROVE Cardinality(S) <= 1
<1>1. CASE S = {}
  BY <1>1, FS_EmptySet
<1>2. ASSUME NEW c \in S PROVE Cardinality(S) <= 1
  <2>1. S = {c}
    OBVIOUS
  <2> QED
    <3>1. Cardinality({c}) = 1
      BY FS_Singleton
    <3> QED
      BY <2>1, <3>1
<1> QED
  BY <1>1, <1>2

LEMMA DeskShows == ASSUME Session, DeskInv PROVE DeskFits
<1>1. D!DTypeOK
  BY DEF D!DTypeOK, DeskInv, DeskCounts, Commands, Fans, Servers, Orders, Session
<1>2. D!DeskFits
  <2>1. Cardinality(cmds) <= 1
    BY AtMostOne DEF DeskInv, Commands
  <2> QED
    BY <2>1 DEF D!DeskFits, D!Cardinality, Cardinality, DeskInv, Commands, Fans
<1> QED
  BY <1>1, <1>2 DEF DeskFits, Session, DeskInv, Commands, Fans

\* The controls over the Proxmox host wait for their commands, ask before the
\* destructive ones and show the policy in force, and only roles that may control the
\* host have a command or a save in flight (NodeBlock and ProxmoxNodeRow, ThermalPanel,
\* the routes of App), over any guests, policies and number of commands.
THEOREM DeskHolds == Spec => []DeskFits
<1> DEFINE Holds == Session /\ DeskInv
<1>1. Init => Holds
  BY DeskIdle DEF Init, Session, D!NoDesk, Q!NoPane
<1>2. Holds /\ [Next]_vars => Holds'
  <2> SUFFICES ASSUME Session, DeskInv, [Next]_vars PROVE Session' /\ DeskInv'
    OBVIOUS
  <2>1. ASSUME desk # "none", D!DNext PROVE DeskInv'
    BY <2>1, DeskOpsStep, DeskWorkStep DEF D!DNext
  <2>2. DeskInv'
    BY <2>1, DeskStep, DeskIdle, DeskMounted, DeskKept
  <2> QED
    BY <2>2, SessionStep
<1>3. Holds => DeskFits
  BY DeskShows
<1> QED
  BY <1>1, <1>2, <1>3, PTL DEF Spec

----------------------------------------------------------------------------
(***************************************************************************
 The pages that poll.  Their variables come in groups: the cache and the queries in
 flight, the selections of Logs, the drawing of Topology, the overviews of the
 Dashboard, the jobs of Forensics.
 ***************************************************************************)
LEMMA PageStep ==
  ASSUME [Next]_vars
  PROVE  \/ UNCHANGED pageVars \/ P!ClearPage
         \/ \E p \in P!QueryPages : P!MountPage(p)
         \/ page # "none" /\ P!PNext
<1>1. CASE ProtectedRoute \/ LoggedIn
  BY <1>1 DEF ProtectedRoute, LoggedIn
<1>2. CASE DropToken \/ Leave
  BY <1>2 DEF DropToken, Leave, Clear
<1>3. CASE VisitPolling
  BY <1>3 DEF VisitPolling
<1>4. CASE VisitList \/ VisitPane \/ VisitDesk \/ VisitMap
  BY <1>4 DEF VisitList, VisitPane, VisitDesk, VisitMap
<1>5. CASE OnPage /\ P!PNext
  BY <1>5 DEF OnPage
<1>6. CASE OnList \/ OnPane \/ OnDesk \/ OnMap
  BY <1>6 DEF OnList, OnPane, OnDesk, OnMap
<1>7. CASE UNCHANGED vars
  BY <1>7 DEF vars
<1> QED
  BY <1>1, <1>2, <1>3, <1>4, <1>5, <1>6, <1>7 DEF Next

Topology == P!Plain("topology")

\* The lines a key of container-logs stands for.
Lines(d) == IF d[2] = P!Every /\ d[3] = P!Every THEN <<"all", d[1], d[4]>>
                                              ELSE <<"one", d[2], d[3]>>
Matches(k, address) ==
  k.q = "container-logs" => address = P!Error \/ address = Lines(k.detail)

CacheFits ==
  /\ gen \in 1..MaxGen /\ failures \in 0..MaxRefused
  /\ \A k \in DOMAIN cache : cache[k].v \in 1..gen /\ Matches(k, cache[k].address)
  /\ \A a \in asking : /\ Matches(a.key, a.address)
                       /\ a.key.q = "topology" => a.key = Topology

SelectionFits ==
  /\ tab \in {"audit", "containers"} /\ host \in Hosts \cup {P!Every}
  /\ container \in Containers \cup {P!AllOf} /\ runningOnly \in {"running", "any"}
  /\ container # P!AllOf => host \in {P!Every, container.host}

\* The server's links that were not deleted, and links on a deleted node.
Standing(g, on, gone) == {e \in P!LabelledEdges(g, on) : e.link \notin gone}
Hanging(links, gone) == {l \in links : {l[1], l[2]} \cap gone # {}}

DrawingFits ==
  /\ dos \in BOOLEAN /\ drawn \in 0..MaxGen
  /\ removed \subseteq Nodes /\ selected \subseteq Nodes
  /\ own \subseteq Links /\ cut \subseteq Links
  /\ drawn > 0 =>
       /\ page = "topology" /\ Topology \in DOMAIN cache /\ cache[Topology].v = drawn
       /\ edges = Standing(drawn, dos, cut) /\ Hanging(P!Linked, removed) = {}

OverviewsFit ==
  /\ restAsked \in BOOLEAN /\ stream \in {"open", "lost"}
  /\ {wsData, pushed} \subseteq 0..MaxGen /\ pushed <= wsData

LEMMA PageBounds ==
  /\ MaxGen \in Nat /\ 1 <= MaxGen /\ MaxRefused \in Nat /\ MaxUploads \in Nat
  BY BoundsAssumption

----------------------------------------------------------------------------
LEMMA CacheKept == ASSUME CacheFits, UNCHANGED <<cache, asking, gen, failures>> PROVE CacheFits'
  BY DEF CacheFits

LEMMA CacheMore ==
  ASSUME CacheFits, UNCHANGED <<cache, asking, gen>>, failures' \in 0..MaxRefused
  PROVE  CacheFits'
  BY DEF CacheFits

\* The datum that replaces another: of the same key, as new as the server.
LEMMA Replaced ==
  ASSUME CacheFits, NEW k, NEW address, Matches(k, address),
         cache' = P!Put(k, [address |-> address, v |-> gen])
  PROVE  /\ DOMAIN cache' = DOMAIN cache \cup {k} /\ cache'[k].v = gen
         /\ \A x \in DOMAIN cache : x # k => cache'[x] = cache[x]
         /\ \A x \in DOMAIN cache' : cache'[x].v \in 1..gen /\ Matches(x, cache'[x].address)
<1> DEFINE datum == [address |-> address, v |-> gen]
<1>1. /\ DOMAIN cache' = DOMAIN cache \cup {k}
      /\ \A x \in DOMAIN cache \cup {k} : cache'[x] = IF x = k THEN datum ELSE cache[x]
  BY DEF P!Put
<1>2. datum.v = gen /\ datum.address = address /\ gen \in 1..gen
  BY PageBounds DEF CacheFits
<1> HIDE DEF datum
<1> QED
  BY <1>1, <1>2 DEF CacheFits

LEMMA CacheFetch ==
  ASSUME CacheFits, SelectionFits, NEW k, P!Fetch(k) PROVE CacheFits'
<1>1. /\ k \in P!Active /\ asking' = asking \cup {[key |-> k, address |-> P!Address(k)]}
      /\ UNCHANGED <<cache, gen, failures>>
  BY DEF P!Fetch
<1>2. k.q = "topology" => k = Topology
  BY <1>1 DEF P!Active, P!Plain, P!Key, P!ContainersKey, P!LogKey, Topology
<1>3. k.q = "container-logs" => k = P!LogKey
  BY <1>1 DEF P!Active, P!Plain, P!Key, P!ContainersKey, P!LogKey
<1>4. Lines(P!LogKey.detail) = P!LogAddress
  <2>1. P!LogKey.detail = <<host, container.host, container.name, runningOnly>>
    BY DEF P!LogKey, P!Key
  <2>2. container = P!AllOf <=> container.host = P!Every /\ container.name = P!Every
    BY ShapesAssumption DEF SelectionFits, P!AllOf
  <2> QED
    BY <2>1, <2>2 DEF Lines, P!LogAddress
<1>5. Matches(k, P!Address(k))
  BY <1>3, <1>4 DEF Matches, P!Address
<1> DEFINE a == [key |-> k, address |-> P!Address(k)]
<1>6. a.key = k /\ a.address = P!Address(k)
  OBVIOUS
<1> HIDE DEF a
<1>7. asking' = asking \cup {a}
  BY <1>1 DEF a
<1> QED
  BY <1>1, <1>2, <1>5, <1>6, <1>7 DEF CacheFits

LEMMA CacheAnswered == ASSUME CacheFits, NEW a, P!Answered(a) PROVE CacheFits'
<1>1. /\ a \in asking /\ asking' = asking \ {a} /\ UNCHANGED <<gen, failures>>
      /\ cache' = P!Put(a.key, [address |-> a.address, v |-> gen])
      /\ Matches(a.key, a.address)
  BY DEF P!Answered, CacheFits
<1>2. \A x \in DOMAIN cache' : cache'[x].v \in 1..gen /\ Matches(x, cache'[x].address)
  BY <1>1, Replaced
<1> QED
  BY <1>1, <1>2 DEF CacheFits

LEMMA CacheFailed == ASSUME CacheFits, NEW a, P!Failed(a) PROVE CacheFits'
<1>1. /\ a \in asking /\ asking' = asking \ {a} /\ UNCHANGED gen
      /\ failures < MaxRefused /\ failures' = failures + 1
      /\ cache' = cache \/ cache' = P!Put(a.key, [address |-> P!Error, v |-> gen])
  BY DEF P!Failed
<1>2. failures' \in 0..MaxRefused
  BY <1>1, PageBounds DEF CacheFits
<1>3. Matches(a.key, P!Error)
  BY DEF Matches
<1>4. \A x \in DOMAIN cache' : cache'[x].v \in 1..gen /\ Matches(x, cache'[x].address)
  BY <1>1, <1>3, Replaced DEF CacheFits
<1> QED
  BY <1>1, <1>2, <1>4 DEF CacheFits

LEMMA CacheOlder ==
  ASSUME CacheFits, P!ServerChanges PROVE CacheFits'
  BY PageBounds DEF CacheFits, P!ServerChanges

----------------------------------------------------------------------------
LEMMA SelectionKept == ASSUME SelectionFits, UNCHANGED <<tab, host, container, runningOnly>> PROVE SelectionFits'
  BY DEF SelectionFits

LEMMA SelectionMade ==
  ASSUME SelectionFits,
         \/ \E t \in {"audit", "containers"} : P!setActiveTab(t)
         \/ \E h \in Hosts \cup {P!Every} : P!SelectHost(h)
         \/ \E c \in Containers \cup {P!AllOf} : P!SelectContainer(c)
         \/ P!SetRunningOnly
  PROVE  SelectionFits'
<1>1. ASSUME NEW t \in {"audit", "containers"}, P!setActiveTab(t) PROVE SelectionFits'
  BY <1>1 DEF SelectionFits, P!setActiveTab
<1>2. ASSUME NEW h \in Hosts \cup {P!Every}, P!SelectHost(h) PROVE SelectionFits'
  BY <1>2 DEF SelectionFits, P!SelectHost
<1>3. ASSUME NEW c \in Containers \cup {P!AllOf}, P!SelectContainer(c) PROVE SelectionFits'
  BY <1>3 DEF SelectionFits, P!SelectContainer
<1>4. CASE P!SetRunningOnly
  BY <1>4 DEF SelectionFits, P!SetRunningOnly
<1> QED
  BY <1>1, <1>2, <1>3, <1>4

\* What the terminal shows is the selection's or an error.
LEMMA TerminalFits == ASSUME CacheFits, SelectionFits PROVE P!LogsFit
<1>1. Lines(P!LogKey.detail) = P!LogAddress /\ P!LogKey.q = "container-logs"
  <2>1. P!LogKey.detail = <<host, container.host, container.name, runningOnly>>
    BY DEF P!LogKey, P!Key
  <2>2. container = P!AllOf <=> container.host = P!Every /\ container.name = P!Every
    BY ShapesAssumption DEF SelectionFits, P!AllOf
  <2> QED
    BY <2>1, <2>2 DEF Lines, P!LogAddress, P!LogKey, P!Key
<1>2. P!Terminal \in {P!LogAddress, P!Error}
  BY <1>1 DEF P!Terminal, P!Cached, CacheFits, Matches
<1> QED
  BY <1>2 DEF P!LogsFit, SelectionFits

----------------------------------------------------------------------------
LEMMA DrawingKept ==
  ASSUME DrawingFits, UNCHANGED <<page, cache, dos, edges, own, removed, cut, drawn, selected>>
  PROVE  DrawingFits'
<1>1. Standing(drawn, dos, cut)' = Standing(drawn, dos, cut) /\ P!Linked' = P!Linked
  BY DEF Standing, P!LabelledEdges, P!NodesAt, P!Label, P!Linked
<1> QED
  BY <1>1 DEF DrawingFits, Hanging

\* A step that draws no edges anew.
LEMMA DrawingEdited ==
  ASSUME DrawingFits, UNCHANGED <<page, dos, edges, own, removed, cut, drawn>>,
         selected' \subseteq Nodes,
         drawn > 0 => Topology \in DOMAIN cache' /\ cache'[Topology].v = cache[Topology].v
  PROVE  DrawingFits'
<1>1. Standing(drawn, dos, cut)' = Standing(drawn, dos, cut) /\ P!Linked' = P!Linked
  BY DEF Standing, P!LabelledEdges, P!NodesAt, P!Label, P!Linked
<1> QED
  BY <1>1 DEF DrawingFits, Hanging

\* One that deletes links, all those on the nodes it deletes with them.
LEMMA DrawingDeleted ==
  ASSUME DrawingFits, UNCHANGED cache, NEW gone \in SUBSET Links, P!Deleted(gone),
         removed' \subseteq Nodes, drawn > 0 => Hanging(P!Linked \ gone, removed') = {}
  PROVE  DrawingFits'
<1> DEFINE found == {l \in gone : \E e \in edges : e.link = l}
<1>1. /\ edges' = {e \in edges : e.link \notin gone} /\ own' = own \ gone /\ cut' = cut \cup found
      /\ UNCHANGED <<page, dos, drawn, selected>>
  BY DEF P!Deleted
<1>2. own' \subseteq Links /\ cut' \subseteq Links
  BY <1>1 DEF DrawingFits
<1>3. ASSUME drawn > 0
      PROVE  edges' = Standing(drawn, dos, cut)' /\ Hanging(P!Linked, removed)' = {}
  <2>1. edges = Standing(drawn, dos, cut)
    BY <1>3 DEF DrawingFits
  <2>2. Standing(drawn, dos, cut)' = Standing(drawn, dos, cut \cup found)
    BY <1>1 DEF Standing, P!LabelledEdges, P!NodesAt, P!Label
  <2>3. edges' = Standing(drawn, dos, cut \cup found)
    BY <1>1, <2>1 DEF Standing
  <2>4. P!Linked' \subseteq P!Linked \ gone
    BY <1>1 DEF P!Linked
  <2> QED
    BY <1>3, <2>2, <2>3, <2>4 DEF Hanging
<1> QED
  BY <1>1, <1>2, <1>3 DEF DrawingFits

\* And one that does.
LEMMA DrawingRedone ==
  ASSUME DrawingFits, NEW g \in 1..MaxGen, NEW on \in BOOLEAN, P!Redraw(g, on), dos' = on,
         page' = "topology", selected' = selected,
         Topology \in DOMAIN cache', cache'[Topology].v = g
  PROVE  DrawingFits'
<1>1. /\ edges' = P!LabelledEdges(g, on) /\ drawn' = g
      /\ own' = {} /\ removed' = {} /\ cut' = {}
  BY DEF P!Redraw
<1>2. g \in 0..MaxGen
  BY PageBounds
<1>3. Standing(drawn, dos, cut)' = Standing(g, on, {})
  BY <1>1 DEF Standing, P!LabelledEdges, P!NodesAt, P!Label
<1>4. edges' = Standing(g, on, {})
  BY <1>1 DEF Standing
<1>5. Hanging(P!Linked, removed)' = {}
  BY <1>1 DEF Hanging
<1> QED
  BY <1>1, <1>2, <1>3, <1>4, <1>5 DEF DrawingFits

LEMMA DrawingOps ==
  ASSUME DrawingFits, UNCHANGED cache,
         \/ P!ToggleDos
         \/ \E n \in Nodes : P!DeleteNode(n) \/ P!onNodeClick(n)
         \/ \E l \in Links : P!DeleteEdge(l) \/ P!onConnect(l)
  PROVE  DrawingFits'
<1>1. CASE P!ToggleDos /\ drawn > 0
  <2>1. /\ P!Redraw(drawn, dos') /\ dos' = ~dos /\ page' = "topology" /\ selected' = selected
    BY <1>1 DEF P!ToggleDos
  <2> PICK g, on : g = drawn /\ on = dos'
    OBVIOUS
  <2>2. /\ g \in 1..MaxGen /\ on \in BOOLEAN /\ Topology \in DOMAIN cache'
        /\ cache'[Topology].v = g
    BY <1>1, <2>1 DEF DrawingFits
  <2> QED
    BY <2>1, <2>2, DrawingRedone
<1>2. CASE P!ToggleDos /\ ~(drawn > 0)
  <2>1. /\ dos' = ~dos /\ UNCHANGED <<page, edges, own, removed, cut, drawn, selected>>
    BY <1>2 DEF P!ToggleDos
  <2> QED
    BY <1>2, <2>1 DEF DrawingFits
<1>3. ASSUME NEW n \in Nodes, P!onNodeClick(n) PROVE DrawingFits'
  <2>1. /\ UNCHANGED <<page, dos, edges, own, removed, cut, drawn>> /\ selected' \in {{n}, {}}
    BY <1>3 DEF P!onNodeClick
  <2> QED
    BY <2>1, DrawingEdited DEF DrawingFits
<1>4. ASSUME NEW n \in Nodes, P!DeleteNode(n) PROVE DrawingFits'
  <2> DEFINE gone == {l \in P!Linked : n \in {l[1], l[2]}}
  <2>1. drawn > 0 /\ removed' = removed \cup {n} /\ P!Deleted(gone)
    BY <1>4 DEF P!DeleteNode, P!OnScreen
  <2>2. P!Linked \subseteq Links
    BY <2>1 DEF DrawingFits, Standing, P!LabelledEdges, P!Linked
  <2>3. Hanging(P!Linked \ gone, removed') = {}
    BY <2>1 DEF DrawingFits, Hanging
  <2>4. gone \in SUBSET Links
    BY <2>2
  <2> HIDE DEF gone
  <2> QED
    BY <2>1, <2>3, <2>4, DrawingDeleted DEF DrawingFits
<1>5. ASSUME NEW l \in Links, P!DeleteEdge(l) PROVE DrawingFits'
  <2>1. UNCHANGED removed /\ P!Deleted({l}) /\ {l} \in SUBSET Links
    BY <1>5 DEF P!DeleteEdge
  <2>2. drawn > 0 => Hanging(P!Linked \ {l}, removed') = {}
    BY <2>1 DEF DrawingFits, Hanging
  <2> QED
    BY <2>1, <2>2, DrawingDeleted DEF DrawingFits
<1>6. ASSUME NEW l \in Links, P!onConnect(l) PROVE DrawingFits'
  <2>1. /\ UNCHANGED <<page, dos, edges, removed, cut, drawn, selected>> /\ own' = own \cup {l}
        /\ {l[1], l[2]} \cap removed = {}
    BY <1>6 DEF P!onConnect, P!OnScreen
  <2>2. Standing(drawn, dos, cut)' = Standing(drawn, dos, cut) /\ P!Linked' = P!Linked \cup {l}
    BY <2>1 DEF Standing, P!LabelledEdges, P!NodesAt, P!Label, P!Linked
  <2>3. drawn > 0 => Hanging(P!Linked, removed)' = {}
    BY <2>1, <2>2 DEF DrawingFits, Hanging
  <2> QED
    BY <2>1, <2>2, <2>3 DEF DrawingFits
<1> QED
  BY <1>1, <1>2, <1>3, <1>4, <1>5, <1>6

LEMMA DrawingAnswered ==
  ASSUME CacheFits, DrawingFits, NEW a, P!Answered(a) PROVE DrawingFits'
<1>1. /\ a \in asking /\ cache' = P!Put(a.key, [address |-> a.address, v |-> gen])
      /\ Matches(a.key, a.address) /\ (a.key.q = "topology" => a.key = Topology)
      /\ UNCHANGED <<page, dos, selected>>
  BY DEF P!Answered, CacheFits
<1>2. /\ DOMAIN cache' = DOMAIN cache \cup {a.key} /\ cache'[a.key].v = gen
      /\ \A x \in DOMAIN cache : x # a.key => cache'[x] = cache[x]
  BY <1>1, Replaced
<1>3. CASE page = "topology" /\ a.key.q = "topology" /\ drawn # gen
  <2> PICK g, on : g = gen /\ on = dos
    OBVIOUS
  <2>1. P!Redraw(g, on) /\ g \in 1..MaxGen /\ on \in BOOLEAN
    BY <1>3 DEF P!Answered, CacheFits, DrawingFits
  <2>2. Topology \in DOMAIN cache' /\ cache'[Topology].v = g
    BY <1>1, <1>2, <1>3
  <2> QED
    BY <1>1, <1>3, <2>1, <2>2, DrawingRedone
<1>4. CASE ~(page = "topology" /\ a.key.q = "topology" /\ drawn # gen)
  <2>1. UNCHANGED <<edges, own, removed, cut, drawn>>
    BY <1>4 DEF P!Answered
  <2>2. drawn > 0 => Topology \in DOMAIN cache' /\ cache'[Topology].v = cache[Topology].v
    <3> SUFFICES ASSUME drawn > 0
                 PROVE  Topology \in DOMAIN cache' /\ cache'[Topology].v = cache[Topology].v
      OBVIOUS
    <3>1. page = "topology" /\ Topology \in DOMAIN cache /\ cache[Topology].v = drawn
      BY DEF DrawingFits
    <3>2. CASE a.key = Topology
      <4>1. a.key.q = "topology"
        BY <3>2 DEF Topology, P!Plain, P!Key
      <4> QED
        BY <1>2, <1>4, <3>1, <3>2, <4>1
    <3>3. CASE a.key # Topology
      BY <1>2, <3>1, <3>3
    <3> QED
      BY <3>2, <3>3
  <2> QED
    BY <1>1, <2>1, <2>2, DrawingEdited DEF DrawingFits
<1> QED
  BY <1>3, <1>4

LEMMA DrawingFailed ==
  ASSUME CacheFits, DrawingFits, NEW a, P!Failed(a), UNCHANGED <<page, dos, edges, own, removed, cut, drawn, selected>>
  PROVE  DrawingFits'
<1>1. CASE cache' = cache
  BY <1>1, DrawingKept
<1>2. CASE a.key.q # "topology" /\ cache' = P!Put(a.key, [address |-> P!Error, v |-> gen])
  <2>1. Matches(a.key, P!Error)
    BY DEF Matches
  <2>2. /\ DOMAIN cache' = DOMAIN cache \cup {a.key}
        /\ \A x \in DOMAIN cache : x # a.key => cache'[x] = cache[x]
    BY <1>2, <2>1, Replaced
  <2>3. a.key # Topology
    BY <1>2 DEF Topology, P!Plain, P!Key
  <2>4. drawn > 0 => Topology \in DOMAIN cache' /\ cache'[Topology].v = cache[Topology].v
    BY <2>2, <2>3 DEF DrawingFits
  <2> QED
    BY <2>4, DrawingEdited DEF DrawingFits
<1> QED
  BY <1>1, <1>2 DEF P!Failed, P!Checked

----------------------------------------------------------------------------
LEMMA OverviewsKept ==
  ASSUME OverviewsFit, UNCHANGED <<restAsked, stream, wsData, pushed>> PROVE OverviewsFit'
  BY DEF OverviewsFit

LEMMA OverviewsCome ==
  ASSUME OverviewsFit, gen \in 1..MaxGen, P!RestFills \/ P!StreamPushes \/ P!StreamLost
  PROVE  OverviewsFit'
<1>1. CASE P!RestFills
  <2>1. wsData' \in (IF wsData = 0 THEN 0..gen ELSE {wsData}) /\ restAsked' = FALSE
        /\ UNCHANGED <<stream, pushed>>
    BY <1>1 DEF P!RestFills
  <2>2. wsData' \in 0..MaxGen /\ pushed <= wsData'
    BY <2>1, PageBounds DEF OverviewsFit
  <2> QED
    BY <2>1, <2>2 DEF OverviewsFit
<1>2. CASE P!StreamPushes
  BY <1>2, PageBounds DEF P!StreamPushes, OverviewsFit
<1>3. CASE P!StreamLost
  BY <1>3 DEF P!StreamLost, OverviewsFit
<1> QED
  BY <1>1, <1>2, <1>3

----------------------------------------------------------------------------
(***************************************************************************
 The jobs of Forensics.  Unless a request outlived the upload after it, an upload is
 the only request, of a job newer than the one shown, and polls are of the job shown.
 ***************************************************************************)
Ended == {"running", "completed", "failed", "lost"}

JobsTyped ==
  /\ fstatus \in {"idle", "uploading", "analyzing", "completed", "failed"}
  /\ uploads \in 0..MaxUploads /\ {jobId, results} \subseteq 0..uploads
  /\ {aiAnalysis, aiAsked} \subseteq 0..MaxUploads /\ stray \in BOOLEAN
  /\ jobState \in [1..MaxUploads -> {"none"} \cup Ended]
  /\ jobId # 0 => jobState[jobId] \in Ended
  /\ fstatus = "completed" => results # 0 /\ jobState[results] \in {"completed", "lost"}
  /\ \A q \in requests :
       /\ q.kind \in {"upload", "poll"} /\ q.job \in 1..uploads
       /\ q.kind = "poll" => jobState[q.job] \in Ended

JobsInTurn ==
  ~stray =>
    /\ \A q \in requests :
         /\ q.kind = "upload" => /\ \A r \in requests : r = q
                                 /\ q.job = uploads /\ jobId # uploads /\ results # uploads
         /\ q.kind = "poll" => q.job = jobId
    /\ fstatus = "completed" => results = jobId
    /\ fstatus = "uploading" <=> \E q \in requests : q.kind = "upload"
    /\ fstatus = "analyzing" => results # jobId

JobsFit == JobsTyped /\ JobsInTurn

LEMMA JobsKept ==
  ASSUME JobsFit,
         UNCHANGED <<fstatus, jobId, results, aiAnalysis, uploads, jobState, requests, aiAsked, stray>>
  PROVE  JobsFit'
  BY DEF JobsFit, JobsTyped, JobsInTurn

LEMMA JobUploaded == ASSUME JobsFit, P!handleUpload PROVE JobsFit'
<1> PICK q : q = P!Req("upload", uploads + 1, 0)
  OBVIOUS
<1>1. /\ uploads < MaxUploads /\ uploads' = uploads + 1 /\ fstatus' = "uploading"
      /\ requests' = requests \cup {q} /\ stray' = (stray \/ requests # {})
      /\ UNCHANGED <<jobId, results, aiAnalysis, jobState, aiAsked>>
  BY DEF P!handleUpload
<1>2. q.kind = "upload" /\ q.job = uploads'
  BY <1>1 DEF P!Req
<1>3. /\ uploads \in Nat /\ uploads' \in 0..MaxUploads /\ 1..uploads \subseteq 1..uploads'
      /\ 0..uploads \subseteq 0..uploads' /\ uploads' \in 1..uploads' /\ uploads' \notin 0..uploads
  BY <1>1, PageBounds DEF JobsFit, JobsTyped
<1>4. JobsTyped'
  <2>1. stray' \in BOOLEAN
    BY <1>1 DEF JobsFit, JobsTyped
  <2>2. \A r \in requests' : /\ r.kind \in {"upload", "poll"} /\ r.job \in 1..uploads'
                             /\ r.kind = "poll" => jobState[r.job] \in Ended
    BY <1>1, <1>2, <1>3 DEF JobsFit, JobsTyped
  <2> QED
    BY <1>1, <1>3, <2>1, <2>2 DEF JobsFit, JobsTyped
<1>5. JobsInTurn'
  <2> SUFFICES ASSUME ~stray' PROVE JobsInTurn'
    BY DEF JobsInTurn
  <2>1. requests' = {q}
    BY <1>1
  <2> QED
    BY <1>1, <1>2, <1>3, <2>1 DEF JobsInTurn, JobsFit, JobsTyped
<1> QED
  BY <1>4, <1>5 DEF JobsFit

LEMMA JobAccepted == ASSUME JobsFit, NEW q, NEW ok, P!UploadAnswer(q, ok) PROVE JobsFit'
<1>1. /\ q \in requests /\ q.kind = "upload" /\ requests' = requests \ {q}
      /\ q.job \in 1..uploads /\ q.job \in 1..MaxUploads /\ q.job # 0 /\ q.job \in 0..uploads
      /\ UNCHANGED <<results, aiAnalysis, uploads, aiAsked, stray>>
  BY PageBounds DEF P!UploadAnswer, JobsFit, JobsTyped
<1>2. CASE ok
  <2>1. /\ jobId' = q.job /\ fstatus' = "analyzing"
        /\ jobState' = [jobState EXCEPT ![q.job] = "running"]
    BY <1>2 DEF P!UploadAnswer
  <2>2. /\ jobState' \in [1..MaxUploads -> {"none"} \cup Ended]
        /\ \A j \in 1..MaxUploads : jobState[j] \in Ended => jobState'[j] \in Ended
        /\ jobState'[q.job] \in Ended
    BY <1>1, <2>1 DEF JobsFit, JobsTyped, Ended
  <2>3. \A r \in requests' : /\ r.kind \in {"upload", "poll"} /\ r.job \in 1..uploads
                             /\ r.kind = "poll" => jobState'[r.job] \in Ended
    BY <1>1, <2>2, PageBounds DEF JobsFit, JobsTyped
  <2>4. JobsTyped'
    BY <1>1, <2>1, <2>2, <2>3 DEF JobsFit, JobsTyped
  <2>5. JobsInTurn'
    <3> SUFFICES ASSUME ~stray PROVE JobsInTurn'
      BY <1>1 DEF JobsInTurn
    <3>1. requests' = {} /\ q.job = uploads /\ results # uploads
      BY <1>1 DEF JobsFit, JobsInTurn
    <3> QED
      BY <1>1, <2>1, <3>1 DEF JobsInTurn
  <2> QED
    BY <2>4, <2>5 DEF JobsFit
<1>3. CASE ~ok
  <2>1. fstatus' = "failed" /\ UNCHANGED <<jobId, jobState>>
    BY <1>3 DEF P!UploadAnswer
  <2>2. JobsTyped'
    BY <1>1, <2>1 DEF JobsFit, JobsTyped
  <2>3. JobsInTurn'
    <3> SUFFICES ASSUME ~stray PROVE JobsInTurn'
      BY <1>1 DEF JobsInTurn
    <3>1. requests' = {}
      BY <1>1 DEF JobsFit, JobsInTurn
    <3> QED
      BY <1>1, <2>1, <3>1 DEF JobsInTurn
  <2> QED
    BY <2>2, <2>3 DEF JobsFit
<1> QED
  BY <1>2, <1>3

LEMMA JobEnded == ASSUME JobsFit, NEW j \in DOMAIN jobState, P!JobEnds(j) PROVE JobsFit'
<1> PICK how \in {"completed", "failed"} :
      jobState[j] = "running" /\ jobState' = [jobState EXCEPT ![j] = how]
  BY DEF P!JobEnds
<1>1. UNCHANGED <<fstatus, jobId, results, aiAnalysis, uploads, requests, aiAsked, stray>>
  BY DEF P!JobEnds
<1>2. /\ jobState' \in [1..MaxUploads -> {"none"} \cup Ended]
      /\ \A i \in 1..MaxUploads : jobState[i] \in Ended => jobState'[i] \in Ended
      /\ \A i \in 1..MaxUploads :
           jobState[i] \in {"completed", "lost"} => jobState'[i] = jobState[i]
      /\ 1..uploads \subseteq 1..MaxUploads
  BY PageBounds DEF JobsFit, JobsTyped, Ended
<1>3. JobsTyped'
  <2>1. /\ jobId # 0 => jobId \in 1..MaxUploads
        /\ results # 0 => results \in 1..MaxUploads
    BY PageBounds DEF JobsFit, JobsTyped
  <2>2. \A q \in requests : q.kind = "poll" => jobState'[q.job] \in Ended
    BY <1>2 DEF JobsFit, JobsTyped
  <2>3. fstatus = "completed" => results # 0 /\ jobState'[results] \in {"completed", "lost"}
    BY <1>2, <2>1 DEF JobsFit, JobsTyped
  <2> QED
    BY <1>1, <1>2, <2>1, <2>2, <2>3 DEF JobsFit, JobsTyped
<1>4. JobsInTurn'
  BY <1>1 DEF JobsFit, JobsInTurn
<1> QED
  BY <1>3, <1>4 DEF JobsFit

LEMMA JobForgotten == ASSUME JobsFit, P!JobsLost PROVE JobsFit'
<1>1. /\ UNCHANGED <<fstatus, jobId, results, aiAnalysis, uploads, requests, aiAsked, stray>>
      /\ jobState' = [j \in DOMAIN jobState |-> IF jobState[j] = "none" THEN "none" ELSE "lost"]
  BY DEF P!JobsLost
<1>2. /\ jobState' \in [1..MaxUploads -> {"none"} \cup Ended]
      /\ \A i \in 1..MaxUploads : jobState[i] \in Ended => jobState'[i] = "lost"
      /\ 1..uploads \subseteq 1..MaxUploads
  BY <1>1, PageBounds DEF JobsFit, JobsTyped, Ended
<1>3. JobsTyped'
  <2>1. /\ jobId # 0 => jobId \in 1..MaxUploads
        /\ results # 0 => results \in 1..MaxUploads
    BY PageBounds DEF JobsFit, JobsTyped
  <2>2. \A q \in requests : q.kind = "poll" => jobState'[q.job] \in Ended
    BY <1>2 DEF JobsFit, JobsTyped, Ended
  <2>3. fstatus = "completed" => results # 0 /\ jobState'[results] \in {"completed", "lost"}
    BY <1>2, <2>1 DEF JobsFit, JobsTyped, Ended
  <2>4. jobId # 0 => jobState'[jobId] \in Ended
    BY <1>2, <2>1 DEF JobsFit, JobsTyped, Ended
  <2> QED
    BY <1>1, <1>2, <2>2, <2>3, <2>4 DEF JobsFit, JobsTyped
<1>4. JobsInTurn'
  BY <1>1 DEF JobsFit, JobsInTurn
<1> QED
  BY <1>3, <1>4 DEF JobsFit

LEMMA JobPolled == ASSUME JobsFit, P!PollTick PROVE JobsFit'
<1> PICK n, q : q = P!Req("poll", jobId, n) /\ requests' = requests \cup {q}
  BY DEF P!PollTick
<1>1. /\ fstatus = "analyzing" /\ jobId # 0
      /\ UNCHANGED <<fstatus, jobId, results, aiAnalysis, uploads, jobState, aiAsked, stray>>
  BY DEF P!PollTick
<1>2. q.kind = "poll" /\ q.job = jobId /\ jobId \in 1..uploads
  BY <1>1, PageBounds DEF P!Req, JobsFit, JobsTyped
<1>3. JobsTyped'
  BY <1>1, <1>2 DEF JobsFit, JobsTyped
<1>4. JobsInTurn'
  <2> SUFFICES ASSUME ~stray PROVE JobsInTurn'
    BY <1>1 DEF JobsInTurn
  <2>1. \A r \in requests : r.kind # "upload" /\ r.kind \in {"upload", "poll"}
    BY <1>1 DEF JobsFit, JobsInTurn, JobsTyped
  <2> QED
    BY <1>1, <1>2, <2>1 DEF JobsFit, JobsInTurn
<1> QED
  BY <1>3, <1>4 DEF JobsFit

LEMMA JobSeen == ASSUME JobsFit, NEW q, P!PollAnswer(q) \/ P!PollLost(q) PROVE JobsFit'
<1>1. /\ q \in requests /\ q.kind = "poll" /\ requests' = requests \ {q}
      /\ q.job \in 1..uploads /\ q.job \in 0..uploads /\ jobState[q.job] \in Ended
      /\ UNCHANGED <<jobId, aiAnalysis, uploads, jobState, aiAsked, stray>>
      /\ \/ /\ jobState[q.job] \in {"completed", "failed"}
            /\ fstatus' = jobState[q.job] /\ results' = q.job
         \/ UNCHANGED <<fstatus, results>>
  BY PageBounds DEF P!PollAnswer, P!PollLost, JobsFit, JobsTyped
<1>2. JobsTyped'
  BY <1>1 DEF JobsFit, JobsTyped, Ended
<1>3. JobsInTurn'
  <2> SUFFICES ASSUME ~stray PROVE JobsInTurn'
    BY <1>1 DEF JobsInTurn
  <2>1. q.job = jobId /\ \A r \in requests : r.kind # "upload"
    BY <1>1 DEF JobsFit, JobsInTurn
  <2> QED
    BY <1>1, <2>1 DEF JobsFit, JobsInTurn, Ended
<1> QED
  BY <1>2, <1>3 DEF JobsFit

LEMMA JobAssessed == ASSUME JobsFit, P!handleAIAnalyze \/ \E ok \in BOOLEAN : P!AIAnswer(ok) PROVE JobsFit'
<1>1. /\ UNCHANGED <<fstatus, jobId, results, uploads, jobState, requests, stray>>
      /\ aiAsked' \in {results, 0} /\ aiAnalysis' \in {aiAnalysis, aiAsked}
  BY DEF P!handleAIAnalyze, P!AIAnswer
<1>2. {aiAsked', aiAnalysis'} \subseteq 0..MaxUploads
  BY <1>1, PageBounds DEF JobsFit, JobsTyped
<1> QED
  BY <1>1, <1>2 DEF JobsFit, JobsTyped, JobsInTurn

----------------------------------------------------------------------------
PollInv ==
  /\ page \in P!QueryPages \cup {"none"} /\ (page = "none" => P!NoPage)
  /\ CacheFits /\ SelectionFits /\ DrawingFits /\ OverviewsFit /\ JobsFit

LEMMA PollIdle == ASSUME P!NoPage PROVE PollInv
<1>1. page = "none" /\ CacheFits
  BY PageBounds DEF P!NoPage, CacheFits
<1>2. SelectionFits
  BY DEF P!NoPage, SelectionFits
<1>3. DrawingFits
  <2>1. drawn = 0 /\ dos = FALSE /\ own = {} /\ removed = {} /\ cut = {} /\ selected = {}
    BY DEF P!NoPage
  <2>2. 0 \in 0..MaxGen /\ ~(0 > 0)
    BY PageBounds
  <2> QED
    BY <2>1, <2>2 DEF DrawingFits
<1>4. OverviewsFit
  <2>1. 0 \in 0..MaxGen /\ 0 <= 0
    BY PageBounds
  <2> QED
    BY <2>1 DEF P!NoPage, OverviewsFit
<1>5. JobsFit
  <2>1. /\ fstatus = "idle" /\ jobId = 0 /\ results = 0 /\ aiAnalysis = 0 /\ uploads = 0
        /\ jobState = [j \in 1..MaxUploads |-> "none"] /\ requests = {} /\ aiAsked = 0
        /\ stray = FALSE
    BY DEF P!NoPage
  <2>2. 0 \in 0..MaxUploads /\ 0 \in 0..0
    BY PageBounds
  <2>3. jobState \in [1..MaxUploads -> {"none"} \cup Ended]
    BY <2>1
  <2>4. JobsTyped
    BY <2>1, <2>2, <2>3 DEF JobsTyped
  <2> QED
    BY <2>1, <2>4 DEF JobsFit, JobsInTurn
<1> QED
  BY <1>1, <1>2, <1>3, <1>4, <1>5 DEF PollInv

LEMMA PollCleared == ASSUME P!ClearPage PROVE PollInv'
<1>1. page' = "none" /\ P!NoPage' /\ CacheFits'
  BY PageBounds DEF P!ClearPage, P!NoPage, CacheFits
<1>2. SelectionFits'
  BY DEF P!ClearPage, SelectionFits
<1>3. DrawingFits'
  <2>1. drawn' = 0 /\ dos' = FALSE /\ own' = {} /\ removed' = {} /\ cut' = {} /\ selected' = {}
    BY DEF P!ClearPage
  <2>2. 0 \in 0..MaxGen /\ ~(0 > 0)
    BY PageBounds
  <2> QED
    BY <2>1, <2>2 DEF DrawingFits
<1>4. OverviewsFit'
  <2>1. 0 \in 0..MaxGen /\ 0 <= 0
    BY PageBounds
  <2> QED
    BY <2>1 DEF P!ClearPage, OverviewsFit
<1>5. JobsFit'
  <2>1. /\ fstatus' = "idle" /\ jobId' = 0 /\ results' = 0 /\ aiAnalysis' = 0 /\ uploads' = 0
        /\ jobState' = [j \in 1..MaxUploads |-> "none"] /\ requests' = {} /\ aiAsked' = 0
        /\ stray' = FALSE
    BY DEF P!ClearPage
  <2>2. 0 \in 0..MaxUploads /\ 0 \in 0..0
    BY PageBounds
  <2>3. jobState' \in [1..MaxUploads -> {"none"} \cup Ended]
    BY <2>1
  <2>4. JobsTyped'
    BY <2>1, <2>2, <2>3 DEF JobsTyped
  <2> QED
    BY <2>1, <2>4 DEF JobsFit, JobsInTurn
<1> QED
  BY <1>1, <1>2, <1>3, <1>4, <1>5 DEF PollInv

\* A page is mounted with nothing, or with the topology that an earlier visit left.
LEMMA PollMounted == ASSUME PollInv, NEW p \in P!QueryPages, P!MountPage(p) PROVE PollInv'
<1>1. /\ page = "none" /\ P!NoPage /\ page' = p /\ p # "none" /\ restAsked' \in BOOLEAN
      /\ UNCHANGED <<asking, gen, failures, tab, host, container, runningOnly, dos, selected,
                     wsData, stream, pushed>>
      /\ UNCHANGED <<fstatus, jobId, results, aiAnalysis, uploads, jobState, requests, aiAsked, stray>>
  BY DEF P!MountPage, P!logVars, P!jobVars, PollInv, P!QueryPages
<1>2. JobsFit' /\ SelectionFits' /\ OverviewsFit'
  BY <1>1, JobsKept, SelectionKept DEF PollInv, OverviewsFit
<1>3. gen = 1 /\ drawn = 0 /\ dos = FALSE /\ asking = {} /\ DOMAIN cache = {}
  BY <1>1 DEF P!NoPage
<1>4. CASE UNCHANGED <<cache, edges, own, removed, cut, drawn>>
  <2>1. CacheFits'
    BY <1>1, <1>4, CacheKept DEF PollInv
  <2>2. DrawingFits'
    BY <1>1, <1>3, <1>4 DEF PollInv, DrawingFits
  <2> QED
    BY <1>1, <1>2, <2>1, <2>2 DEF PollInv
<1>5. CASE /\ p = "topology"
           /\ cache' = P!Put(Topology, [address |-> << >>, v |-> 1])
           /\ P!Redraw(1, FALSE)
  <2> PICK a, one, on : a = << >> /\ one = 1 /\ on = FALSE
    OBVIOUS
  <2>1. Matches(Topology, a) /\ cache' = P!Put(Topology, [address |-> a, v |-> gen])
    BY <1>3, <1>5 DEF Matches, Topology, P!Plain, P!Key
  <2>2. /\ DOMAIN cache' = DOMAIN cache \cup {Topology} /\ cache'[Topology].v = one
        /\ \A x \in DOMAIN cache' : cache'[x].v \in 1..gen /\ Matches(x, cache'[x].address)
    BY <1>3, <2>1, Replaced DEF PollInv
  <2>3. CacheFits'
    BY <1>1, <2>2 DEF PollInv, CacheFits
  <2>4. P!Redraw(one, on)
    BY <1>5
  <2>6. one \in 1..MaxGen
    BY PageBounds
  <2>7. on \in BOOLEAN
    OBVIOUS
  <2>8. dos' = on
    BY <1>1, <1>3
  <2>5. DrawingFits'
    BY <1>1, <1>5, <2>2, <2>4, <2>6, <2>7, <2>8, DrawingRedone DEF PollInv
  <2> QED
    BY <1>1, <1>2, <2>3, <2>5 DEF PollInv
<1> QED
  BY <1>4, <1>5 DEF P!MountPage, Topology

LEMMA PollKept == ASSUME PollInv, UNCHANGED pageVars PROVE PollInv'
<1>1. /\ UNCHANGED page /\ UNCHANGED <<cache, asking, gen, failures>>
      /\ UNCHANGED <<tab, host, container, runningOnly>>
      /\ UNCHANGED <<page, cache, dos, edges, own, removed, cut, drawn, selected>>
      /\ UNCHANGED <<restAsked, stream, wsData, pushed>>
      /\ UNCHANGED <<fstatus, jobId, results, aiAnalysis, uploads, jobState, requests, aiAsked, stray>>
  BY DEF pageVars
<1>2. page = "none" => P!NoPage'
  BY DEF PollInv, P!NoPage, pageVars
<1> QED
  BY <1>1, <1>2, CacheKept, SelectionKept, DrawingKept, OverviewsKept, JobsKept DEF PollInv

\* What the steps of one group leave alone.
USE DEF P!queryVars, P!logVars, P!topoVars, P!dashVars, P!jobVars

LEMMA CacheWork ==
  ASSUME PollInv, page # "none",
         \/ P!ServerChanges \/ \E k \in P!Active : P!Fetch(k)
         \/ \E a \in asking : P!Answered(a) \/ P!Failed(a)
  PROVE  PollInv'
<1>1. CASE P!ServerChanges
  <2>1. UNCHANGED <<page, cache, tab, host, container, runningOnly, dos, edges, own, removed, cut, drawn, selected,
                    wsData, stream, pushed, restAsked, fstatus, jobId, results, aiAnalysis, uploads,
                    jobState, requests, aiAsked, stray>>
    BY <1>1 DEF P!ServerChanges
  <2> QED
    BY <1>1, <2>1, CacheOlder, SelectionKept, DrawingKept, OverviewsKept, JobsKept DEF PollInv
<1>2. ASSUME NEW k \in P!Active, P!Fetch(k) PROVE PollInv'
  <2>1. UNCHANGED <<page, cache, tab, host, container, runningOnly, dos, edges, own, removed, cut, drawn, selected,
                    wsData, stream, pushed, restAsked, fstatus, jobId, results, aiAnalysis, uploads,
                    jobState, requests, aiAsked, stray>>
    BY <1>2 DEF P!Fetch
  <2> QED
    BY <1>2, <2>1, CacheFetch, SelectionKept, DrawingKept, OverviewsKept, JobsKept DEF PollInv
<1>3. ASSUME NEW a \in asking, P!Answered(a) PROVE PollInv'
  <2>1. UNCHANGED <<page, tab, host, container, runningOnly, wsData, stream, pushed, restAsked,
                    fstatus, jobId, results, aiAnalysis, uploads, jobState, requests, aiAsked, stray>>
    BY <1>3 DEF P!Answered
  <2> QED
    BY <1>3, <2>1, CacheAnswered, SelectionKept, DrawingAnswered, OverviewsKept, JobsKept DEF PollInv
<1>4. ASSUME NEW a \in asking, P!Failed(a) PROVE PollInv'
  <2>1. UNCHANGED <<page, tab, host, container, runningOnly, dos, edges, own, removed, cut, drawn, selected,
                    wsData, stream, pushed, restAsked, fstatus, jobId, results, aiAnalysis, uploads,
                    jobState, requests, aiAsked, stray>>
    BY <1>4 DEF P!Failed
  <2> QED
    BY <1>4, <2>1, CacheFailed, SelectionKept, DrawingFailed, OverviewsKept, JobsKept DEF PollInv
<1> QED
  BY <1>1, <1>2, <1>3, <1>4

LEMMA LogsWork ==
  ASSUME PollInv, page # "none",
         \/ \E t \in {"audit", "containers"} : P!setActiveTab(t)
         \/ \E h \in Hosts \cup {P!Every} : P!SelectHost(h)
         \/ \E c \in Containers \cup {P!AllOf} : P!SelectContainer(c)
         \/ P!SetRunningOnly
  PROVE  PollInv'
<1>1. UNCHANGED <<page, cache, asking, gen, failures, dos, edges, own, removed, cut, drawn, selected,
                  wsData, stream, pushed, restAsked, fstatus, jobId, results, aiAnalysis, uploads,
                  jobState, requests, aiAsked, stray>>
  BY DEF P!setActiveTab, P!SelectHost, P!SelectContainer, P!SetRunningOnly
<1> QED
  BY <1>1, CacheKept, SelectionMade, DrawingKept, OverviewsKept, JobsKept DEF PollInv

LEMMA TopologyWork ==
  ASSUME PollInv, page # "none",
         \/ P!ToggleDos
         \/ \E n \in Nodes : P!DeleteNode(n) \/ P!onNodeClick(n)
         \/ \E l \in Links : P!DeleteEdge(l) \/ P!onConnect(l)
  PROVE  PollInv'
<1>1. UNCHANGED <<page, cache, asking, gen, failures, tab, host, container, runningOnly,
                  wsData, stream, pushed, restAsked, fstatus, jobId, results, aiAnalysis, uploads,
                  jobState, requests, aiAsked, stray>>
  BY DEF P!ToggleDos, P!DeleteNode, P!DeleteEdge, P!Deleted, P!onNodeClick, P!onConnect
<1> QED
  BY <1>1, CacheKept, SelectionKept, DrawingOps, OverviewsKept, JobsKept DEF PollInv

LEMMA DashWork ==
  ASSUME PollInv, page # "none", P!RestFills \/ P!StreamPushes \/ P!StreamLost
  PROVE  PollInv'
<1>1. /\ UNCHANGED <<page, cache, asking, gen, tab, host, container, runningOnly, dos, edges, own, removed,
                     cut, drawn, selected, fstatus, jobId, results, aiAnalysis, uploads,
                     jobState, requests, aiAsked, stray>>
      /\ failures' = failures \/ (failures < MaxRefused /\ failures' = failures + 1)
  BY DEF P!RestFills, P!StreamPushes, P!StreamLost
<1>2. failures' \in 0..MaxRefused /\ gen \in 1..MaxGen
  BY <1>1, PageBounds DEF PollInv, CacheFits
<1> QED
  BY <1>1, <1>2, CacheMore, SelectionKept, DrawingKept, OverviewsCome, JobsKept DEF PollInv

LEMMA ForensicsWork ==
  ASSUME PollInv, page # "none",
         \/ P!handleUpload \/ P!handleAIAnalyze \/ P!PollTick
         \/ \E ok \in BOOLEAN : P!AIAnswer(ok)
         \/ \E q \in requests : P!PollAnswer(q) \/ P!PollLost(q)
         \/ \E q \in requests, ok \in BOOLEAN : P!UploadAnswer(q, ok)
         \/ P!JobsLost \/ \E j \in DOMAIN jobState : P!JobEnds(j)
  PROVE  PollInv'
<1>1. /\ UNCHANGED <<page, cache, asking, gen, tab, host, container, runningOnly, dos, edges, own, removed,
                     cut, drawn, selected, wsData, stream, pushed, restAsked>>
      /\ failures' = failures \/ (failures < MaxRefused /\ failures' = failures + 1)
  BY DEF P!handleUpload, P!handleAIAnalyze, P!PollTick, P!AIAnswer, P!PollAnswer, P!PollLost,
         P!UploadAnswer, P!JobEnds, P!JobsLost
<1>2. failures' \in 0..MaxRefused
  BY <1>1, PageBounds DEF PollInv, CacheFits
<1>3. JobsFit'
  BY JobUploaded, JobAssessed, JobPolled, JobSeen, JobAccepted, JobEnded, JobForgotten DEF PollInv
<1> QED
  BY <1>1, <1>2, <1>3, CacheMore, SelectionKept, DrawingKept, OverviewsKept DEF PollInv

HIDE DEF P!queryVars, P!logVars, P!topoVars, P!dashVars, P!jobVars

LEMMA PollWorks == ASSUME PollInv, page # "none", P!PNext PROVE PollInv'
<1>1. CASE P!PollingOps
  BY <1>1, CacheWork, LogsWork, TopologyWork, DashWork, ForensicsWork DEF P!PollingOps
<1>2. CASE P!PollingWork
  BY <1>2, CacheWork, DashWork, ForensicsWork DEF P!PollingWork
<1>3. CASE P!PollTick \/ P!PollAnswers
  BY <1>3, ForensicsWork DEF P!PollAnswers
<1> QED
  BY <1>1, <1>2, <1>3 DEF P!PNext

LEMMA PollShows == ASSUME PollInv PROVE PollFits
<1>1. P!PTypeOK
  <2>1. {jobId, results, uploads} \subseteq 0..MaxUploads
    BY PageBounds DEF PollInv, JobsFit, JobsTyped
  <2> QED
    BY <2>1 DEF P!PTypeOK, PollInv, CacheFits, SelectionFits, DrawingFits, OverviewsFit, JobsFit, JobsTyped
<1>2. P!LogsFit
  BY TerminalFits DEF PollInv
<1>3. P!TopologyFits
  <2> SUFFICES ASSUME drawn > 0 PROVE P!TopologyFits
    BY DEF P!TopologyFits
  <2>1. /\ drawn \in Nat /\ cache[P!Plain("topology")].v = drawn
        /\ edges = Standing(drawn, dos, cut) /\ Hanging(P!Linked, removed) = {}
    BY PageBounds DEF PollInv, DrawingFits, Topology
  <2> QED
    BY <2>1 DEF P!TopologyFits, Standing, Hanging
<1>4. P!ForensicsFits
  BY DEF PollInv, JobsFit, JobsTyped, JobsInTurn, P!ForensicsFits
<1>5. P!DashFits
  BY DEF PollInv, OverviewsFit, P!DashFits
<1> QED
  BY <1>1, <1>2, <1>3, <1>4, <1>5 DEF PollFits, P!PollFits

\* The terminal of Logs shows its selection's lines or an error; Topology draws the
\* latest datum, every link of it that was not deleted labelled by the switch, and no
\* link on a deleted node; Forensics says completed of a job that ended well, and of the
\* last upload's unless a request outlived the upload after it; the Dashboard never goes
\* back.  (The pages Logs, Topology, Dashboard and Forensics over any hosts, nodes,
\* versions and jobs.)
THEOREM PollHolds == Spec => []PollFits
<1>1. Init => PollInv
  BY PollIdle DEF Init
<1>2. PollInv /\ [Next]_vars => PollInv'
  <2> SUFFICES ASSUME PollInv, [Next]_vars PROVE PollInv'
    OBVIOUS
  <2> QED
    BY PageStep, PollCleared, PollMounted, PollKept, PollWorks
<1>3. PollInv => PollFits
  BY PollShows
<1> QED
  BY <1>1, <1>2, <1>3, PTL DEF Spec

----------------------------------------------------------------------------
(***************************************************************************
 The pages that list.  Their requests are few enough for each to have a number of its
 own; a request's operation is one of its page's.  Unless requests overlapped there is
 at most one, and what the page shows follows from it: see Pending.
 ***************************************************************************)
LEMMA ListStep ==
  ASSUME [Next]_vars
  PROVE  \/ UNCHANGED listVars \/ L!ClearList
         \/ \E p \in L!Pages : L!MountList(p, role \in Admins)
         \/ list # "none" /\ L!LNext
<1>1. CASE ProtectedRoute \/ LoggedIn
  BY <1>1 DEF ProtectedRoute, LoggedIn
<1>2. CASE DropToken \/ Leave
  BY <1>2 DEF DropToken, Leave, Clear
<1>3. CASE VisitList
  BY <1>3 DEF VisitList
<1>4. CASE VisitPane \/ VisitDesk \/ VisitPolling \/ VisitMap
  BY <1>4 DEF VisitPane, VisitDesk, VisitPolling, VisitMap
<1>5. CASE OnList /\ L!LNext
  BY <1>5 DEF OnList
<1>6. CASE OnPane \/ OnDesk \/ OnPage \/ OnMap
  BY <1>6 DEF OnPane, OnDesk, OnPage, OnMap
<1>7. CASE UNCHANGED vars
  BY <1>7 DEF vars
<1> QED
  BY <1>1, <1>2, <1>3, <1>4, <1>5, <1>6, <1>7 DEF Next

Tables == [Rows -> L!Vals]
Forms == [mode : {"closed", "add", "edit", "drag"}, row : Rows \cup {NoRow}, val : L!Vals]
Opers == {"list", "seed", "header", "create", "put", "delete", "rotate", "correlate", "avatar", "creds"}
Calls == [n : 1..(MaxCalls + 1), op : Opers, row : Rows \cup {NoRow}, val : L!Vals,
          stage : {"sent", "ok", "refused"}, kept : Tables]

\* What each page asks for.
OpsOn(p) ==
  CASE p = "users" -> {"list", "create", "put", "delete"}
    [] p = "access" -> {"seed", "list", "rotate"}
    [] p = "incidents" -> {"list", "put", "correlate"}
    [] p = "assets" -> {"list", "put"}
    [] p = "feed" -> {"list"}
    [] p = "profile" -> {"list", "header", "put", "avatar"}
    [] p = "settings" -> {"list", "creds", "rotate"}
    [] OTHER -> {}

Plainly ==
  /\ list \in L!Pages \cup {"none"}
  /\ srv \in Tables /\ rows \in Tables /\ header \in Tables
  /\ fetched \in BOOLEAN /\ loading \in BOOLEAN /\ denied \in BOOLEAN /\ running \in BOOLEAN
  /\ settle \in BOOLEAN /\ notice \in BOOLEAN
  /\ overlap \in BOOLEAN /\ bad \in BOOLEAN /\ refused \in BOOLEAN
  /\ ops \in 0..MaxOps /\ clears \in Nat /\ acting \in Rows \cup {NoRow} /\ form \in Forms
  /\ list # "settings" => ~settle /\ ~notice
  /\ list = "none" => L!NoList

InFlight ==
  /\ calls \subseteq Calls /\ IsFiniteSet(calls) /\ Cardinality(calls) <= MaxCalls
  /\ \A c \in calls : /\ c.op \in OpsOn(list)
                      /\ list = "settings" /\ c.op = "rotate" => c.val = 2

\* A page that has shown its list, with no answer lost or refused since that it needed.
Current == fetched /\ ~bad /\ list # "settings" /\ ~(list = "incidents" /\ refused)
AllRotated == \A r \in Rows : srv[r] # 1

\* With nothing in flight.
Idle ==
  /\ Current => rows = srv
  /\ list = "profile" /\ ~bad => header = srv
  /\ L!Spins /\ ~denied => ~loading
  /\ list = "access" /\ fetched => acting = NoRow
  /\ list = "incidents" /\ fetched => ~running
  /\ list = "settings" => (running <=> settle)
  /\ settle /\ ~bad /\ ~refused => AllRotated

\* The card that has been moved, and nothing else, differs from the server's.
Moved(c) == \A r \in Rows : rows[r] = IF r = c.row /\ srv[r] # 0 THEN c.val ELSE srv[r]

\* What the page shows while c waits, is served, and has been.
ShowsOf(c) ==
  /\ c.op \in L!Lists /\ c.stage = "ok" => c.kept = srv
  /\ Current /\ (c.stage # "ok" \/ c.op \in {"seed", "header"})
       /\ c.op # "list" /\ ~(list = "incidents" /\ c.op = "put")
     => rows = srv
  /\ Current /\ list = "incidents" /\ c.op = "put" =>
       IF c.stage = "ok" THEN rows = srv ELSE c.stage = "sent" => Moved(c)
  /\ list = "profile" /\ ~bad /\ c.op \in {"put", "avatar"} /\ c.stage # "ok" => header = srv
  /\ Current /\ c.op = "avatar" =>
       IF c.stage = "ok" THEN srv = [c.kept EXCEPT ![c.row] = c.val] ELSE c.kept = srv

MarksOf(c) ==
  /\ L!Spins /\ ~denied => (loading <=> c.op \in {"list", "seed"})
  /\ list = "access" /\ fetched => acting # NoRow
  /\ list = "incidents" /\ fetched => (running <=> c.op \in {"correlate", "list"})
  /\ list = "settings" => ~settle /\ (running <=> c.op \in {"creds", "rotate"})
  /\ list = "settings" /\ c.op = "rotate" /\ ~bad /\ ~refused =>
       \A r \in Rows : srv[r] = 1 => c.kept[r] # 0 \/ (r = c.row /\ c.stage # "ok")

Pending(c) == ShowsOf(c) /\ MarksOf(c)

Tidy ==
  ~overlap =>
    /\ notice /\ ~bad /\ ~refused => AllRotated
    /\ calls = {} => Idle
    /\ \A c \in calls : calls = {c} /\ Pending(c)

ListInv == Plainly /\ InFlight /\ Tidy

LEMMA ListBounds ==
  /\ MaxOps \in Nat /\ MaxCalls \in Nat /\ 1 <= MaxCalls
  /\ Root \in Rows /\ NoRow \notin Rows
  /\ L!Absent \in Tables /\ L!Present \in Tables /\ L!Closed \in Forms
<1>1. /\ MaxOps \in Nat /\ MaxCalls \in Nat /\ 1 <= MaxCalls
  BY BoundsAssumption
<1>2. Root \in Rows /\ NoRow \notin Rows
  BY NamesAssumption
<1>3. L!Absent \in Tables /\ L!Present \in Tables /\ L!Closed \in Forms
  BY DEF L!Absent, L!Present, L!Closed, Tables, Forms, L!Vals
<1> QED
  BY <1>1, <1>2, <1>3

\* There is a number that no request in flight has.
LEMMA Numbered == ASSUME InFlight PROVE L!Fresh \in 1..(MaxCalls + 1)
<1> DEFINE nums == {c.n : c \in calls}
<1> DEFINE f == [c \in calls |-> c.n]
<1>1. f \in Surjection(calls, nums)
  BY DEF Surjection
<1>2. IsFiniteSet(nums) /\ Cardinality(nums) <= Cardinality(calls)
  BY <1>1, FS_Surjection DEF InFlight
<1>3. /\ IsFiniteSet(1..(MaxCalls + 1)) /\ Cardinality(1..(MaxCalls + 1)) = MaxCalls + 1
  BY ListBounds, FS_Interval
<1>4. Cardinality(nums) \in Nat /\ Cardinality(calls) \in Nat
  BY <1>2, FS_CardinalityType DEF InFlight
<1>5. ~(1..(MaxCalls + 1) \subseteq nums)
  <2> SUFFICES ASSUME 1..(MaxCalls + 1) \in SUBSET nums PROVE FALSE
    OBVIOUS
  <2>1. Cardinality(1..(MaxCalls + 1)) <= Cardinality(nums)
    BY <1>2, FS_Subset
  <2> QED
    BY <1>2, <1>3, <1>4, <2>1, ListBounds DEF InFlight
<1>6. \E k \in 1..(MaxCalls + 1) : \A c \in calls : c.n # k
  BY <1>5
<1> QED
  BY <1>6 DEF L!Fresh

\* A request that has just left.
HasLeft(q, op, row, val, kept) ==
  /\ q \in Calls /\ q.op = op /\ q.row = row /\ q.val = val /\ q.stage = "sent" /\ q.kept = kept

LEMMA Requested ==
  ASSUME InFlight, NEW op \in Opers, NEW row \in Rows \cup {NoRow}, NEW val \in L!Vals,
         NEW kept \in Tables
  PROVE  HasLeft(L!Request(op, row, val, kept), op, row, val, kept)
  BY Numbered DEF HasLeft, L!Request, Calls

\* An event handler's request.
LEMMA Asked ==
  ASSUME Plainly, InFlight,
         NEW op \in OpsOn(list), NEW row \in Rows \cup {NoRow}, NEW val \in L!Vals,
         L!Asks(op, row, val), op = "rotate" => val = 2, list' = list
  PROVE  /\ InFlight' /\ ops' \in 0..MaxOps /\ overlap' \in BOOLEAN
         /\ \E q : /\ HasLeft(q, op, row, val, IF op = "avatar" THEN rows ELSE L!Absent)
                   /\ ~overlap' => ~overlap /\ calls = {} /\ calls' = {q}
<1>1. op \in Opers
  BY DEF OpsOn, Opers
<1> DEFINE kept == IF op = "avatar" THEN rows ELSE L!Absent
<1>2. kept \in Tables
  BY ListBounds DEF Plainly
<1> HIDE DEF kept
<1> PICK q : q = L!Request(op, row, val, kept)
  OBVIOUS
<1>3. HasLeft(q, op, row, val, kept)
  BY <1>1, <1>2, Requested
<1>4. /\ calls' = calls \cup {q} /\ overlap' = (overlap \/ calls # {})
      /\ ops < MaxOps /\ ops' = ops + 1 /\ Cardinality(calls) < MaxCalls
  BY DEF L!Asks, kept, L!Cardinality, Cardinality
<1>5. IsFiniteSet(calls') /\ Cardinality(calls') <= MaxCalls
  <2>1. /\ IsFiniteSet(calls \cup {q})
        /\ Cardinality(calls \cup {q}) = IF q \in calls THEN Cardinality(calls) ELSE Cardinality(calls) + 1
    BY FS_AddElement DEF InFlight
  <2>2. Cardinality(calls) \in Nat
    BY FS_CardinalityType DEF InFlight
  <2> QED
    BY <1>4, <2>1, <2>2, ListBounds
<1>6. InFlight'
  BY <1>3, <1>4, <1>5 DEF InFlight, HasLeft
<1>7. ops' \in 0..MaxOps /\ overlap' \in BOOLEAN
  BY <1>4, ListBounds DEF Plainly
<1>8. ~overlap' => ~overlap /\ calls = {} /\ calls' = {q}
  BY <1>4
<1> QED
  BY <1>3, <1>6, <1>7, <1>8 DEF kept

\* A handler that goes on after c, and sends nothing or one more request.
LEMMA WentOn ==
  ASSUME Plainly, InFlight, NEW c \in calls, NEW ops2, L!Then(c, ops2),
         \/ ops2 = {}
         \/ \E op \in OpsOn(list) \ {"rotate"} : ops2 = {op}
  PROVE  /\ InFlight' /\ overlap' \in BOOLEAN /\ UNCHANGED <<list, srv, ops>>
         /\ ~overlap' => ~overlap
         /\ ops2 = {} => calls' = calls \ {c}
         /\ \A op : ops2 = {op} =>
              \E q : /\ HasLeft(q, op, NoRow, 0, L!Absent) /\ calls' = (calls \ {c}) \cup {q}
                     /\ ~overlap' => calls' = {q}
<1>1. /\ calls' = (calls \ {c}) \cup {L!Request(op, NoRow, 0, L!Absent) : op \in ops2}
      /\ overlap' = (overlap \/ (ops2 # {} /\ calls # {c}))
      /\ UNCHANGED <<list, srv, ops>>
  BY DEF L!Then
<1>2. /\ IsFiniteSet(calls \ {c}) /\ Cardinality(calls \ {c}) = Cardinality(calls) - 1
      /\ Cardinality(calls) \in Nat
  BY FS_RemoveElement, FS_CardinalityType DEF InFlight
<1>3. overlap' \in BOOLEAN /\ (~overlap' => ~overlap)
  BY <1>1 DEF Plainly
<1>4. CASE ops2 = {}
  <2>1. calls' = calls \ {c}
    BY <1>1, <1>4
  <2>2. IsFiniteSet(calls') /\ Cardinality(calls') <= MaxCalls
    BY <1>2, <2>1, ListBounds DEF InFlight
  <2>3. InFlight'
    BY <1>1, <2>1, <2>2 DEF InFlight
  <2> QED
    BY <1>1, <1>3, <1>4, <2>1, <2>3
<1>5. ASSUME NEW op \in OpsOn(list) \ {"rotate"}, ops2 = {op}
      PROVE  /\ InFlight'
             /\ \E q : /\ HasLeft(q, op, NoRow, 0, L!Absent) /\ calls' = (calls \ {c}) \cup {q}
                       /\ ~overlap' => calls' = {q}
  <2> PICK q : q = L!Request(op, NoRow, 0, L!Absent)
    OBVIOUS
  <2>1. op \in Opers /\ 0 \in L!Vals /\ op # "rotate"
    BY DEF OpsOn, Opers, L!Vals
  <2>2. HasLeft(q, op, NoRow, 0, L!Absent)
    BY <2>1, Requested, ListBounds
  <2>3. calls' = (calls \ {c}) \cup {q}
    BY <1>1, <1>5
  <2>4. IsFiniteSet(calls') /\ Cardinality(calls') <= MaxCalls
    <3>1. /\ IsFiniteSet((calls \ {c}) \cup {q})
          /\ Cardinality((calls \ {c}) \cup {q}) = IF q \in calls \ {c} THEN Cardinality(calls \ {c}) ELSE Cardinality(calls \ {c}) + 1
      BY <1>2, FS_AddElement
    <3> QED
      BY <1>2, <2>3, <3>1, ListBounds DEF InFlight
  <2>5. InFlight'
    BY <1>1, <2>1, <2>2, <2>3, <2>4 DEF InFlight, HasLeft
  <2>6. ~overlap' => calls' = {q}
    BY <1>1, <1>5, <2>3
  <2> QED
    BY <2>2, <2>3, <2>5, <2>6
<1>6. CASE \E op \in OpsOn(list) \ {"rotate"} : ops2 = {op}
  <2> PICK op \in OpsOn(list) \ {"rotate"} : ops2 = {op}
    BY <1>6
  <2>1. ops2 # {} /\ \A o : ops2 = {o} => o = op
    OBVIOUS
  <2> QED
    BY <1>1, <1>3, <1>5, <2>1
<1> QED
  BY <1>4, <1>6

----------------------------------------------------------------------------
LEMMA ListIdle == ASSUME L!NoList PROVE ListInv
<1>1. Plainly
  <2>1. 0 \in 0..MaxOps /\ 0 \in Nat
    BY ListBounds
  <2>2. /\ srv \in Tables /\ rows \in Tables /\ header \in Tables /\ form \in Forms
        /\ ops \in 0..MaxOps /\ clears \in Nat /\ acting \in Rows \cup {NoRow}
    BY <2>1, ListBounds DEF L!NoList
  <2>3. /\ fetched = FALSE /\ loading = FALSE /\ denied = FALSE /\ running = FALSE
        /\ settle = FALSE /\ notice = FALSE /\ overlap = FALSE /\ bad = FALSE /\ refused = FALSE
        /\ list = "none"
    BY DEF L!NoList
  <2> QED
    BY <2>2, <2>3 DEF Plainly
<1>2. InFlight
  BY FS_EmptySet, ListBounds DEF L!NoList, InFlight
<1>3. Tidy
  BY DEF L!NoList, Tidy, Idle, Current, L!Spins
<1> QED
  BY <1>1, <1>2, <1>3 DEF ListInv

LEMMA ListCleared == ASSUME L!ClearList PROVE ListInv'
<1>1. Plainly'
  <2>1. 0 \in 0..MaxOps /\ 0 \in Nat
    BY ListBounds
  <2>2. /\ srv' \in Tables /\ rows' \in Tables /\ header' \in Tables /\ form' \in Forms
        /\ ops' \in 0..MaxOps /\ clears' \in Nat /\ acting' \in Rows \cup {NoRow}
    BY <2>1, ListBounds DEF L!ClearList
  <2>3. /\ fetched' = FALSE /\ loading' = FALSE /\ denied' = FALSE /\ running' = FALSE
        /\ settle' = FALSE /\ notice' = FALSE /\ overlap' = FALSE /\ bad' = FALSE
        /\ refused' = FALSE /\ list' = "none"
    BY DEF L!ClearList
  <2>4. L!NoList'
    BY DEF L!ClearList, L!NoList, L!Present, L!Absent, L!Closed
  <2> QED
    BY <2>2, <2>3, <2>4 DEF Plainly
<1>2. InFlight'
  BY FS_EmptySet, ListBounds DEF L!ClearList, InFlight
<1>3. Tidy'
  BY DEF L!ClearList, Tidy, Idle, Current, L!Spins
<1> QED
  BY <1>1, <1>2, <1>3 DEF ListInv

LEMMA ListMounted ==
  ASSUME ListInv, NEW p \in L!Pages, NEW admin \in BOOLEAN, L!MountList(p, admin) PROVE ListInv'
<1>1. /\ list = "none" /\ L!NoList /\ list' = p /\ p # "none"
      /\ denied' = (p \in {"users", "access", "settings"} /\ ~admin)
      /\ loading' = (p \in {"access", "feed", "profile"} \/ (p = "users" /\ admin))
      /\ header' = srv
      /\ UNCHANGED <<srv, rows, fetched, ops, acting, form, running>>
      /\ UNCHANGED <<settle, notice, clears, overlap, bad, refused>>
  BY DEF L!MountList, ListInv, Plainly, L!Pages, L!timed, L!faultsSeen
<1> PICK q : q = L!Request(L!First(p), NoRow, 0, L!Absent)
  OBVIOUS
<1>2. L!First(p) \in Opers /\ L!First(p) \in OpsOn(p) /\ L!First(p) # "rotate"
      /\ L!First(p) = IF p = "access" THEN "seed" ELSE "list"
  BY DEF L!First, Opers, OpsOn, L!Pages
<1>3. HasLeft(q, L!First(p), NoRow, 0, L!Absent)
  BY <1>2, Requested, ListBounds DEF ListInv, L!Vals
<1>4. calls' = (IF denied' /\ p # "settings" THEN {} ELSE {q})
  BY DEF L!MountList
<1>5. Plainly'
  <2>1. ~settle /\ ~notice /\ denied' \in BOOLEAN /\ loading' \in BOOLEAN
    BY <1>1 DEF L!NoList
  <2> QED
    BY <1>1, <2>1 DEF ListInv, Plainly
<1>6. InFlight'
  <2>1. /\ IsFiniteSet({}) /\ Cardinality({}) = 0
        /\ IsFiniteSet({q}) /\ Cardinality({q}) = 1
    BY FS_EmptySet, FS_Singleton
  <2>2. IsFiniteSet(calls') /\ Cardinality(calls') <= MaxCalls
    BY <1>4, <2>1, ListBounds
  <2> QED
    BY <1>1, <1>2, <1>3, <1>4, <2>2 DEF InFlight, HasLeft
<1>7. Tidy'
  <2>1. /\ ~fetched /\ ~notice /\ ~settle /\ ~running
    BY <1>1 DEF L!NoList
  <2>2. Idle' \/ calls' # {}
    BY <1>1, <1>4, <2>1 DEF Idle, Current, L!Spins
  <2>3. \A c \in calls' : calls' = {c} /\ c = q
    BY <1>4
  <2>4. calls' # {} => Pending(q)'
    <3> SUFFICES ASSUME calls' # {} PROVE Pending(q)'
      OBVIOUS
    <3>1. ShowsOf(q)'
      BY <1>1, <1>2, <1>3, <2>1 DEF ShowsOf, Current, HasLeft
    <3>2. MarksOf(q)'
      BY <1>1, <1>2, <1>3, <1>4, <2>1 DEF MarksOf, L!Spins, HasLeft, L!Pages
    <3> QED
      BY <3>1, <3>2 DEF Pending
  <2> QED
    BY <1>1, <2>1, <2>2, <2>3, <2>4 DEF Tidy
<1> QED
  BY <1>5, <1>6, <1>7 DEF ListInv

\* The steps of the page that are about its form only.
FormOnly ==
  /\ form' \in Forms /\ list # "none"
  /\ UNCHANGED <<list, srv, rows, header, fetched, calls, ops, loading, denied, acting, running,
                 settle, notice, clears, overlap, bad, refused>>

LEMMA FormEdited == ASSUME ListInv, FormOnly PROVE ListInv'
<1>1. Plainly'
  BY DEF ListInv, Plainly, FormOnly
<1>2. InFlight'
  BY DEF ListInv, InFlight, FormOnly
<1>3. Tidy'
  <2>1. (Current' <=> Current) /\ (AllRotated' <=> AllRotated) /\ (L!Spins' <=> L!Spins)
    BY DEF FormOnly, Current, AllRotated, L!Spins
  <2>2. Idle => Idle'
    BY <2>1 DEF Idle, FormOnly
  <2>3. ASSUME NEW c, Pending(c) PROVE Pending(c)'
    <3>1. Moved(c)' <=> Moved(c)
      BY DEF FormOnly, Moved
    <3>2. ShowsOf(c)'
      BY <2>1, <2>3, <3>1 DEF Pending, ShowsOf, FormOnly
    <3>3. MarksOf(c)'
      BY <2>1, <2>3 DEF Pending, MarksOf, FormOnly
    <3> QED
      BY <3>2, <3>3 DEF Pending
  <2> QED
    BY <2>1, <2>2, <2>3 DEF ListInv, Tidy, FormOnly
<1> QED
  BY <1>1, <1>2, <1>3 DEF ListInv

LEMMA Edits ==
  ASSUME ListInv, list # "none",
         \/ L!openAddModal \/ L!closeModal \/ L!handleDragEnd \/ L!EditProfile
         \/ \E v \in 1..2 : L!TypeRole(v) \/ L!TypeValue(v)
         \/ \E r \in Rows : L!openEditModal(r) \/ L!handleDragStart(r)
  PROVE  FormOnly
<1> USE DEF FormOnly, L!shows, L!timed, L!faultsSeen
<1>0. /\ form \in Forms /\ L!Closed \in Forms /\ rows \in Tables /\ Root \in Rows
      /\ 1..2 \subseteq L!Vals /\ 0 \in L!Vals
  BY ListBounds DEF ListInv, Plainly, L!Vals
<1>1. CASE L!openAddModal
  <2> PICK r \in Rows, v \in 1..2 : form' = [mode |-> "add", row |-> r, val |-> v]
    BY <1>1 DEF L!openAddModal
  <2>1. form' \in Forms
    BY <1>0 DEF Forms
  <2> QED
    BY <1>1, <2>1 DEF L!openAddModal
<1>2. CASE L!closeModal \/ L!handleDragEnd
  BY <1>0, <1>2 DEF L!closeModal, L!handleDragEnd
<1>3. CASE L!EditProfile
  <2>1. form' = [L!Closed EXCEPT !.val = rows[Root]] \/ form' = [form EXCEPT !.mode = "edit"]
    BY <1>3 DEF L!EditProfile
  <2>2. rows[Root] \in L!Vals
    BY <1>0 DEF Tables
  <2>3. form' \in Forms
    BY <1>0, <2>1, <2>2 DEF Forms
  <2> QED
    BY <1>3, <2>3 DEF L!EditProfile
<1>4. ASSUME NEW v \in 1..2, L!TypeRole(v) \/ L!TypeValue(v) PROVE FormOnly
  <2>1. form' = [form EXCEPT !.val = v]
    BY <1>4 DEF L!TypeRole, L!TypeValue
  <2>2. form' \in Forms
    BY <1>0, <2>1 DEF Forms
  <2> QED
    BY <1>4, <2>2 DEF L!TypeRole, L!TypeValue
<1>5. ASSUME NEW r \in Rows, L!openEditModal(r) \/ L!handleDragStart(r) PROVE FormOnly
  <2>1. \/ form' = [mode |-> "edit", row |-> r, val |-> rows[r]]
        \/ form' = [mode |-> "drag", row |-> r, val |-> 0]
    BY <1>5 DEF L!openEditModal, L!handleDragStart
  <2>2. form' \in Forms
    BY <1>0, <2>1 DEF Forms, Tables
  <2> QED
    BY <1>5, <2>2 DEF L!openEditModal, L!handleDragStart
<1> QED
  BY <1>1, <1>2, <1>3, <1>4, <1>5

----------------------------------------------------------------------------
\* A handler that sends one request, when nothing is in flight.
LEMMA SendOne ==
  ASSUME ListInv, list # "none",
         NEW op \in OpsOn(list), NEW row \in Rows \cup {NoRow}, NEW val \in L!Vals,
         L!Asks(op, row, val), op = "rotate" => val = 2,
         UNCHANGED <<list, srv, header, fetched, loading, denied, settle, notice, clears, bad, refused>>,
         rows' \in Tables, acting' \in Rows \cup {NoRow}, running' \in BOOLEAN, form' \in Forms,
         \A q : /\ HasLeft(q, op, row, val, IF op = "avatar" THEN rows ELSE L!Absent)
                /\ Idle
                => Pending(q)'
  PROVE  ListInv'
<1>1. /\ InFlight' /\ ops' \in 0..MaxOps /\ overlap' \in BOOLEAN
      /\ \E q : /\ HasLeft(q, op, row, val, IF op = "avatar" THEN rows ELSE L!Absent)
                /\ ~overlap' => ~overlap /\ calls = {} /\ calls' = {q}
  BY Asked DEF ListInv
<1>2. Plainly'
  BY <1>1 DEF ListInv, Plainly
<1>3. Tidy'
  <2> PICK q : /\ HasLeft(q, op, row, val, IF op = "avatar" THEN rows ELSE L!Absent)
               /\ ~overlap' => ~overlap /\ calls = {} /\ calls' = {q}
    BY <1>1
  <2> SUFFICES ASSUME ~overlap' PROVE Tidy'
    BY DEF Tidy
  <2>1. Idle /\ (notice /\ ~bad /\ ~refused => AllRotated)
    BY DEF ListInv, Tidy
  <2>2. Pending(q)' /\ calls' = {q}
    BY <2>1
  <2>3. (notice /\ ~bad /\ ~refused => AllRotated)'
    BY <2>1 DEF AllRotated
  <2>4. calls' # {} /\ \A c \in calls' : calls' = {c} /\ Pending(c)'
    BY <2>2
  <2> QED
    BY <2>3, <2>4 DEF Tidy
<1> QED
  BY <1>1, <1>2, <1>3 DEF ListInv

\* With nothing changed but the request and the marks of its page.
LEMMA Waits ==
  ASSUME ListInv, NEW op, NEW row, NEW val, NEW kept, NEW q, HasLeft(q, op, row, val, kept), Idle,
         UNCHANGED <<list, srv, header, fetched, loading, denied, settle, notice, clears, bad, refused>>,
         rows' = rows \/ (list = "incidents" /\ op = "put"),
         list = "incidents" /\ op = "put" => (Current => Moved(q)'),
         op \notin {"list", "seed"},
         list = "access" => acting' # NoRow,
         list = "incidents" /\ fetched => (running' <=> op = "correlate"),
         list = "settings" => op = "creds" /\ ~settle /\ running',
         op = "avatar" => kept = rows
  PROVE  Pending(q)'
<1>1. q.op = op /\ q.row = row /\ q.val = val /\ q.stage = "sent" /\ q.kept = kept
  BY DEF HasLeft
<1>2. (Current' <=> Current) /\ (L!Spins' <=> L!Spins)
  BY DEF Current, L!Spins
<1>3. ShowsOf(q)'
  BY <1>1, <1>2 DEF ShowsOf, Idle, Current
<1>4. MarksOf(q)'
  BY <1>1, <1>2 DEF MarksOf, Idle
<1> QED
  BY <1>3, <1>4 DEF Pending

LEMMA Sends ==
  ASSUME ListInv, list # "none",
         \/ L!saveUser \/ L!handleRunCorrelation \/ L!saveProfile \/ L!saveSettings
         \/ \E v \in 1..2 : L!handleDrop(v)
         \/ \E r \in Rows : \/ L!handleDelete(r) \/ L!handleReview(r)
                            \/ L!toggleWaf(r) \/ L!handleAvatarUpload(r)
  PROVE  ListInv'
<1> USE DEF L!shows, L!marks, L!timed
<1>0. /\ form \in Forms /\ form.row \in Rows \cup {NoRow} /\ form.val \in L!Vals
      /\ L!Closed \in Forms /\ rows \in Tables /\ Root \in Rows /\ NoRow \notin Rows
      /\ acting \in Rows \cup {NoRow} /\ running \in BOOLEAN
      /\ 1..2 \subseteq L!Vals /\ 0 \in L!Vals /\ 2 \in L!Vals
      /\ \A r \in Rows : rows[r] \in 0..2
  BY ListBounds DEF ListInv, Plainly, L!Vals, Forms, Tables
<1>1. CASE L!saveUser
  <2> PICK op : op = IF form.mode = "add" THEN "create" ELSE "put"
    OBVIOUS
  <2>1. /\ op \in {"create", "put"} /\ list = "users" /\ op \in OpsOn(list)
        /\ L!Asks(op, form.row, form.val)
        /\ UNCHANGED <<list, srv, rows, header, fetched, loading, denied, acting, form, running,
                       settle, notice, clears, bad, refused>>
    BY <1>1 DEF L!saveUser, L!UsersTable, OpsOn
  <2> PICK row, val : row = form.row /\ val = form.val
    OBVIOUS
  <2>2. row \in Rows \cup {NoRow} /\ val \in L!Vals /\ L!Asks(op, row, val)
    BY <1>0, <2>1
  <2>3. \A q : HasLeft(q, op, row, val, IF op = "avatar" THEN rows ELSE L!Absent) /\ Idle => Pending(q)'
    BY <2>1, <2>2, Waits
  <2> QED
    BY <1>0, <2>1, <2>2, <2>3, SendOne
<1>2. CASE L!handleRunCorrelation
  <2>1. /\ list = "incidents" /\ "correlate" \in OpsOn(list) /\ running' = TRUE
        /\ L!Asks("correlate", NoRow, 0)
        /\ UNCHANGED <<list, srv, rows, header, fetched, loading, denied, acting, form,
                       settle, notice, clears, bad, refused>>
    BY <1>2 DEF L!handleRunCorrelation, OpsOn
  <2>2. \A q : HasLeft(q, "correlate", NoRow, 0, IF "correlate" = "avatar" THEN rows ELSE L!Absent) /\ Idle
               => Pending(q)'
    BY <2>1, Waits
  <2> QED
    BY <1>0, <2>1, <2>2, SendOne
<1>3. CASE L!saveProfile
  <2> PICK val : val = form.val
    OBVIOUS
  <2>1. /\ list = "profile" /\ "put" \in OpsOn(list)
        /\ L!Asks("put", Root, val) /\ val \in L!Vals
        /\ UNCHANGED <<list, srv, rows, header, fetched, loading, denied, acting, form, running,
                       settle, notice, clears, bad, refused>>
    BY <1>0, <1>3 DEF L!saveProfile, L!ProfileCard, OpsOn
  <2>2. \A q : HasLeft(q, "put", Root, val, IF "put" = "avatar" THEN rows ELSE L!Absent) /\ Idle
               => Pending(q)'
    BY <2>1, Waits
  <2> QED
    BY <1>0, <2>1, <2>2, SendOne
<1>4. CASE L!saveSettings
  <2>1. /\ list = "settings" /\ "creds" \in OpsOn(list) /\ ~running /\ running' = TRUE
        /\ L!Asks("creds", NoRow, 0)
        /\ UNCHANGED <<list, srv, rows, header, fetched, loading, denied, acting, form,
                       settle, notice, clears, bad, refused>>
    BY <1>4 DEF L!saveSettings, L!SettingsForm, OpsOn
  <2>2. Idle => ~settle
    BY <2>1 DEF Idle
  <2>3. \A q : HasLeft(q, "creds", NoRow, 0, IF "creds" = "avatar" THEN rows ELSE L!Absent) /\ Idle
               => Pending(q)'
    BY <2>1, <2>2, Waits
  <2> QED
    BY <1>0, <2>1, <2>3, SendOne
<1>5. ASSUME NEW v \in 1..2, L!handleDrop(v) PROVE ListInv'
  <2> PICK row : row = form.row
    OBVIOUS
  <2>1. /\ list = "incidents" /\ "put" \in OpsOn(list) /\ form' = L!Closed
        /\ L!Asks("put", row, v) /\ row \in Rows \cup {NoRow}
        /\ rows' = [rows EXCEPT ![row] = IF @ = 0 THEN 0 ELSE v]
        /\ UNCHANGED <<list, srv, header, fetched, loading, denied, acting, running,
                       settle, notice, clears, bad, refused>>
    BY <1>0, <1>5 DEF L!handleDrop, OpsOn
  <2>2. /\ rows' \in Tables
        /\ \A r \in Rows : rows'[r] = IF r = row /\ rows[r] # 0 THEN v ELSE rows[r]
    BY <1>0, <2>1 DEF Tables
  <2>3. ASSUME NEW q, HasLeft(q, "put", row, v, IF "put" = "avatar" THEN rows ELSE L!Absent), Idle
        PROVE  Pending(q)'
    <3>1. Current => Moved(q)'
      BY <2>1, <2>2, <2>3 DEF Idle, Moved, HasLeft
    <3>2. fetched => ~running'
      BY <2>1, <2>3 DEF Idle
    <3> QED
      BY <2>1, <2>3, <3>1, <3>2, Waits
  <2> QED
    BY <1>0, <2>1, <2>2, <2>3, SendOne
<1>6. ASSUME NEW r \in Rows, L!handleDelete(r) PROVE ListInv'
  <2>1. /\ list = "users" /\ "delete" \in OpsOn(list)
        /\ L!Asks("delete", r, 0)
        /\ UNCHANGED <<list, srv, rows, header, fetched, loading, denied, acting, form, running,
                       settle, notice, clears, bad, refused>>
    BY <1>6 DEF L!handleDelete, L!UserRow, L!UsersTable, OpsOn
  <2>2. \A q : HasLeft(q, "delete", r, 0, IF "delete" = "avatar" THEN rows ELSE L!Absent) /\ Idle
               => Pending(q)'
    BY <2>1, Waits
  <2> QED
    BY <1>0, <2>1, <2>2, SendOne
<1>7. ASSUME NEW r \in Rows, L!handleReview(r) PROVE ListInv'
  <2>1. /\ list = "access" /\ "rotate" \in OpsOn(list) /\ acting' = r
        /\ L!Asks("rotate", r, 2)
        /\ UNCHANGED <<list, srv, rows, header, fetched, loading, denied, form, running,
                       settle, notice, clears, bad, refused>>
    BY <1>7 DEF L!handleReview, L!GrantRow, L!AccessTable, OpsOn
  <2>2. acting' # NoRow /\ acting' \in Rows \cup {NoRow}
    BY <1>0, <2>1
  <2>3. \A q : HasLeft(q, "rotate", r, 2, IF "rotate" = "avatar" THEN rows ELSE L!Absent) /\ Idle
               => Pending(q)'
    BY <2>1, <2>2, Waits
  <2> QED
    BY <1>0, <2>1, <2>2, <2>3, SendOne
<1>8. ASSUME NEW r \in Rows, L!toggleWaf(r) PROVE ListInv'
  <2> PICK val : val = 3 - rows[r]
    OBVIOUS
  <2>1. /\ list = "assets" /\ "put" \in OpsOn(list)
        /\ L!Asks("put", r, val) /\ rows[r] # 0
        /\ UNCHANGED <<list, srv, rows, header, fetched, loading, denied, acting, form, running,
                       settle, notice, clears, bad, refused>>
    BY <1>8 DEF L!toggleWaf, OpsOn
  <2>2. val \in L!Vals
    BY <1>0, <2>1 DEF L!Vals
  <2>3. \A q : HasLeft(q, "put", r, val, IF "put" = "avatar" THEN rows ELSE L!Absent) /\ Idle
               => Pending(q)'
    BY <2>1, Waits
  <2> QED
    BY <1>0, <2>1, <2>2, <2>3, SendOne
<1>9. ASSUME NEW r \in Rows, L!handleAvatarUpload(r) PROVE ListInv'
  <2>1. /\ list = "profile" /\ "avatar" \in OpsOn(list)
        /\ L!Asks("avatar", r, 2)
        /\ UNCHANGED <<list, srv, rows, header, fetched, loading, denied, acting, form, running,
                       settle, notice, clears, bad, refused>>
    BY <1>9 DEF L!handleAvatarUpload, L!ProfileCard, OpsOn
  <2>2. \A q : HasLeft(q, "avatar", r, 2, IF "avatar" = "avatar" THEN rows ELSE L!Absent) /\ Idle
               => Pending(q)'
    BY <2>1, Waits
  <2> QED
    BY <1>0, <2>1, <2>2, SendOne
<1> QED
  BY <1>1, <1>2, <1>3, <1>4, <1>5, <1>6, <1>7, <1>8, <1>9

----------------------------------------------------------------------------
\* The server serves c, or refuses it.
LEMMA Swapped ==
  ASSUME InFlight, NEW c \in calls, NEW d \in Calls, calls' = (calls \ {c}) \cup {d}, list' = list,
         d.op = c.op, d.val = c.val
  PROVE  InFlight' /\ (calls = {c} => calls' = {d})
<1>1. /\ IsFiniteSet(calls \ {c}) /\ Cardinality(calls \ {c}) = Cardinality(calls) - 1
      /\ Cardinality(calls) \in Nat
  BY FS_RemoveElement, FS_CardinalityType DEF InFlight
<1>2. /\ IsFiniteSet((calls \ {c}) \cup {d})
      /\ Cardinality((calls \ {c}) \cup {d}) = IF d \in calls \ {c} THEN Cardinality(calls \ {c})
                                               ELSE Cardinality(calls \ {c}) + 1
  BY <1>1, FS_AddElement
<1>3. IsFiniteSet(calls') /\ Cardinality(calls') <= MaxCalls
  BY <1>1, <1>2, ListBounds DEF InFlight
<1> QED
  BY <1>3 DEF InFlight

LEMMA Effect ==
  ASSUME Plainly, NEW c \in Calls, srv' \in L!Effects(c), L!Allowed(c), c.op \in OpsOn(list),
         list = "settings" /\ c.op = "rotate" => c.val = 2
  PROVE  /\ srv' \in Tables
         /\ c.op \in {"list", "seed", "header", "creds"} => srv' = srv
         /\ c.op \in {"put", "rotate", "avatar"} =>
              srv[c.row] # 0 /\ srv' = [srv EXCEPT ![c.row] = c.val]
         /\ list = "settings" /\ AllRotated => AllRotated'
<1>1. c.val \in L!Vals /\ c.op \in Opers /\ srv \in Tables
  BY DEF Calls, Plainly
<1>2. srv' \in Tables
  <2>1. \/ srv' = srv \/ srv' = [srv EXCEPT ![c.row] = c.val]
        \/ srv' = [srv EXCEPT ![c.row] = 0] \/ \E r \in Rows : srv' = [srv EXCEPT ![r] = 1]
    BY <1>1 DEF L!Effects, Opers
  <2>2. 0 \in L!Vals /\ 1 \in L!Vals
    BY DEF L!Vals
  <2> QED
    BY <1>1, <2>1, <2>2 DEF Tables
<1>3. c.op \in {"list", "seed", "header", "creds"} => srv' = srv
  BY DEF L!Effects
<1>4. c.op \in {"put", "rotate", "avatar"} => srv[c.row] # 0 /\ srv' = [srv EXCEPT ![c.row] = c.val]
  BY DEF L!Effects, L!Allowed
<1>5. ASSUME list = "settings", AllRotated PROVE AllRotated'
  <2>1. c.op \in {"list", "creds", "rotate"}
    BY <1>5 DEF OpsOn
  <2>2. CASE c.op = "rotate"
    <3>1. srv' = [srv EXCEPT ![c.row] = 2]
      BY <1>4, <1>5, <2>2
    <3> QED
      BY <1>1, <1>5, <3>1 DEF AllRotated, Tables
  <2> QED
    BY <1>3, <1>5, <2>1, <2>2 DEF AllRotated
<1> QED
  BY <1>2, <1>3, <1>4, <1>5

LEMMA Served == ASSUME ListInv, list # "none", NEW c \in calls, L!Serve(c) PROVE ListInv'
<1>1. /\ c \in Calls /\ c.stage = "sent" /\ c.op \in OpsOn(list) /\ c.op \in Opers
      /\ c.val \in L!Vals /\ c.row \in Rows \cup {NoRow} /\ srv \in Tables
      /\ list = "settings" /\ c.op = "rotate" => c.val = 2
      /\ UNCHANGED <<list, rows, header, fetched, ops, loading, denied, acting, form, running,
                     settle, notice, clears, overlap, bad, refused>>
  BY DEF L!Serve, ListInv, InFlight, Calls, Plainly, L!shows, L!marks, L!timed, L!faultsSeen
<1>2. (Current' <=> Current) /\ (L!Spins' <=> L!Spins)
  BY <1>1 DEF Current, L!Spins
<1>3. CASE /\ L!Allowed(c) /\ srv' \in L!Effects(c)
           /\ calls' = (calls \ {c}) \cup
                {[c EXCEPT !.stage = "ok", !.kept = IF c.op \in L!Lists THEN srv ELSE @]}
  <2> PICK d : d = [c EXCEPT !.stage = "ok", !.kept = IF c.op \in L!Lists THEN srv ELSE @]
    OBVIOUS
  <2>1. /\ d \in Calls /\ d.op = c.op /\ d.row = c.row /\ d.val = c.val /\ d.stage = "ok"
        /\ c.op \in L!Lists => d.kept = srv
        /\ c.op \notin L!Lists => d.kept = c.kept
    BY <1>1 DEF Calls
  <2>2. InFlight' /\ (calls = {c} => calls' = {d})
    BY <1>1, <1>3, <2>1, Swapped DEF ListInv
  <2>3. /\ srv' \in Tables
        /\ c.op \in {"list", "seed", "header", "creds"} => srv' = srv
        /\ c.op \in {"put", "rotate", "avatar"} =>
             srv[c.row] # 0 /\ srv' = [srv EXCEPT ![c.row] = c.val]
        /\ list = "settings" /\ AllRotated => AllRotated'
    BY <1>1, <1>3, Effect DEF ListInv
  <2>4. Plainly'
    BY <1>1, <2>3 DEF ListInv, Plainly
  <2>5. ASSUME Pending(c) PROVE ShowsOf(d)'
    <3>1. Current /\ list = "incidents" /\ c.op = "put" => rows = srv'
      <4> SUFFICES ASSUME Current, list = "incidents", c.op = "put" PROVE rows = srv'
        OBVIOUS
      <4>1. Moved(c) /\ srv[c.row] # 0 /\ srv' = [srv EXCEPT ![c.row] = c.val]
        BY <1>1, <2>3, <2>5 DEF Pending, ShowsOf
      <4>2. rows \in Tables
        BY DEF ListInv, Plainly
      <4> QED
        BY <1>1, <4>1, <4>2 DEF Moved, Tables
    <3>2. Current /\ c.op = "avatar" => srv' = [c.kept EXCEPT ![c.row] = c.val]
      BY <1>1, <2>3, <2>5 DEF Pending, ShowsOf
    <3>3. Current /\ c.op \in {"seed", "header"} => rows = srv'
      BY <1>1, <2>3, <2>5 DEF Pending, ShowsOf
    <3>4. c.op \in L!Lists => d.kept = srv'
      BY <2>1, <2>3 DEF L!Lists
    <3>5. c.op \notin L!Lists => d.kept = c.kept
      BY <2>1
    <3>6. "avatar" \notin L!Lists
      BY DEF L!Lists
    <3> QED
      BY <1>1, <1>2, <2>1, <3>1, <3>2, <3>3, <3>4, <3>5, <3>6 DEF ShowsOf
  <2>6. ASSUME Pending(c) PROVE MarksOf(d)'
    <3>1. ASSUME list = "settings", c.op = "rotate", ~bad, ~refused, NEW r \in Rows, srv'[r] = 1
          PROVE  d.kept[r] # 0
      <4>1. srv' = [srv EXCEPT ![c.row] = 2] /\ d.kept = c.kept
        BY <1>1, <2>1, <2>3, <3>1 DEF L!Lists
      <4>2. r # c.row /\ srv[r] = 1
        BY <1>1, <3>1, <4>1 DEF Tables
      <4> QED
        BY <2>6, <3>1, <4>1, <4>2 DEF Pending, MarksOf
    <3> QED
      BY <1>1, <1>2, <2>1, <2>6, <3>1 DEF Pending, MarksOf
  <2>7. Tidy'
    <3> SUFFICES ASSUME ~overlap PROVE Tidy'
      BY <1>1 DEF Tidy
    <3>1. calls = {c} /\ Pending(c) /\ (notice /\ ~bad /\ ~refused => AllRotated)
      BY DEF ListInv, Tidy
    <3>2. notice => list = "settings"
      BY DEF ListInv, Plainly
    <3>3. calls' = {d} /\ Pending(d)'
      BY <2>2, <2>5, <2>6, <3>1 DEF Pending
    <3>4. (notice /\ ~bad /\ ~refused => AllRotated)'
      BY <1>1, <2>3, <3>1, <3>2
    <3> QED
      BY <3>3, <3>4 DEF Tidy
  <2> QED
    BY <2>2, <2>4, <2>7 DEF ListInv
<1>4. CASE UNCHANGED srv /\ calls' = (calls \ {c}) \cup {[c EXCEPT !.stage = "refused"]}
  <2> PICK d : d = [c EXCEPT !.stage = "refused"]
    OBVIOUS
  <2>1. /\ d \in Calls /\ d.op = c.op /\ d.row = c.row /\ d.val = c.val /\ d.stage = "refused"
        /\ d.kept = c.kept
    BY <1>1 DEF Calls
  <2>2. InFlight' /\ (calls = {c} => calls' = {d})
    BY <1>1, <1>4, <2>1, Swapped DEF ListInv
  <2>3. Plainly'
    BY <1>1, <1>4 DEF ListInv, Plainly
  <2>4. Pending(c) => Pending(d)'
    <3> SUFFICES ASSUME Pending(c) PROVE Pending(d)'
      OBVIOUS
    <3>1. ShowsOf(d)'
      BY <1>1, <1>2, <1>4, <2>1 DEF Pending, ShowsOf
    <3>2. MarksOf(d)'
      BY <1>1, <1>2, <1>4, <2>1 DEF Pending, MarksOf
    <3> QED
      BY <3>1, <3>2 DEF Pending
  <2>5. Tidy'
    <3> SUFFICES ASSUME ~overlap PROVE Tidy'
      BY <1>1 DEF Tidy
    <3>1. calls = {c} /\ Pending(c) /\ (notice /\ ~bad /\ ~refused => AllRotated)
      BY DEF ListInv, Tidy
    <3>2. (notice /\ ~bad /\ ~refused => AllRotated)'
      BY <1>1, <1>4, <3>1 DEF AllRotated
    <3> QED
      BY <2>2, <2>4, <3>1, <3>2 DEF Tidy
  <2> QED
    BY <2>2, <2>3, <2>5 DEF ListInv
<1> QED
  BY <1>3, <1>4 DEF L!Serve

----------------------------------------------------------------------------
(***************************************************************************
 Answers.
 ***************************************************************************)
Kinds == {"ok", "refused", "lost"}

\* What the end of c says: an answer that came is the server's.
LEMMA CallEnded ==
  ASSUME ListInv, NEW c, NEW kind \in Kinds, L!Ends(c, kind)
  PROVE  /\ c \in calls /\ c \in Calls /\ c.op \in OpsOn(list)
         /\ c.row \in Rows \cup {NoRow} /\ c.val \in L!Vals /\ c.kept \in Tables
         /\ bad' \in BOOLEAN /\ refused' \in BOOLEAN
         /\ kind = "ok" => c.stage = "ok"
         /\ kind = "refused" => c.stage = "refused"
         /\ ~bad' => ~bad /\ kind # "lost" /\ (c.op \in L!Lists => kind # "refused")
         /\ ~refused' => ~refused /\ (kind = "refused" => c.op \in L!Lists)
<1>1. /\ c \in calls /\ c \in Calls /\ c.op \in OpsOn(list)
      /\ bad \in BOOLEAN /\ refused \in BOOLEAN
  BY DEF L!Ends, ListInv, InFlight, Plainly
<1>2. /\ c.row \in Rows \cup {NoRow} /\ c.val \in L!Vals /\ c.kept \in Tables
  BY <1>1 DEF Calls
<1>3. /\ kind = "lost" \/ kind = c.stage
      /\ bad' = (bad \/ kind = "lost" \/ (kind = "refused" /\ c.op \in L!Lists))
      /\ refused' = (refused \/ (kind = "refused" /\ c.op \notin L!Lists))
  BY DEF L!Ends
<1> QED
  BY <1>1, <1>2, <1>3 DEF Kinds

\* The handler has sent nothing, or one request q.
LEMMA AnswerTidy ==
  ASSUME ListInv, NEW c \in calls, NEW kind \in Kinds, L!Ends(c, kind),
         UNCHANGED <<list, srv, notice>>, ~overlap' => ~overlap,
         \/ calls' = calls \ {c} /\ (calls = {c} /\ Pending(c) => Idle')
         \/ \E q : /\ ~overlap' => calls' = {q}
                   /\ calls = {c} /\ Pending(c) => Pending(q)'
  PROVE  Tidy'
<1> SUFFICES ASSUME ~overlap' PROVE Tidy'
  BY DEF Tidy
<1>1. calls = {c} /\ Pending(c) /\ (notice /\ ~bad /\ ~refused => AllRotated)
  BY DEF ListInv, Tidy
<1>2. (notice /\ ~bad /\ ~refused => AllRotated)'
  BY <1>1, CallEnded DEF AllRotated
<1>3. CASE calls' = calls \ {c} /\ (calls = {c} /\ Pending(c) => Idle')
  <2>1. calls' = {} /\ Idle'
    BY <1>1, <1>3
  <2> QED
    BY <1>2, <2>1 DEF Tidy
<1>4. ASSUME NEW q, ~overlap' => calls' = {q}, calls = {c} /\ Pending(c) => Pending(q)'
      PROVE  Tidy'
  <2>1. calls' = {q} /\ Pending(q)'
    BY <1>1, <1>4
  <2>2. calls' # {} /\ \A x \in calls' : calls' = {x} /\ Pending(x)'
    BY <2>1
  <2> QED
    BY <1>2, <2>2 DEF Tidy
<1> QED
  BY <1>3, <1>4

\* The list is asked for again, and the marks are on.
LEMMA ListComes ==
  ASSUME NEW q, HasLeft(q, "list", NoRow, 0, L!Absent), list' = list,
         L!Spins /\ ~denied' => loading',
         list = "access" /\ fetched' => acting' # NoRow,
         list = "incidents" /\ fetched' => running',
         list # "settings"
  PROVE  Pending(q)'
<1>1. ShowsOf(q)'
  BY DEF ShowsOf, HasLeft
<1>2. MarksOf(q)'
  BY DEF MarksOf, HasLeft, L!Spins
<1> QED
  BY <1>1, <1>2 DEF Pending

LEMMA HeaderComes ==
  ASSUME NEW q, HasLeft(q, "header", NoRow, 0, L!Absent), list' = list, list = "profile",
         Current' => rows' = srv'
  PROVE  Pending(q)'
<1>1. ShowsOf(q)'
  BY DEF ShowsOf, HasLeft
<1>2. MarksOf(q)'
  BY DEF MarksOf, HasLeft, L!Spins
<1> QED
  BY <1>1, <1>2 DEF Pending

LEMMA ListAnswered ==
  ASSUME ListInv, list # "none", NEW c, NEW kind \in Kinds, L!ListAnswer(c, kind)
  PROVE  ListInv'
<1>1. c.op = "list" /\ L!Ends(c, kind)
  BY DEF L!ListAnswer
<1>2. /\ c \in calls /\ c.kept \in Tables
      /\ bad' \in BOOLEAN /\ refused' \in BOOLEAN
      /\ kind = "ok" => c.stage = "ok"
      /\ ~bad' => ~bad /\ kind = "ok"
      /\ ~refused' => ~refused
  BY <1>1, CallEnded DEF L!Lists, Kinds
<1>3. /\ rows' = IF kind = "ok" THEN c.kept ELSE rows
      /\ fetched' \in BOOLEAN /\ (fetched' => fetched \/ kind = "ok" \/ list = "settings")
      /\ loading' = FALSE /\ denied' \in BOOLEAN
      /\ acting' = IF list = "access" THEN NoRow ELSE acting
      /\ running' = IF list = "incidents" THEN FALSE ELSE running
      /\ UNCHANGED <<header, settle, notice, clears>>
  BY DEF L!ListAnswer, L!timed, ListInv, Plainly
<1>4. form' \in Forms
  <2>1. form \in Forms /\ c.kept[Root] \in L!Vals
    BY <1>2, ListBounds DEF ListInv, Plainly, Tables
  <2>2. form' = [form EXCEPT !.val = c.kept[Root]] \/ form' = form
    BY DEF L!ListAnswer
  <2> QED
    BY <2>1, <2>2 DEF Forms
<1> PICK ops2 : ops2 = IF kind = "ok" /\ list = "profile" THEN {"header"} ELSE {}
  OBVIOUS
<1>5. L!Then(c, ops2) /\ (ops2 = {} \/ \E op \in OpsOn(list) \ {"rotate"} : ops2 = {op})
  BY DEF L!ListAnswer, OpsOn
<1>6. /\ InFlight' /\ overlap' \in BOOLEAN /\ UNCHANGED <<list, srv, ops>>
      /\ ~overlap' => ~overlap
      /\ ops2 = {} => calls' = calls \ {c}
      /\ \A op : ops2 = {op} =>
           \E q : /\ HasLeft(q, op, NoRow, 0, L!Absent) /\ calls' = (calls \ {c}) \cup {q}
                  /\ ~overlap' => calls' = {q}
  BY <1>2, <1>5, WentOn DEF ListInv
<1>7. Plainly'
  <2>1. rows' \in Tables /\ fetched' \in BOOLEAN /\ acting' \in Rows \cup {NoRow}
        /\ running' \in BOOLEAN /\ denied' \in BOOLEAN
    BY <1>2, <1>3 DEF ListInv, Plainly
  <2> QED
    BY <1>2, <1>3, <1>4, <1>6, <2>1 DEF ListInv, Plainly
<1>8. Pending(c) /\ ~bad' => rows' = srv
  BY <1>1, <1>2, <1>3 DEF Pending, ShowsOf, L!Lists
<1>9. CASE ops2 = {}
  <2>1. ASSUME Pending(c) PROVE Idle'
    <3>1. list = "profile" => kind # "ok"
      BY <1>9
    <3>2. Current' => rows' = srv'
      BY <1>6, <1>8, <2>1 DEF Current
    <3>3. list = "settings" => ~settle /\ ~running
      BY <1>1, <2>1 DEF Pending, MarksOf
    <3>4. list # "settings" => ~settle
      BY DEF ListInv, Plainly
    <3> QED
      BY <1>2, <1>3, <1>6, <3>1, <3>2, <3>3, <3>4 DEF Idle
  <2>2. Tidy'
    BY <1>1, <1>2, <1>3, <1>6, <1>9, <2>1, AnswerTidy
  <2> QED
    BY <1>6, <1>7, <2>2 DEF ListInv
<1>10. CASE ops2 = {"header"}
  <2>1. list = "profile"
    BY <1>10
  <2> PICK q : /\ HasLeft(q, "header", NoRow, 0, L!Absent) /\ (~overlap' => calls' = {q})
    BY <1>6, <1>10
  <2>2. Pending(c) => Pending(q)'
    <3> SUFFICES ASSUME Pending(c) PROVE Pending(q)'
      OBVIOUS
    <3>1. Current' => rows' = srv'
      BY <1>6, <1>8 DEF Current
    <3> QED
      BY <1>6, <2>1, <3>1, HeaderComes
  <2>3. Tidy'
    BY <1>1, <1>2, <1>3, <1>6, <2>2, AnswerTidy
  <2> QED
    BY <1>6, <1>7, <2>3 DEF ListInv
<1> QED
  BY <1>9, <1>10

LEMMA HeaderAnswered ==
  ASSUME ListInv, list # "none", NEW c, NEW kind \in Kinds, L!HeaderAnswer(c, kind)
  PROVE  ListInv'
<1>1. c.op = "header" /\ L!Ends(c, kind) /\ L!Then(c, {})
      /\ header' = (IF kind = "ok" THEN c.kept ELSE header)
      /\ UNCHANGED <<rows, fetched, loading, denied, acting, form, running, settle, notice, clears>>
  BY DEF L!HeaderAnswer, L!marks, L!timed
<1>2. /\ c \in calls /\ c.kept \in Tables /\ c.op \in OpsOn(list)
      /\ bad' \in BOOLEAN /\ refused' \in BOOLEAN
      /\ kind = "ok" => c.stage = "ok"
      /\ ~bad' => ~bad /\ kind = "ok"
      /\ ~refused' => ~refused
  BY <1>1, CallEnded DEF L!Lists, Kinds
<1>3. list = "profile"
  BY <1>1, <1>2 DEF OpsOn
<1>4. /\ InFlight' /\ overlap' \in BOOLEAN /\ UNCHANGED <<list, srv, ops>>
      /\ ~overlap' => ~overlap
      /\ calls' = calls \ {c}
  BY <1>1, <1>2, WentOn DEF ListInv
<1>5. Plainly'
  BY <1>1, <1>2, <1>4 DEF ListInv, Plainly
<1>6. ASSUME Pending(c) PROVE Idle'
  <2>1. Current' => rows' = srv'
    BY <1>1, <1>2, <1>3, <1>4, <1>6 DEF Pending, ShowsOf, Current
  <2>2. ~bad' => header' = srv'
    BY <1>1, <1>2, <1>4, <1>6 DEF Pending, ShowsOf, L!Lists
  <2>3. ~settle
    BY <1>3 DEF ListInv, Plainly
  <2> QED
    BY <1>1, <1>3, <1>4, <2>1, <2>2, <2>3 DEF Idle, L!Spins
<1>7. Tidy'
  BY <1>1, <1>2, <1>4, <1>6, AnswerTidy
<1> QED
  BY <1>4, <1>5, <1>7 DEF ListInv

LEMMA SeedAnswered ==
  ASSUME ListInv, list # "none", NEW c, NEW kind \in Kinds, L!SeedAnswer(c, kind)
  PROVE  ListInv'
<1>1. c.op = "seed" /\ L!Ends(c, kind) /\ L!Then(c, {"list"}) /\ loading' = TRUE
      /\ UNCHANGED <<rows, header, fetched, denied, acting, form, running, settle, notice, clears>>
  BY DEF L!SeedAnswer, L!shows, L!timed
<1>2. /\ c \in calls /\ c.op \in OpsOn(list) /\ bad' \in BOOLEAN /\ refused' \in BOOLEAN
  BY <1>1, CallEnded
<1>3. list = "access" /\ "list" \in OpsOn(list)
  BY <1>1, <1>2 DEF OpsOn
<1>4. /\ InFlight' /\ overlap' \in BOOLEAN /\ UNCHANGED <<list, srv, ops>>
      /\ ~overlap' => ~overlap
      /\ \E q : /\ HasLeft(q, "list", NoRow, 0, L!Absent)
                /\ ~overlap' => calls' = {q}
  BY <1>1, <1>2, <1>3, WentOn DEF ListInv
<1>5. Plainly'
  BY <1>1, <1>2, <1>4 DEF ListInv, Plainly
<1> PICK q : HasLeft(q, "list", NoRow, 0, L!Absent) /\ (~overlap' => calls' = {q})
  BY <1>4
<1>6. Pending(c) => Pending(q)'
  <2> SUFFICES ASSUME Pending(c) PROVE Pending(q)'
    OBVIOUS
  <2>1. fetched' => acting' # NoRow
    BY <1>1, <1>3 DEF Pending, MarksOf
  <2> QED
    BY <1>1, <1>3, <1>4, <2>1, ListComes
<1>7. Tidy'
  BY <1>1, <1>2, <1>4, <1>6, AnswerTidy
<1> QED
  BY <1>4, <1>5, <1>7 DEF ListInv

----------------------------------------------------------------------------
\* A change was answered: the list is fetched again, or what is shown is already right.
LEMMA ChangeAnswered ==
  ASSUME ListInv, NEW c, NEW kind \in Kinds, L!Ends(c, kind), c.op \notin {"list", "seed"},
         NEW ops2 \in {{}, {"list"}}, L!Then(c, ops2), list \notin {"none", "settings"},
         UNCHANGED <<rows, header, fetched, denied, settle, notice, clears>>,
         L!Spins => loading' = (loading \/ ops2 # {}),
         loading' \in BOOLEAN, acting' \in Rows \cup {NoRow}, running' \in BOOLEAN, form' \in Forms,
         list = "access" => acting' = IF ops2 = {} THEN NoRow ELSE acting,
         list = "incidents" /\ fetched /\ Pending(c) => (running' <=> ops2 # {}),
         ops2 = {} /\ Pending(c) /\ Current' => rows = srv,
         ops2 = {} /\ Pending(c) /\ list = "profile" /\ ~bad' => header = srv
  PROVE  ListInv'
<1>1. /\ c \in calls /\ bad' \in BOOLEAN /\ refused' \in BOOLEAN
  BY CallEnded
<1>2. "list" \in OpsOn(list) /\ list \in L!Pages
  BY DEF OpsOn, ListInv, Plainly, L!Pages
<1>3. /\ InFlight' /\ overlap' \in BOOLEAN /\ UNCHANGED <<list, srv, ops>>
      /\ ~overlap' => ~overlap
      /\ ops2 = {} => calls' = calls \ {c}
      /\ ops2 = {"list"} => \E q : /\ HasLeft(q, "list", NoRow, 0, L!Absent)
                                   /\ ~overlap' => calls' = {q}
  BY <1>1, <1>2, WentOn DEF ListInv
<1>4. Plainly'
  BY <1>1, <1>3 DEF ListInv, Plainly
<1>5. ~settle
  BY DEF ListInv, Plainly
<1>6. CASE ops2 = {}
  <2>1. ASSUME Pending(c) PROVE Idle'
    <3>1. L!Spins' /\ ~denied' => ~loading'
      BY <1>3, <1>6, <2>1 DEF Pending, MarksOf, L!Spins
    <3>2. Current' => rows' = srv'
      BY <1>3, <1>6, <2>1
    <3>3. list = "incidents" /\ fetched => ~running'
      BY <1>6, <2>1
    <3> QED
      BY <1>3, <1>5, <1>6, <2>1, <3>1, <3>2, <3>3 DEF Idle
  <2>2. Tidy'
    BY <1>1, <1>3, <1>6, <2>1, AnswerTidy
  <2> QED
    BY <1>3, <1>4, <2>2 DEF ListInv
<1>7. CASE ops2 = {"list"}
  <2> PICK q : HasLeft(q, "list", NoRow, 0, L!Absent) /\ (~overlap' => calls' = {q})
    BY <1>3, <1>7
  <2>1. Pending(c) => Pending(q)'
    <3> SUFFICES ASSUME Pending(c) PROVE Pending(q)'
      OBVIOUS
    <3>1. /\ L!Spins => loading'
          /\ list = "access" /\ fetched' => acting' # NoRow
          /\ list = "incidents" /\ fetched' => running'
      BY <1>7 DEF Pending, MarksOf
    <3> QED
      BY <1>3, <3>1, ListComes
  <2>2. Tidy'
    BY <1>1, <1>3, <2>1, AnswerTidy
  <2> QED
    BY <1>3, <1>4, <2>2 DEF ListInv
<1> QED
  BY <1>6, <1>7

LEMMA UserAnswered ==
  ASSUME ListInv, NEW c, NEW kind \in Kinds, L!UserAnswer(c, kind) PROVE ListInv'
<1> PICK ops2 \in {{}, {"list"}} : ops2 = IF kind = "ok" THEN {"list"} ELSE {}
  OBVIOUS
<1>1. /\ list = "users" /\ c.op \in {"create", "put", "delete"} /\ L!Ends(c, kind) /\ L!Then(c, ops2)
      /\ loading' = (loading \/ kind = "ok")
      /\ form' = (IF kind = "ok" /\ c.op # "delete" THEN L!Closed ELSE form)
      /\ UNCHANGED <<rows, header, fetched, denied, acting, running, settle, notice, clears>>
  BY DEF L!UserAnswer, L!shows, L!timed
<1>2. /\ list' = list
      /\ kind = "refused" => c.stage = "refused"
      /\ ~bad' => ~bad /\ kind # "lost"
  BY <1>1, CallEnded DEF L!Then
<1>3. /\ loading \in BOOLEAN /\ acting \in Rows \cup {NoRow} /\ running \in BOOLEAN /\ form' \in Forms
      /\ loading' \in BOOLEAN /\ L!Spins
  BY <1>1, ListBounds DEF ListInv, Plainly, L!Spins
<1>4. ops2 = {} /\ Pending(c) /\ Current' => rows = srv
  BY <1>1, <1>2 DEF Kinds, Pending, ShowsOf, Current
<1>5. loading' = (loading \/ ops2 # {})
  BY <1>1
<1> QED
  BY <1>1, <1>3, <1>4, <1>5, ChangeAnswered

LEMMA ReviewAnswered ==
  ASSUME ListInv, NEW c, NEW kind \in Kinds, L!ReviewAnswer(c, kind) PROVE ListInv'
<1> PICK ops2 \in {{}, {"list"}} : ops2 = IF kind = "lost" THEN {} ELSE {"list"}
  OBVIOUS
<1>1. /\ list = "access" /\ c.op = "rotate" /\ L!Ends(c, kind) /\ L!Then(c, ops2)
      /\ loading' = (loading \/ kind # "lost")
      /\ acting' = (IF kind = "lost" THEN NoRow ELSE acting)
      /\ UNCHANGED <<rows, header, fetched, denied, form, running, settle, notice, clears>>
  BY DEF L!ReviewAnswer, L!shows, L!timed
<1>2. ~bad' => kind # "lost"
  BY <1>1, CallEnded
<1>3. /\ loading' \in BOOLEAN /\ acting' \in Rows \cup {NoRow} /\ running \in BOOLEAN /\ form \in Forms
      /\ L!Spins
  BY <1>1 DEF ListInv, Plainly, L!Spins
<1>4. ops2 = {} /\ Pending(c) /\ Current' => rows = srv
  BY <1>2 DEF Current
<1> QED
  BY <1>1, <1>3, <1>4, ChangeAnswered

LEMMA DropAnswered ==
  ASSUME ListInv, NEW c, NEW kind \in Kinds, L!DropAnswer(c, kind) PROVE ListInv'
<1>1. /\ list = "incidents" /\ c.op = "put" /\ L!Ends(c, kind) /\ L!Then(c, {})
      /\ UNCHANGED <<rows, header, fetched, loading, denied, acting, form, running, settle, notice, clears>>
  BY DEF L!DropAnswer, L!shows, L!marks, L!timed
<1>2. /\ list' = list
      /\ kind = "ok" => c.stage = "ok"
      /\ ~bad' => ~bad /\ kind # "lost"
      /\ ~refused' => ~refused /\ kind # "refused"
  BY <1>1, CallEnded DEF L!Then, L!Lists
<1>3. /\ loading \in BOOLEAN /\ acting \in Rows \cup {NoRow} /\ running \in BOOLEAN /\ form \in Forms
      /\ ~L!Spins
  BY <1>1 DEF ListInv, Plainly, L!Spins
<1>4. Pending(c) /\ Current' => rows = srv
  BY <1>1, <1>2 DEF Kinds, Pending, ShowsOf, Current
<1>5. fetched /\ Pending(c) => ~running'
  BY <1>1 DEF Pending, MarksOf
<1> QED
  BY <1>1, <1>3, <1>4, <1>5, ChangeAnswered

LEMMA CorrelationAnswered ==
  ASSUME ListInv, NEW c, NEW kind \in Kinds, L!CorrelationAnswer(c, kind) PROVE ListInv'
<1> PICK ops2 \in {{}, {"list"}} : ops2 = IF kind = "lost" THEN {} ELSE {"list"}
  OBVIOUS
<1>1. /\ c.op = "correlate" /\ L!Ends(c, kind) /\ L!Then(c, ops2)
      /\ running' = (IF kind = "lost" THEN FALSE ELSE running)
      /\ UNCHANGED <<rows, header, fetched, loading, denied, acting, form, settle, notice, clears>>
  BY DEF L!CorrelationAnswer, L!shows, L!timed
<1>2. /\ list = "incidents" /\ (~bad' => kind # "lost")
  BY <1>1, CallEnded DEF OpsOn
<1>3. /\ loading \in BOOLEAN /\ acting \in Rows \cup {NoRow} /\ running' \in BOOLEAN /\ form \in Forms
      /\ ~L!Spins
  BY <1>1, <1>2 DEF ListInv, Plainly, L!Spins
<1>4. ops2 = {} /\ Pending(c) /\ Current' => rows = srv
  BY <1>2 DEF Current
<1>5. fetched /\ Pending(c) => (running' <=> ops2 # {})
  BY <1>1, <1>2 DEF Pending, MarksOf
<1> QED
  BY <1>1, <1>2, <1>3, <1>4, <1>5, ChangeAnswered

LEMMA ToggleAnswered ==
  ASSUME ListInv, NEW c, NEW kind \in Kinds, L!ToggleAnswer(c, kind) PROVE ListInv'
<1> PICK ops2 \in {{}, {"list"}} : ops2 = IF kind = "ok" THEN {"list"} ELSE {}
  OBVIOUS
<1>1. /\ list = "assets" /\ c.op = "put" /\ L!Ends(c, kind) /\ L!Then(c, ops2)
      /\ UNCHANGED <<rows, header, fetched, loading, denied, acting, form, running, settle, notice, clears>>
  BY DEF L!ToggleAnswer, L!shows, L!marks, L!timed
<1>2. /\ list' = list
      /\ kind = "refused" => c.stage = "refused"
      /\ ~bad' => ~bad /\ kind # "lost"
  BY <1>1, CallEnded DEF L!Then
<1>3. /\ loading \in BOOLEAN /\ acting \in Rows \cup {NoRow} /\ running \in BOOLEAN /\ form \in Forms
      /\ ~L!Spins
  BY <1>1 DEF ListInv, Plainly, L!Spins
<1>4. ops2 = {} /\ Pending(c) /\ Current' => rows = srv
  BY <1>1, <1>2 DEF Kinds, Pending, ShowsOf, Current
<1> QED
  BY <1>1, <1>3, <1>4, ChangeAnswered

LEMMA ProfileAnswered ==
  ASSUME ListInv, NEW c, NEW kind \in Kinds, L!ProfileAnswer(c, kind) PROVE ListInv'
<1> PICK ops2 \in {{}, {"list"}} : ops2 = IF kind = "ok" THEN {"list"} ELSE {}
  OBVIOUS
<1>1. /\ list = "profile" /\ c.op = "put" /\ L!Ends(c, kind) /\ L!Then(c, ops2)
      /\ form' = (IF kind = "ok" THEN [form EXCEPT !.mode = "closed"] ELSE form)
      /\ UNCHANGED <<rows, header, fetched, loading, denied, acting, running, settle, notice, clears>>
  BY DEF L!ProfileAnswer, L!shows, L!timed
<1>2. /\ list' = list
      /\ kind = "refused" => c.stage = "refused"
      /\ ~bad' => ~bad /\ kind # "lost"
  BY <1>1, CallEnded DEF L!Then
<1>3. /\ loading \in BOOLEAN /\ acting \in Rows \cup {NoRow} /\ running \in BOOLEAN /\ form \in Forms
      /\ ~L!Spins
  BY <1>1 DEF ListInv, Plainly, L!Spins
<1>4. ops2 = {} /\ Pending(c) /\ Current' => rows = srv
  BY <1>1, <1>2 DEF Kinds, Pending, ShowsOf, Current
<1>5. ops2 = {} /\ Pending(c) /\ ~bad' => header = srv
  BY <1>1, <1>2 DEF Kinds, Pending, ShowsOf
<1>6. form' \in Forms
  BY <1>1, <1>3 DEF Forms
<1> QED
  BY <1>1, <1>3, <1>4, <1>5, <1>6, ChangeAnswered

LEMMA AvatarAnswered ==
  ASSUME ListInv, NEW c, NEW kind \in Kinds, L!AvatarAnswer(c, kind) PROVE ListInv'
<1> PICK ops2 \in {{}, {"header"}} : ops2 = IF kind = "ok" THEN {"header"} ELSE {}
  OBVIOUS
<1>1. /\ list = "profile" /\ c.op = "avatar" /\ L!Ends(c, kind) /\ L!Then(c, ops2)
      /\ rows' = (IF kind = "ok" THEN [c.kept EXCEPT ![c.row] = c.val] ELSE rows)
      /\ UNCHANGED <<header, fetched, loading, denied, acting, form, running, settle, notice, clears>>
  BY DEF L!AvatarAnswer, L!marks, L!timed
<1>2. /\ c \in calls /\ c.row \in Rows \cup {NoRow} /\ c.val \in L!Vals /\ c.kept \in Tables
      /\ bad' \in BOOLEAN /\ refused' \in BOOLEAN
      /\ kind = "ok" => c.stage = "ok"
      /\ kind = "refused" => c.stage = "refused"
      /\ ~bad' => ~bad /\ kind # "lost"
  BY <1>1, CallEnded
<1>3. "header" \in OpsOn(list) \ {"rotate"}
  BY <1>1 DEF OpsOn
<1>4. /\ InFlight' /\ overlap' \in BOOLEAN /\ UNCHANGED <<list, srv, ops>>
      /\ ~overlap' => ~overlap
      /\ ops2 = {} => calls' = calls \ {c}
      /\ ops2 = {"header"} => \E q : /\ HasLeft(q, "header", NoRow, 0, L!Absent)
                                     /\ ~overlap' => calls' = {q}
  BY <1>1, <1>2, <1>3, WentOn DEF ListInv
<1>5. Plainly'
  <2>1. rows' \in Tables
    BY <1>1, <1>2 DEF ListInv, Plainly, Tables
  <2> QED
    BY <1>1, <1>2, <1>4, <2>1 DEF ListInv, Plainly
<1>6. ~settle
  BY <1>1 DEF ListInv, Plainly
<1>7. Current' => fetched /\ ~bad /\ Current
  BY <1>1, <1>2 DEF Current
<1>8. CASE ops2 = {}
  <2>1. ASSUME Pending(c) PROVE Idle'
    <3>1. c.stage # "ok" \/ bad'
      BY <1>2, <1>8 DEF Kinds
    <3>2. Current' => rows' = srv' /\ ~bad'
      BY <1>1, <1>4, <1>7, <1>8, <2>1, <3>1 DEF Pending, ShowsOf, Current
    <3>3. ~bad' => header' = srv'
      BY <1>1, <1>2, <1>4, <2>1, <3>1 DEF Pending, ShowsOf
    <3> QED
      BY <1>1, <1>4, <1>6, <3>2, <3>3 DEF Idle, L!Spins
  <2>2. Tidy'
    BY <1>1, <1>2, <1>4, <1>8, <2>1, AnswerTidy
  <2> QED
    BY <1>4, <1>5, <2>2 DEF ListInv
<1>9. CASE ops2 = {"header"}
  <2> PICK q : HasLeft(q, "header", NoRow, 0, L!Absent) /\ (~overlap' => calls' = {q})
    BY <1>4, <1>9
  <2>1. Pending(c) => Pending(q)'
    <3> SUFFICES ASSUME Pending(c) PROVE Pending(q)'
      OBVIOUS
    <3>1. kind = "ok"
      BY <1>9
    <3>2. Current' => rows' = srv'
      BY <1>1, <1>2, <1>4, <1>7, <3>1 DEF Pending, ShowsOf
    <3> QED
      BY <1>1, <1>4, <3>2, HeaderComes
  <2>2. Tidy'
    BY <1>1, <1>2, <1>4, <2>1, AnswerTidy
  <2> QED
    BY <1>4, <1>5, <2>2 DEF ListInv
<1> QED
  BY <1>8, <1>9

\* The loop over the credentials: those it has not asked for are the ones left in kept.
LEMMA SyncAnswered ==
  ASSUME ListInv, NEW c, NEW kind \in Kinds, L!SyncAnswer(c, kind) PROVE ListInv'
<1> PICK left : left = IF kind = "lost" \/ (c.op = "creds" /\ kind = "refused") THEN {}
                       ELSE {r \in Rows : c.kept[r] # 0}
  OBVIOUS
<1>1. /\ list = "settings" /\ c.op \in {"creds", "rotate"} /\ L!Ends(c, kind) /\ L!Next1(c, left)
      /\ UNCHANGED <<list, srv, rows, header, fetched, ops, loading, denied, acting, form, running,
                     notice, clears, overlap>>
  BY DEF L!SyncAnswer, L!Next1, L!shows, L!marks
<1>2. /\ c \in calls /\ c.kept \in Tables /\ bad' \in BOOLEAN /\ refused' \in BOOLEAN
      /\ kind = "ok" => c.stage = "ok"
      /\ kind = "refused" => c.stage = "refused"
      /\ ~bad' => ~bad /\ kind # "lost" /\ (c.op \in L!Lists => kind # "refused")
      /\ ~refused' => ~refused /\ (kind = "refused" => c.op \in L!Lists)
  BY <1>1, CallEnded
<1>3. ~overlap' => ~overlap
  BY <1>1
<1>4. Pending(c) => ~settle /\ running
  BY <1>1 DEF Pending, MarksOf
\* What is not left has been rotated, as long as nothing failed.
<1>5. Pending(c) /\ ~bad' /\ ~refused' => \A r \in Rows : srv[r] = 1 => r \in left
  <2> SUFFICES ASSUME Pending(c), ~bad', ~refused', NEW r \in Rows, srv[r] = 1 PROVE r \in left
    OBVIOUS
  <2>1. /\ kind # "lost" /\ ~bad /\ ~refused /\ "creds" \in L!Lists /\ "rotate" \notin L!Lists
        /\ left = {x \in Rows : c.kept[x] # 0} /\ c.stage = "ok"
    BY <1>1, <1>2 DEF Kinds, L!Lists
  <2>2. CASE c.op = "creds"
    BY <2>1, <2>2 DEF Pending, ShowsOf
  <2>3. CASE c.op = "rotate"
    BY <1>1, <2>1, <2>3 DEF Pending, MarksOf
  <2> QED
    BY <1>1, <2>2, <2>3
<1>6. CASE left = {}
  <2>1. calls' = calls \ {c} /\ settle' = TRUE
    BY <1>1, <1>6 DEF L!Next1
  <2>2. InFlight'
    <3>1. /\ IsFiniteSet(calls \ {c}) /\ Cardinality(calls \ {c}) = Cardinality(calls) - 1
          /\ Cardinality(calls) \in Nat
      BY <1>2, FS_RemoveElement, FS_CardinalityType DEF ListInv, InFlight
    <3>2. IsFiniteSet(calls') /\ Cardinality(calls') <= MaxCalls
      BY <2>1, <3>1, ListBounds DEF ListInv, InFlight
    <3> QED
      BY <1>1, <2>1, <3>2 DEF ListInv, InFlight
  <2>3. Plainly'
    BY <1>1, <1>2, <2>1 DEF ListInv, Plainly
  <2>4. ASSUME Pending(c) PROVE Idle'
    <3>1. ~bad' /\ ~refused' => AllRotated'
      BY <1>1, <1>5, <1>6, <2>4 DEF AllRotated
    <3> QED
      BY <1>1, <1>4, <2>1, <2>4, <3>1 DEF Idle, Current, L!Spins
  <2>5. Tidy'
    BY <1>1, <1>2, <1>3, <2>1, <2>4, AnswerTidy
  <2> QED
    BY <2>2, <2>3, <2>5 DEF ListInv
<1>7. CASE left # {}
  <2> PICK r \in left : /\ UNCHANGED settle
                        /\ calls' = (calls \ {c}) \cup
                             {L!Request("rotate", r, 2, [x \in Rows |-> IF x \in left \ {r} THEN 1 ELSE 0])}
    BY <1>1, <1>7 DEF L!Next1
  <2> PICK kept : kept = [x \in Rows |-> IF x \in left \ {r} THEN 1 ELSE 0]
    OBVIOUS
  <2> PICK q : q = L!Request("rotate", r, 2, kept)
    OBVIOUS
  <2>1. /\ left \subseteq Rows /\ kept \in Tables /\ 2 \in L!Vals /\ "rotate" \in Opers
        /\ \A x \in Rows : kept[x] # 0 <=> x \in left \ {r}
    BY DEF Tables, L!Vals, Opers
  <2>2. HasLeft(q, "rotate", r, 2, kept)
    BY <2>1, Requested DEF ListInv
  <2>3. calls' = (calls \ {c}) \cup {q} /\ (calls = {c} => calls' = {q})
    OBVIOUS
  <2>4. InFlight'
    <3>1. /\ IsFiniteSet(calls \ {c}) /\ Cardinality(calls \ {c}) = Cardinality(calls) - 1
          /\ Cardinality(calls) \in Nat
      BY <1>2, FS_RemoveElement, FS_CardinalityType DEF ListInv, InFlight
    <3>2. /\ IsFiniteSet((calls \ {c}) \cup {q})
          /\ Cardinality((calls \ {c}) \cup {q}) = IF q \in calls \ {c} THEN Cardinality(calls \ {c}) ELSE Cardinality(calls \ {c}) + 1
      BY <3>1, FS_AddElement
    <3>3. IsFiniteSet(calls') /\ Cardinality(calls') <= MaxCalls
      BY <2>3, <3>1, <3>2, ListBounds DEF ListInv, InFlight
    <3>4. q \in Calls /\ q.op \in OpsOn(list) /\ q.val = 2
      BY <1>1, <2>2 DEF HasLeft, OpsOn
    <3> QED
      BY <1>1, <2>3, <3>3, <3>4 DEF ListInv, InFlight
  <2>5. Plainly'
    BY <1>1, <1>2 DEF ListInv, Plainly
  <2>6. Pending(c) => Pending(q)'
    <3> SUFFICES ASSUME Pending(c) PROVE Pending(q)'
      OBVIOUS
    <3>1. ShowsOf(q)'
      BY <1>1, <2>2 DEF ShowsOf, HasLeft, Current
    <3>2. ~bad' /\ ~refused' => \A x \in Rows : srv'[x] = 1 => q.kept[x] # 0 \/ x = q.row
      BY <1>1, <1>5, <2>1, <2>2 DEF HasLeft
    <3>3. MarksOf(q)'
      BY <1>1, <1>4, <2>2, <3>2 DEF MarksOf, HasLeft, L!Spins
    <3> QED
      BY <3>1, <3>3 DEF Pending
  <2>7. Tidy'
    <3>1. ~overlap' => calls = {c}
      BY <1>2, <1>3 DEF ListInv, Tidy
    <3> QED
      BY <1>1, <1>2, <1>3, <2>3, <2>6, <3>1, AnswerTidy
  <2> QED
    BY <2>4, <2>5, <2>7 DEF ListInv
<1> QED
  BY <1>6, <1>7

\* The timers of Settings.
LEMMA TimersFire == ASSUME ListInv, L!Settled \/ L!ClearNotice PROVE ListInv'
<1>1. /\ UNCHANGED <<list, srv, rows, header, fetched, calls, ops, loading, denied, acting, form,
                     overlap, bad, refused>>
      /\ \/ settle /\ settle' = FALSE /\ running' = FALSE /\ notice' = TRUE /\ clears' = clears + 1
         \/ clears > 0 /\ clears' = clears - 1 /\ notice' = FALSE /\ UNCHANGED <<running, settle>>
  BY DEF L!Settled, L!ClearNotice, L!shows, L!marks, L!faultsSeen
<1>2. clears' \in Nat
  BY <1>1 DEF ListInv, Plainly
<1>3. settle => list = "settings"
  BY DEF ListInv, Plainly
<1>4. list # "none"
  BY <1>1 DEF ListInv, Plainly, L!NoList
<1>5. Plainly'
  <2>1. running' \in BOOLEAN /\ settle' \in BOOLEAN /\ notice' \in BOOLEAN
    BY <1>1 DEF ListInv, Plainly
  <2>2. list # "settings" => ~settle' /\ ~notice'
    BY <1>1, <1>3 DEF ListInv, Plainly
  <2> QED
    BY <1>1, <1>2, <1>4, <2>1, <2>2 DEF ListInv, Plainly
<1>6. InFlight'
  BY <1>1 DEF ListInv, InFlight
<1>7. Tidy'
  <2> SUFFICES ASSUME ~overlap PROVE Tidy'
    BY <1>1 DEF Tidy
  <2>1. /\ notice /\ ~bad /\ ~refused => AllRotated
        /\ calls = {} => Idle
        /\ \A c \in calls : calls = {c} /\ Pending(c)
    BY DEF ListInv, Tidy
  <2>2. (Current' <=> Current) /\ (AllRotated' <=> AllRotated) /\ (L!Spins' <=> L!Spins)
    BY <1>1 DEF Current, AllRotated, L!Spins
  <2>3. CASE settle /\ settle' = FALSE /\ running' = FALSE /\ notice' = TRUE
    <3>1. calls = {}
      BY <1>3, <2>1, <2>3 DEF Pending, MarksOf
    <3>2. ~bad /\ ~refused => AllRotated
      BY <2>1, <2>3, <3>1 DEF Idle
    <3>3. Idle'
      BY <1>1, <1>3, <2>1, <2>2, <2>3, <3>1 DEF Idle
    <3> QED
      BY <1>1, <2>2, <3>1, <3>2, <3>3 DEF Tidy
  <2>4. CASE notice' = FALSE /\ UNCHANGED <<running, settle>>
    <3>1. Idle => Idle'
      BY <1>1, <2>2, <2>4 DEF Idle
    <3>2. ASSUME NEW c \in calls PROVE Pending(c)'
      <4>1. Pending(c) /\ (Moved(c)' <=> Moved(c))
        BY <1>1, <2>1 DEF Moved
      <4>2. ShowsOf(c)'
        BY <1>1, <2>2, <4>1 DEF Pending, ShowsOf
      <4>3. MarksOf(c)'
        BY <1>1, <2>2, <2>4, <4>1 DEF Pending, MarksOf
      <4> QED
        BY <4>2, <4>3 DEF Pending
    <3> QED
      BY <1>1, <2>1, <2>4, <3>1, <3>2 DEF Tidy
  <2> QED
    BY <1>1, <2>3, <2>4
<1> QED
  BY <1>5, <1>6, <1>7 DEF ListInv

LEMMA ListKept == ASSUME ListInv, UNCHANGED listVars PROVE ListInv'
<1>1. CASE list = "none"
  <2>1. L!NoList
    BY <1>1 DEF ListInv, Plainly
  <2> QED
    BY <1>1, <2>1, ListCleared DEF L!NoList, L!ClearList, listVars
<1>2. CASE list # "none"
  <2>1. FormOnly
    BY <1>2 DEF FormOnly, listVars, ListInv, Plainly
  <2> QED
    BY <2>1, FormEdited
<1> QED
  BY <1>1, <1>2

LEMMA ListWorks == ASSUME ListInv, list # "none", L!LNext PROVE ListInv'
<1>1. CASE L!ListOps
  BY <1>1, Edits, FormEdited, Sends DEF L!ListOps
<1>2. CASE L!Settled \/ L!ClearNotice
  BY <1>2, TimersFire
<1>3. ASSUME NEW c \in calls, L!Serve(c) PROVE ListInv'
  BY <1>3, Served
<1>4. ASSUME NEW c \in calls, NEW kind \in {"ok", "refused", "lost"}, L!Handled(c, kind)
      PROVE  ListInv'
  <2>1. kind \in Kinds
    BY DEF Kinds
  <2>2. CASE L!ListAnswer(c, kind) \/ L!HeaderAnswer(c, kind) \/ L!SeedAnswer(c, kind)
    BY <2>1, <2>2, ListAnswered, HeaderAnswered, SeedAnswered
  <2>3. CASE L!UserAnswer(c, kind) \/ L!ReviewAnswer(c, kind) \/ L!DropAnswer(c, kind)
    BY <2>1, <2>3, UserAnswered, ReviewAnswered, DropAnswered
  <2>4. CASE L!CorrelationAnswer(c, kind) \/ L!ToggleAnswer(c, kind) \/ L!ProfileAnswer(c, kind)
    BY <2>1, <2>4, CorrelationAnswered, ToggleAnswered, ProfileAnswered
  <2>5. CASE L!AvatarAnswer(c, kind) \/ L!SyncAnswer(c, kind)
    BY <2>1, <2>5, AvatarAnswered, SyncAnswered
  <2> QED
    BY <1>4, <2>2, <2>3, <2>4, <2>5 DEF L!Handled
<1> QED
  BY <1>1, <1>2, <1>3, <1>4 DEF L!LNext, L!ListWork

LEMMA ListShows == ASSUME ListInv PROVE ListFits
<1>1. L!LTypeOK
  <2>1. \A c \in calls : c.n \in 1..(MaxCalls + 1) /\ c.stage \in {"sent", "ok", "refused"}
                         /\ c.row \in Rows \cup {NoRow} /\ c.kept \in Tables
    BY DEF ListInv, InFlight, Calls
  <2>2. {fetched, loading, denied, running, settle, notice, overlap, bad, refused} \subseteq BOOLEAN
    BY DEF ListInv, Plainly
  <2> QED
    BY <2>1, <2>2 DEF ListInv, Plainly, L!LTypeOK, Tables, Forms
<1>2. L!ListFits
  <2> SUFFICES ASSUME ~overlap PROVE L!ListFits
    BY DEF L!ListFits
  <2>1. /\ notice /\ ~bad /\ ~refused => AllRotated
        /\ calls = {} => Idle
        /\ \A c \in calls : calls = {c} /\ Pending(c)
    BY DEF ListInv, Tidy
  <2>2. CASE calls = {}
    <3>1. \A kinds : ~L!Waiting(kinds)
      BY <2>2 DEF L!Waiting
    <3> QED
      BY <2>1, <2>2, <3>1 DEF Idle, Current, AllRotated, L!ListFits
  <2>3. ASSUME NEW c \in calls PROVE L!ListFits
    <3>1. calls = {c} /\ calls # {} /\ Pending(c)
      BY <2>1
    <3>2. \A kinds : L!Waiting(kinds) <=> c.op \in kinds
      BY <3>1 DEF L!Waiting
    <3> QED
      BY <2>1, <3>1, <3>2 DEF Pending, MarksOf, AllRotated, L!ListFits
  <2> QED
    BY <2>2, <2>3
<1> QED
  BY <1>1, <1>2 DEF ListFits

\* Unless requests overlapped, a page at rest shows what the server holds, and so does
\* the Header beside the profile; spinners and busy marks are there exactly while their
\* requests are; and "all rotated" is true when no rotation failed.  (UserManagement,
\* IAMAccessReview, Incidents, Assets, ThreatIntel, Profile and Settings over any rows
\* and any number of requests.)
THEOREM ListsHold == Spec => []ListFits
<1>1. Init => ListInv
  BY ListIdle DEF Init
<1>2. ListInv /\ [Next]_vars => ListInv'
  <2> SUFFICES ASSUME ListInv, [Next]_vars PROVE ListInv'
    OBVIOUS
  <2>1. (role \in Admins) \in BOOLEAN
    OBVIOUS
  <2>2. ASSUME NEW p \in L!Pages, L!MountList(p, role \in Admins) PROVE ListInv'
    BY <2>1, <2>2, ListMounted
  <2> QED
    BY <2>2, ListStep, ListCleared, ListKept, ListWorks
<1>3. ListInv => ListFits
  BY ListShows
<1> QED
  BY <1>1, <1>2, <1>3, PTL DEF Spec

----------------------------------------------------------------------------
(***************************************************************************
 The map.  Its filter and its bundling read a sequence from left to right: what
 they return is shown by induction on the elements read, for a set in place of a
 predicate.
 ***************************************************************************)
Less == {p \in Nat \X Nat : p[1] < p[2]}

LEMMA Smallest ==
  ASSUME NEW T \in SUBSET Nat, T # {}
  PROVE  \E x \in T : \A y \in T : x <= y
<1>1. IsWellFoundedOn(Less, Nat)
  BY NatLessThanWellFounded, Zenon DEF OpToRel, Less
<1>2. PICK x \in T : \A y \in T : ~(<<y, x>> \in Less)
  BY <1>1, WFMin
<1>3. ASSUME NEW y \in T PROVE x <= y
  <2>1. <<y, x>> \in Nat \X Nat
    OBVIOUS
  <2> QED
    BY <1>2, <2>1 DEF Less
<1> QED
  BY <1>2, <1>3

LEMMA Induction ==
  ASSUME NEW T, 0 \in T, \A n \in Nat : n \in T => n + 1 \in T
  PROVE  Nat \subseteq T
<1> SUFFICES ASSUME Nat \ T # {} PROVE FALSE
  OBVIOUS
<1>1. PICK x \in Nat \ T : \A y \in Nat \ T : x <= y
  BY Smallest
<1>2. x # 0 /\ x - 1 \in Nat
  BY <1>1
<1> QED
  BY <1>1, <1>2

\* Induction up to n.
LEMMA Steps ==
  ASSUME NEW n \in Nat, NEW T, 0 \in T, \A i \in 1..n : i - 1 \in T => i \in T
  PROVE  0..n \subseteq T
<1> DEFINE U == {i \in Nat : i <= n => i \in T}
<1>1. 0 \in U
  OBVIOUS
<1>2. ASSUME NEW i \in Nat, i \in U PROVE i + 1 \in U
  <2>1. CASE i + 1 <= n
    <3>1. i + 1 \in 1..n /\ (i + 1) - 1 = i /\ i \in T
      BY <1>2, <2>1
    <3> QED
      BY <3>1
  <2> QED
    BY <2>1
<1>3. Nat \subseteq U
  BY <1>1, <1>2, Induction
<1> QED
  BY <1>3

\* A function defined by its value at 0 and by a step.
IsStep(step, X, n) == step \in [X \X (1..n) -> X]
IsRun(f, X, base, step, n) ==
  /\ f \in [0..n -> X] /\ f[0] = base
  /\ \A i \in 1..n : f[i] = step[<<f[i - 1], i>>]

LEMMA Recursion ==
  ASSUME NEW X, NEW base \in X, NEW n \in Nat, NEW step, IsStep(step, X, n)
  PROVE  \E f : IsRun(f, X, base, step, n)
<1>s. step \in [X \X (1..n) -> X]
  BY DEF IsStep
<1> DEFINE Runs(f, m) == /\ f = [i \in 0..m |-> f[i]] /\ f[0] = base
                         /\ \A i \in 0..m : f[i] \in X
                         /\ \A i \in 1..m : f[i] = step[<<f[i - 1], i>>]
           T == {m \in 0..n : \E f : Runs(f, m)}
<1>1. 0 \in T
  <2> DEFINE g == [i \in 0..0 |-> base]
  <2>1. g = [i \in 0..0 |-> g[i]] /\ g[0] = base /\ \A i \in 0..0 : g[i] \in X
    OBVIOUS
  <2>2. \A i \in 1..0 : g[i] = step[<<g[i - 1], i>>]
    OBVIOUS
  <2>3. Runs(g, 0)
    BY <2>1, <2>2
  <2> HIDE DEF g, Runs
  <2> QED
    BY <2>3
<1>2. ASSUME NEW m \in 1..n, m - 1 \in T PROVE m \in T
  <2>1. PICK f : Runs(f, m - 1)
    BY <1>2
  <2> DEFINE v == step[<<f[m - 1], m>>]
             g == [i \in 0..m |-> IF i = m THEN v ELSE f[i]]
  <2>2. f[m - 1] \in X /\ v \in X
    <3>1. m - 1 \in 0..(m - 1)
      OBVIOUS
    <3> QED
      BY <2>1, <3>1, <1>s
  <2>3. /\ g = [i \in 0..m |-> g[i]] /\ g[m] = v
        /\ \A i \in 0..(m - 1) : g[i] = f[i]
    OBVIOUS
  <2> HIDE DEF g
  <2>4. g[0] = base
    <3>1. 0 \in 0..(m - 1)
      OBVIOUS
    <3> QED
      BY <2>1, <2>3, <3>1
  <2>5. ASSUME NEW i \in 0..m PROVE g[i] \in X
    <3>1. i = m \/ i \in 0..(m - 1)
      OBVIOUS
    <3> QED
      BY <2>1, <2>2, <2>3, <3>1
  <2>6. ASSUME NEW i \in 1..m PROVE g[i] = step[<<g[i - 1], i>>]
    <3>1. CASE i = m
      <4>1. m - 1 \in 0..(m - 1)
        OBVIOUS
      <4> QED
        BY <2>3, <3>1, <4>1
    <3>2. CASE i # m
      <4>1. i \in 1..(m - 1) /\ i \in 0..(m - 1) /\ i - 1 \in 0..(m - 1)
        BY <3>2
      <4>2. f[i] = step[<<f[i - 1], i>>]
        BY <2>1, <4>1
      <4> QED
        BY <2>3, <4>1, <4>2
    <3> QED
      BY <3>1, <3>2
  <2>7. Runs(g, m)
    BY <2>3, <2>4, <2>5, <2>6
  <2> HIDE DEF Runs
  <2> QED
    BY <2>7
<1>3. n \in T
  <2> HIDE DEF T
  <2>1. 0..n \subseteq T
    BY <1>1, <1>2, Steps
  <2> QED
    BY <2>1
<1>4. PICK f : Runs(f, n)
  BY <1>3
<1>5. f \in [0..n -> X]
  BY <1>4
<1> QED
  BY <1>4, <1>5 DEF IsRun

Events == [id : Ids, got : 0..MaxTime]

\* No event of w is older at time t than its time allows.
Within(w, t) == \A j \in 1..Len(w) : t - w[j].got <= TTL

\* w holds elements of the first n of q, each at most once, that are within their time.
Taken(w, q, n) ==
  /\ w \in Seq(Events) /\ Within(w, now)
  /\ \E h \in [1..Len(w) -> 1..n] :
       /\ \A j \in 1..Len(w) : w[j] = q[h[j]]
       /\ \A j, k \in 1..Len(w) : h[j] = h[k] => j = k

LEMMA TakenMore ==
  ASSUME NEW q \in Seq(Events), NEW n \in 1..Len(q), NEW w, Taken(w, q, n - 1)
  PROVE  Taken(w, q, n) /\ (now - q[n].got <= TTL => Taken(Append(w, q[n]), q, n))
<1>1. PICK h \in [1..Len(w) -> 1..(n - 1)] :
        /\ \A j \in 1..Len(w) : w[j] = q[h[j]]
        /\ \A j, k \in 1..Len(w) : h[j] = h[k] => j = k
  BY DEF Taken
<1>2. w \in Seq(Events) /\ Len(w) \in Nat /\ q[n] \in Events
  BY DEF Taken
<1>3. \A j \in 1..Len(w) : h[j] \in 1..n /\ h[j] # n
  OBVIOUS
<1>4. Taken(w, q, n)
  <2>1. h \in [1..Len(w) -> 1..n]
    BY <1>3
  <2> QED
    BY <1>1, <1>2, <2>1 DEF Taken
<1> DEFINE u == Append(w, q[n])
           g == [j \in 1..(Len(w) + 1) |-> IF j = Len(w) + 1 THEN n ELSE h[j]]
<1>5. /\ u \in Seq(Events) /\ Len(u) = Len(w) + 1 /\ u[Len(w) + 1] = q[n]
      /\ \A j \in 1..Len(w) : u[j] = w[j]
  BY <1>2
<1>6. /\ g[Len(w) + 1] = n /\ \A j \in 1..Len(w) : g[j] = h[j]
      /\ g \in [1..(Len(w) + 1) -> 1..n]
  BY <1>2, <1>3
<1> HIDE DEF g, u
<1>7. \A j \in 1..Len(u) : j = Len(w) + 1 \/ j \in 1..Len(w)
  BY <1>2, <1>5
<1>8. \A j \in 1..Len(u) : u[j] = q[g[j]]
  BY <1>1, <1>5, <1>6, <1>7
<1>9. \A j, k \in 1..Len(u) : g[j] = g[k] => j = k
  BY <1>1, <1>3, <1>6, <1>7
<1>10. now - q[n].got <= TTL => Within(u, now)
  BY <1>5, <1>7 DEF Taken, Within
<1>11. now - q[n].got <= TTL => Taken(u, q, n)
  BY <1>5, <1>6, <1>8, <1>9, <1>10 DEF Taken
<1> QED
  BY <1>4, <1>11 DEF u

LEMMA FreshReads ==
  ASSUME NEW q \in Seq(Events)
  PROVE  \E f : /\ f[0] = << >> /\ M!Fresh(q) = f[Len(q)]
                /\ \A n \in 1..Len(q) : f[n] = IF now - q[n].got <= TTL
                                               THEN Append(f[n - 1], q[n]) ELSE f[n - 1]
<1> DEFINE Body(f, n) == IF n = 0 THEN << >>
                         ELSE IF now - q[n].got <= TTL THEN Append(f[n - 1], q[n]) ELSE f[n - 1]
           Solves(f) == f = [n \in 0..Len(q) |-> Body(f, n)]
           kept == CHOOSE f : Solves(f)
           step == [p \in Seq(Events) \X (1..Len(q)) |->
                      IF now - q[p[2]].got <= TTL THEN Append(p[1], q[p[2]]) ELSE p[1]]
<1>1. \E f : Solves(f)
  <2>1. step \in [Seq(Events) \X (1..Len(q)) -> Seq(Events)]
    <3>1. ASSUME NEW w \in Seq(Events), NEW n \in 1..Len(q)
          PROVE  Append(w, q[n]) \in Seq(Events)
      OBVIOUS
    <3> QED
      BY <3>1
  <2>2. \A w \in Seq(Events), n \in 1..Len(q) :
          step[<<w, n>>] = IF now - q[n].got <= TTL THEN Append(w, q[n]) ELSE w
    OBVIOUS
  <2> HIDE DEF step
  <2>3. << >> \in Seq(Events) /\ Len(q) \in Nat
    OBVIOUS
  <2>4. PICK f \in [0..Len(q) -> Seq(Events)] :
          f[0] = << >> /\ \A i \in 1..Len(q) : f[i] = step[<<f[i - 1], i>>]
    <3> DEFINE X == Seq(Events)
               m == Len(q)
               base == << >>
    <3>1. base \in X /\ m \in Nat /\ IsStep(step, X, m)
      BY <2>1, <2>3 DEF IsStep
    <3> HIDE DEF X, m, base
    <3>2. \E f : IsRun(f, X, base, step, m)
      BY <3>1, Recursion
    <3> QED
      BY <3>2 DEF IsRun, X, m, base
  <2>5. ASSUME NEW n \in 0..Len(q) PROVE f[n] = Body(f, n)
    <3>1. n = 0 \/ n \in 1..Len(q)
      OBVIOUS
    <3>2. n \in 1..Len(q) => n - 1 \in 0..Len(q) /\ f[n - 1] \in Seq(Events)
      OBVIOUS
    <3> QED
      BY <2>2, <2>4, <3>1, <3>2
  <2> HIDE DEF Body
  <2>6. Solves(f)
    BY <2>4, <2>5
  <2> QED
    BY <2>6
<1>2. Solves(kept)
  BY <1>1
<1>3. M!Fresh(q) = kept[Len(q)]
  BY DEF M!Fresh
<1> HIDE DEF kept
<1>4. \A n \in 0..Len(q) : kept[n] = Body(kept, n)
  <2> HIDE DEF Body
  <2> QED
    BY <1>2
<1>5. kept[0] = << >>
  BY <1>4
<1>6. \A n \in 1..Len(q) : kept[n] = IF now - q[n].got <= TTL
                                     THEN Append(kept[n - 1], q[n]) ELSE kept[n - 1]
  BY <1>4
<1> HIDE DEF Solves
<1> QED
  BY <1>3, <1>5, <1>6

LEMMA FreshTaken == ASSUME NEW q \in Seq(Events) PROVE Taken(M!Fresh(q), q, Len(q))
<1>1. PICK f : /\ f[0] = << >> /\ M!Fresh(q) = f[Len(q)]
               /\ \A n \in 1..Len(q) : f[n] = IF now - q[n].got <= TTL
                                              THEN Append(f[n - 1], q[n]) ELSE f[n - 1]
  BY FreshReads
<1> DEFINE T == {n \in 0..Len(q) : Taken(f[n], q, n)}
<1>2. 0 \in T
  <2> DEFINE h == [j \in 1..0 |-> 0]
  <2>1. /\ h \in [1..Len(<< >>) -> 1..0] /\ << >> \in Seq(Events)
        /\ \A j \in 1..Len(<< >>) : FALSE
    OBVIOUS
  <2> HIDE DEF h
  <2>2. Taken(<< >>, q, 0)
    BY <2>1 DEF Taken, Within
  <2> QED
    BY <1>1, <2>2
<1>3. ASSUME NEW n \in 1..Len(q), n - 1 \in T PROVE n \in T
  <2>1. Taken(f[n - 1], q, n - 1)
    BY <1>3
  <2>2. Taken(f[n - 1], q, n) /\ (now - q[n].got <= TTL => Taken(Append(f[n - 1], q[n]), q, n))
    BY <2>1, TakenMore
  <2> QED
    BY <1>1, <2>2
<1>4. Len(q) \in T
  <2> HIDE DEF T
  <2>1. Len(q) \in Nat
    OBVIOUS
  <2>2. 0..Len(q) \subseteq T
    BY <1>2, <1>3, <2>1, Steps
  <2> QED
    BY <2>1, <2>2
<1> QED
  BY <1>1, <1>4

----------------------------------------------------------------------------
\* The bundling.

Keys == {M!KeyOf(e) : e \in Events}
Types == {Shape[e.id].type : e \in Events}
Bundles == [key : Keys, type : Types, count : Nat, got : Nat]

LEMMA MapCard == \A S : M!Cardinality(S) = Cardinality(S)
  BY DEF M!Cardinality, Cardinality

LEMMA MapBounds ==
  /\ MaxBatch \in Nat /\ StoreCap \in Nat /\ 1 <= StoreCap /\ LayoutCap \in Nat /\ DashCap \in Nat
  /\ TTL \in Nat /\ TopN \in Nat /\ ChartBuckets \in Nat
  /\ MaxTime \in Nat /\ 1 <= MaxTime /\ MaxJobs \in Nat /\ 1 <= MaxJobs
  BY MapAssumption

LEMMA Received ==
  ASSUME NEW e \in Events, NEW t \in Nat
  PROVE  /\ M!ReceivedAt(e, t) \in Nat /\ e.got <= M!ReceivedAt(e, t)
         /\ M!ReceivedAt(e, t) = e.got \/ e.got = 0
  BY MapBounds DEF Events, M!ReceivedAt

\* What the first n elements of q have for the bundle of key k.
Mine(k, q, ls, v, n) == {i \in 1..n : M!Kept(q[i], ls, v) /\ M!KeyOf(q[i]) = k}

Stands(a, q, ls, v, t, n) ==
  /\ Mine(a.key, q, ls, v, n) # {}
  /\ a.count = Cardinality(Mine(a.key, q, ls, v, n))
  /\ \A i \in Mine(a.key, q, ls, v, n) : M!ReceivedAt(q[i], t) <= a.got
  /\ \E i \in Mine(a.key, q, ls, v, n) : M!ReceivedAt(q[i], t) = a.got

Bundled(as, q, ls, v, t, n) ==
  /\ as \in SUBSET Bundles
  /\ \A a, b \in as : a.key = b.key => a = b
  /\ \A i \in 1..n : M!Kept(q[i], ls, v) => \E a \in as : a.key = M!KeyOf(q[i])
  /\ \A a \in as : Stands(a, q, ls, v, t, n)

LEMMA MineFinite ==
  ASSUME NEW k, NEW q, NEW ls, NEW v, NEW n \in Nat
  PROVE  /\ IsFiniteSet(Mine(k, q, ls, v, n)) /\ Cardinality(Mine(k, q, ls, v, n)) \in Nat
<1>1. IsFiniteSet(1..n)
  BY FS_Interval
<1>2. Mine(k, q, ls, v, n) \in SUBSET (1..n)
  BY DEF Mine
<1> QED
  BY <1>1, <1>2, FS_Subset, FS_CardinalityType

LEMMA MineOthers ==
  ASSUME NEW k, NEW q, NEW ls, NEW v, NEW n \in Nat \ {0},
         ~(M!Kept(q[n], ls, v) /\ M!KeyOf(q[n]) = k)
  PROVE  Mine(k, q, ls, v, n) = Mine(k, q, ls, v, n - 1)
<1>1. 1..n = 1..(n - 1) \cup {n}
  OBVIOUS
<1> QED
  BY <1>1 DEF Mine

\* A bundle of another key stays as it is.
LEMMA StandsStill ==
  ASSUME NEW a, NEW q, NEW ls, NEW v, NEW t, NEW n \in Nat \ {0},
         Stands(a, q, ls, v, t, n - 1), ~(M!Kept(q[n], ls, v) /\ M!KeyOf(q[n]) = a.key)
  PROVE  Stands(a, q, ls, v, t, n)
  BY MineOthers DEF Stands

\* What becomes of a set of bundles: a new one, or one more event for the only one.
Begun(as, e, t, b) ==
  /\ b \in Bundles /\ M!AddEvent(as, e, t) = as \cup {b}
  /\ b.key = M!KeyOf(e) /\ b.count = 1 /\ b.got = M!ReceivedAt(e, t)
Joined(as, e, t, a, b) ==
  /\ b \in Bundles /\ M!AddEvent(as, e, t) = (as \ {a}) \cup {b}
  /\ b.key = a.key /\ b.count = a.count + 1
  /\ b.got = IF M!ReceivedAt(e, t) > a.got THEN M!ReceivedAt(e, t) ELSE a.got

LEMMA AddTyped ==
  ASSUME NEW as \in SUBSET Bundles, NEW e \in Events, NEW t \in Nat
  PROVE  /\ M!AddEvent(as, e, t) \in SUBSET Bundles
         /\ (\A a \in as : a.key # M!KeyOf(e)) => \E b : Begun(as, e, t, b)
         /\ \A a \in as : a.key = M!KeyOf(e) /\ (\A b \in as : b.key = a.key => b = a) =>
              \E b : Joined(as, e, t, a, b)
<1> DEFINE same == {a \in as : a.key = M!KeyOf(e)}
           r == M!ReceivedAt(e, t)
           new == [key |-> M!KeyOf(e), type |-> Shape[e.id].type, count |-> 1, got |-> r]
           one == CHOOSE b \in same : TRUE
           more == [one EXCEPT !.count = @ + 1, !.got = IF r > @ THEN r ELSE @]
<1>1. M!AddEvent(as, e, t) = IF same = {} THEN as \cup {new} ELSE (as \ same) \cup {more}
  BY DEF M!AddEvent
<1>2. r \in Nat /\ M!KeyOf(e) \in Keys /\ Shape[e.id].type \in Types
  BY Received DEF Keys, Types
<1>3. new \in Bundles /\ new.key = M!KeyOf(e) /\ new.count = 1 /\ new.got = r
  BY <1>2 DEF Bundles
<1>4. CASE same = {}
  <2>1. M!AddEvent(as, e, t) = as \cup {new}
    BY <1>1, <1>4
  <2>2. Begun(as, e, t, new)
    BY <1>3, <2>1 DEF Begun
  <2>3. M!AddEvent(as, e, t) \in SUBSET Bundles
    <3> HIDE DEF new
    <3> QED
      BY <1>3, <2>1
  <2> QED
    BY <1>4, <2>2, <2>3
<1>5. CASE same # {}
  <2>1. one \in same /\ one \in Bundles
    BY <1>5
  <2>2. /\ more \in Bundles /\ more.key = one.key /\ more.count = one.count + 1
        /\ more.got = IF r > one.got THEN r ELSE one.got
    <3> HIDE DEF one, r
    <3>1. one \in [key : Keys, type : Types, count : Nat, got : Nat]
      BY <2>1 DEF Bundles
    <3>2. more = [key |-> one.key, type |-> one.type, count |-> one.count + 1,
                  got |-> IF r > one.got THEN r ELSE one.got]
      <4> DEFINE c == one.count + 1
                 g == IF r > one.got THEN r ELSE one.got
      <4>1. more = [one EXCEPT !.count = c, !.got = g]
        OBVIOUS
      <4> HIDE DEF c, g, more
      <4> QED
        BY <3>1, <4>1 DEF c, g
    <3>3. /\ one.key \in Keys /\ one.type \in Types /\ one.count + 1 \in Nat
          /\ (IF r > one.got THEN r ELSE one.got) \in Nat
      BY <1>2, <3>1
    <3> HIDE DEF more
    <3> QED
      BY <3>2, <3>3 DEF Bundles
  <2>3. M!AddEvent(as, e, t) = (as \ same) \cup {more}
    BY <1>1, <1>5
  <2>4. ASSUME NEW a \in as, a.key = M!KeyOf(e), \A b \in as : b.key = a.key => b = a
        PROVE  same = {a} /\ one = a
    <3>1. same = {a}
      BY <2>4
    <3> QED
      BY <2>1, <3>1
  <2> HIDE DEF one, more, r
  <2>5. \A a \in as : a.key = M!KeyOf(e) /\ (\A b \in as : b.key = a.key => b = a) =>
          /\ M!AddEvent(as, e, t) = (as \ {a}) \cup {more}
          /\ more.key = a.key /\ more.count = a.count + 1
          /\ more.got = IF r > a.got THEN r ELSE a.got
    <3> HIDE DEF same
    <3> QED
      BY <2>2, <2>3, <2>4
  <2>6. \A a \in as : a.key = M!KeyOf(e) /\ (\A b \in as : b.key = a.key => b = a) =>
          Joined(as, e, t, a, more)
    BY <2>2, <2>5 DEF Joined, r
  <2>7. M!AddEvent(as, e, t) \in SUBSET Bundles
    BY <2>2, <2>3
  <2> QED
    BY <1>5, <2>6, <2>7
<1> QED
  BY <1>4, <1>5

LEMMA BundledMore ==
  ASSUME NEW q \in Seq(Events), NEW ls, NEW v, NEW t \in Nat, NEW n \in 1..Len(q),
         NEW as, Bundled(as, q, ls, v, t, n - 1)
  PROVE  IF M!Kept(q[n], ls, v) THEN Bundled(M!AddEvent(as, q[n], t), q, ls, v, t, n)
                                ELSE Bundled(as, q, ls, v, t, n)
<1> DEFINE e == q[n]
           k == M!KeyOf(e)
<1>1. e \in Events /\ n \in Nat \ {0} /\ n - 1 \in Nat
  OBVIOUS
<1>2. \A i \in 1..n : i = n \/ i \in 1..(n - 1)
  OBVIOUS
<1>3. /\ as \in SUBSET Bundles
      /\ \A a, b \in as : a.key = b.key => a = b
      /\ \A i \in 1..(n - 1) : M!Kept(q[i], ls, v) => \E a \in as : a.key = M!KeyOf(q[i])
      /\ \A a \in as : Stands(a, q, ls, v, t, n - 1)
  BY DEF Bundled
<1>7. 1..n = 1..(n - 1) \cup {n} /\ n \notin 1..(n - 1)
  OBVIOUS
<1>4. CASE ~M!Kept(e, ls, v)
  <2>1. \A a \in as : Stands(a, q, ls, v, t, n)
    BY <1>1, <1>3, <1>4, StandsStill
  <2> QED
    BY <1>2, <1>3, <1>4, <2>1 DEF Bundled
<1>5. CASE M!Kept(e, ls, v) /\ \A a \in as : a.key # k
  <2>0. PICK b : Begun(as, e, t, b)
    BY <1>1, <1>3, <1>5, AddTyped
  <2>1. /\ b \in Bundles /\ M!AddEvent(as, e, t) = as \cup {b}
        /\ b.key = k /\ b.count = 1 /\ b.got = M!ReceivedAt(e, t)
    BY <2>0 DEF Begun
  <2>2. Mine(k, q, ls, v, n - 1) = {}
    BY <1>3, <1>5 DEF Mine
  <2>3. Mine(k, q, ls, v, n) = {n} /\ Cardinality(Mine(k, q, ls, v, n)) = 1
    <3>2. Mine(k, q, ls, v, n) = Mine(k, q, ls, v, n - 1) \cup {n}
      BY <1>5, <1>7 DEF Mine
    <3> HIDE DEF e, k
    <3>3. Mine(k, q, ls, v, n) = {n}
      BY <2>2, <3>2
    <3> QED
      BY <3>3, FS_Singleton
  <2>4. Stands(b, q, ls, v, t, n)
    <3>1. M!ReceivedAt(e, t) \in Nat
      BY <1>1, Received
    <3> QED
      BY <2>1, <2>3, <3>1 DEF Stands
  <2>5. \A a \in as : Stands(a, q, ls, v, t, n)
    BY <1>1, <1>3, <1>5, StandsStill
  <2> HIDE DEF e, k
  <2>6. Bundled(as \cup {b}, q, ls, v, t, n)
    BY <1>2, <1>3, <1>5, <2>1, <2>4, <2>5 DEF Bundled, e, k
  <2> QED
    BY <1>5, <2>1, <2>6 DEF e, k
<1>6. CASE M!Kept(e, ls, v) /\ \E a \in as : a.key = k
  <2>1. PICK a \in as : a.key = k
    BY <1>6
  <2>2. \A b \in as : b.key = a.key => b = a
    BY <1>3
  <2>0. PICK b : Joined(as, e, t, a, b)
    BY <1>1, <1>3, <2>1, <2>2, AddTyped
  <2>3. /\ b \in Bundles /\ M!AddEvent(as, e, t) = (as \ {a}) \cup {b}
        /\ b.key = a.key /\ b.count = a.count + 1
        /\ b.got = IF M!ReceivedAt(e, t) > a.got THEN M!ReceivedAt(e, t) ELSE a.got
    BY <2>0 DEF Joined
  <2>4. /\ Mine(k, q, ls, v, n) = Mine(k, q, ls, v, n - 1) \cup {n}
        /\ Cardinality(Mine(k, q, ls, v, n)) = Cardinality(Mine(k, q, ls, v, n - 1)) + 1
    <3> DEFINE S == Mine(k, q, ls, v, n - 1)
    <3>1. Mine(k, q, ls, v, n) = S \cup {n}
      BY <1>6, <1>7 DEF Mine
    <3>2. n \notin S
      BY <1>7 DEF Mine
    <3>3. IsFiniteSet(S)
      BY <1>1, MineFinite
    <3> HIDE DEF S
    <3>4. Cardinality(Mine(k, q, ls, v, n)) = Cardinality(S) + 1
      BY <3>1, <3>2, <3>3, FS_AddElement
    <3> QED
      BY <3>1, <3>4 DEF S
  <2>5. Stands(b, q, ls, v, t, n)
    <3>1. M!ReceivedAt(e, t) \in Nat /\ a.got \in Nat
      BY <1>1, <1>3, Received DEF Bundles
    <3>2. \A i \in Mine(k, q, ls, v, n - 1) : M!ReceivedAt(q[i], t) \in Nat
      <4>1. \A i \in Mine(k, q, ls, v, n - 1) : q[i] \in Events
        BY DEF Mine
      <4> QED
        BY <4>1, Received
    <3>3. Stands(a, q, ls, v, t, n - 1)
      BY <1>3
    <3>4. \A i \in Mine(k, q, ls, v, n) : M!ReceivedAt(q[i], t) <= b.got
      BY <2>1, <2>3, <2>4, <3>1, <3>2, <3>3 DEF Stands
    <3>5. \E i \in Mine(k, q, ls, v, n) : M!ReceivedAt(q[i], t) = b.got
      BY <2>1, <2>3, <2>4, <3>1, <3>2, <3>3 DEF Stands
    <3>6. b.count = Cardinality(Mine(k, q, ls, v, n)) /\ Mine(k, q, ls, v, n) # {}
      BY <2>1, <2>3, <2>4, <3>3 DEF Stands
    <3> QED
      BY <2>1, <2>3, <3>4, <3>5, <3>6 DEF Stands
  <2>6. \A c \in as \ {a} : Stands(c, q, ls, v, t, n)
    <3>1. \A c \in as \ {a} : c.key # k
      BY <2>1, <2>2
    <3> QED
      BY <1>1, <1>3, <3>1, StandsStill
  <2> HIDE DEF e, k
  <2>7. \A i \in 1..n : M!Kept(q[i], ls, v) =>
          \E c \in (as \ {a}) \cup {b} : c.key = M!KeyOf(q[i])
    BY <1>2, <1>3, <2>1, <2>3 DEF e, k
  <2>8. Bundled((as \ {a}) \cup {b}, q, ls, v, t, n)
    BY <1>3, <2>1, <2>2, <2>3, <2>5, <2>6, <2>7 DEF Bundled
  <2> QED
    BY <1>6, <2>3, <2>8 DEF e, k
<1> QED
  BY <1>4, <1>5, <1>6

Answer(q, ls, v, t) == M!Process([events |-> q, layers |-> ls, view |-> v], t)

ReadsOff(f, q, ls, v, t) ==
  /\ f[0] = {} /\ Answer(q, ls, v, t) = f[Len(q)]
  /\ \A n \in 1..Len(q) : f[n] = IF M!Kept(q[n], ls, v)
                                 THEN M!AddEvent(f[n - 1], q[n], t) ELSE f[n - 1]

LEMMA ProcessReads ==
  ASSUME NEW q \in Seq(Events), NEW ls, NEW v, NEW t \in Nat
  PROVE  \E f : ReadsOff(f, q, ls, v, t)
<1> DEFINE Body(f, n) == IF n = 0 THEN {}
                         ELSE IF M!Kept(q[n], ls, v) THEN M!AddEvent(f[n - 1], q[n], t)
                         ELSE f[n - 1]
           Solves(f) == f = [n \in 0..Len(q) |-> Body(f, n)]
           bundles == CHOOSE f : Solves(f)
           step == [p \in (SUBSET Bundles) \X (1..Len(q)) |->
                      IF M!Kept(q[p[2]], ls, v) THEN M!AddEvent(p[1], q[p[2]], t) ELSE p[1]]
<1>1. \E f : Solves(f)
  <2>1. step \in [(SUBSET Bundles) \X (1..Len(q)) -> SUBSET Bundles]
    <3>1. ASSUME NEW w \in SUBSET Bundles, NEW n \in 1..Len(q)
          PROVE  M!AddEvent(w, q[n], t) \in SUBSET Bundles
      <4>1. q[n] \in Events
        OBVIOUS
      <4> QED
        BY <4>1, AddTyped
    <3> QED
      BY <3>1
  <2>2. \A w \in SUBSET Bundles, n \in 1..Len(q) :
          step[<<w, n>>] = IF M!Kept(q[n], ls, v) THEN M!AddEvent(w, q[n], t) ELSE w
    OBVIOUS
  <2> HIDE DEF step
  <2>4. PICK f \in [0..Len(q) -> SUBSET Bundles] :
          f[0] = {} /\ \A i \in 1..Len(q) : f[i] = step[<<f[i - 1], i>>]
    <3> DEFINE X == SUBSET Bundles
               m == Len(q)
               base == {}
    <3>1. base \in X /\ m \in Nat /\ IsStep(step, X, m)
      BY <2>1 DEF IsStep
    <3> HIDE DEF X, m, base
    <3>2. \E f : IsRun(f, X, base, step, m)
      BY <3>1, Recursion
    <3> QED
      BY <3>2 DEF IsRun, X, m, base
  <2>5. ASSUME NEW n \in 0..Len(q) PROVE f[n] = Body(f, n)
    <3>1. n = 0 \/ n \in 1..Len(q)
      OBVIOUS
    <3>2. n \in 1..Len(q) => n - 1 \in 0..Len(q) /\ f[n - 1] \in SUBSET Bundles
      OBVIOUS
    <3> QED
      BY <2>2, <2>4, <3>1, <3>2
  <2> HIDE DEF Body
  <2>6. Solves(f)
    BY <2>4, <2>5
  <2> QED
    BY <2>6
<1>2. Solves(bundles)
  BY <1>1
<1>3. Answer(q, ls, v, t) = bundles[Len(q)]
  BY DEF M!Process, Answer
<1> HIDE DEF bundles
<1>4. \A n \in 0..Len(q) : bundles[n] = Body(bundles, n)
  <2> HIDE DEF Body
  <2> QED
    BY <1>2
<1>5. bundles[0] = {}
  BY <1>4
<1>6. \A n \in 1..Len(q) : bundles[n] = IF M!Kept(q[n], ls, v)
                                        THEN M!AddEvent(bundles[n - 1], q[n], t)
                                        ELSE bundles[n - 1]
  BY <1>4
<1> HIDE DEF Solves
<1> QED
  BY <1>3, <1>5, <1>6 DEF ReadsOff

LEMMA ProcessBundles ==
  ASSUME NEW q \in Seq(Events), NEW ls, NEW v, NEW t \in Nat
  PROVE  Bundled(Answer(q, ls, v, t), q, ls, v, t, Len(q))
<1>0. PICK f : ReadsOff(f, q, ls, v, t)
  BY ProcessReads
<1>1. /\ f[0] = {} /\ Answer(q, ls, v, t) = f[Len(q)]
      /\ \A n \in 1..Len(q) : f[n] = IF M!Kept(q[n], ls, v)
                                     THEN M!AddEvent(f[n - 1], q[n], t) ELSE f[n - 1]
  BY <1>0 DEF ReadsOff
<1> DEFINE T == {n \in 0..Len(q) : Bundled(f[n], q, ls, v, t, n)}
<1>2. 0 \in T
  BY <1>1 DEF Bundled
<1>3. ASSUME NEW n \in 1..Len(q), n - 1 \in T PROVE n \in T
  <2>1. Bundled(f[n - 1], q, ls, v, t, n - 1)
    BY <1>3
  <2>2. IF M!Kept(q[n], ls, v) THEN Bundled(M!AddEvent(f[n - 1], q[n], t), q, ls, v, t, n)
                               ELSE Bundled(f[n - 1], q, ls, v, t, n)
    BY <2>1, BundledMore
  <2> QED
    BY <1>1, <2>2
<1>4. Len(q) \in T
  <2> HIDE DEF T
  <2>1. Len(q) \in Nat
    OBVIOUS
  <2>2. 0..Len(q) \subseteq T
    BY <1>2, <1>3, <2>1, Steps
  <2> QED
    BY <2>1, <2>2
<1> QED
  BY <1>1, <1>4

----------------------------------------------------------------------------
\* What a step of the console is for the map.
LEMMA MapStep ==
  ASSUME [Next]_vars
  PROVE  \/ UNCHANGED mapVars \/ M!UnmountMap
         \/ \E p \in {"map", "dashboard"} : M!MountMap(p)
         \/ place # "none" /\ M!MapNext
<1>1. CASE ProtectedRoute \/ LoggedIn
  BY <1>1 DEF ProtectedRoute, LoggedIn
<1>2. CASE DropToken \/ Leave
  BY <1>2 DEF DropToken, Leave, Clear
<1>3. CASE VisitMap
  BY <1>3 DEF VisitMap
<1>4. CASE VisitList \/ VisitPane \/ VisitDesk \/ VisitPolling
  BY <1>4 DEF VisitList, VisitPane, VisitDesk, VisitPolling
<1>5. CASE OnMap /\ M!MapNext
  BY <1>5 DEF OnMap
<1>6. CASE OnList \/ OnPane \/ OnDesk \/ OnPage
  BY <1>6 DEF OnList, OnPane, OnDesk, OnPage
<1>7. CASE UNCHANGED vars
  BY <1>7 DEF vars
<1> QED
  BY <1>1, <1>2, <1>3, <1>4, <1>5, <1>6, <1>7 DEF Next

(***************************************************************************
 The messages to the worker, and the draw loop: the last message is about what is
 displayed; when it is answered the arcs are its bundles; and the draw loop has the
 arcs once the effects have run.
 ***************************************************************************)
Jobs == [events : Seq(Events), layers : SUBSET Layers, view : Views]
Job(es, ls, v) == [events |-> es, layers |-> ls, view |-> v]

Messages ==
  /\ jobs \in Seq(Jobs) /\ Len(jobs) <= MaxJobs /\ postedView \in Views
  /\ worker \in {"up", "none"} /\ effects \in BOOLEAN
  /\ worker = "none" => jobs = << >>
  /\ jobs # << >> => jobs[Len(jobs)] = Job(display, layers, postedView)

UpToDate ==
  place # "none" =>
    /\ jobs = << >> =>
         \E t \in Nat : Bundled(arcs, display, layers, postedView, t, Len(display))
    /\ ~effects => drawArcs = arcs

LEMMA Posted ==
  ASSUME Messages, UpToDate, NEW es \in Seq(Events), NEW ls \in SUBSET Layers, NEW v \in Views,
         M!Post(es, ls, v), display' = es, layers' = ls, now \in Nat,
         UNCHANGED <<place, worker, drawArcs>>
  PROVE  Messages' /\ UpToDate'
<1> DEFINE job == Job(es, ls, v)
<1>1. job \in Jobs
  BY DEF Jobs, Job
<1>2. jobs \in Seq(Jobs) /\ postedView' = v
  BY DEF Messages, M!Post
<1>3. CASE worker = "up"
  <2>1. Len(jobs) < MaxJobs /\ jobs' = Append(jobs, job) /\ UNCHANGED <<arcs, effects>>
    BY <1>3 DEF M!Post, Job
  <2> HIDE DEF job
  <2>2. /\ jobs' \in Seq(Jobs) /\ Len(jobs') = Len(jobs) + 1 /\ jobs' # << >>
        /\ jobs'[Len(jobs')] = job
    BY <1>1, <1>2, <2>1
  <2>3. Len(jobs') <= MaxJobs
    BY <1>2, <2>1, <2>2, MapBounds
  <2>4. Messages'
    BY <1>2, <1>3, <2>1, <2>2, <2>3 DEF Messages, job
  <2>5. UpToDate'
    BY <2>1, <2>2 DEF UpToDate
  <2> QED
    BY <2>4, <2>5
<1>4. CASE worker = "none"
  <2>1. /\ arcs' = M!Process(job, now) /\ effects' = TRUE /\ UNCHANGED jobs
    BY <1>4 DEF M!Post, M!SetArcs, Job
  <2>2. jobs = << >>
    BY <1>4 DEF Messages
  <2>3. arcs' = Answer(es, ls, v, now)
    BY <2>1 DEF Answer, Job
  <2>4. Bundled(arcs', es, ls, v, now, Len(es))
    BY <2>3, ProcessBundles
  <2>5. Messages'
    BY <1>2, <1>4, <2>1, <2>2 DEF Messages
  <2>6. UpToDate'
    BY <1>2, <2>1, <2>4 DEF UpToDate
  <2> QED
    BY <2>5, <2>6
<1> QED
  BY <1>3, <1>4 DEF Messages

LEMMA Replied ==
  ASSUME Messages, UpToDate, M!WorkerAnswers, display \in Seq(Events), layers \in SUBSET Layers,
         now \in Nat
  PROVE  Messages' /\ UpToDate'
<1>1. /\ jobs # << >> /\ jobs' = Tail(jobs) /\ effects' = TRUE
      /\ arcs' = M!Process(Head(jobs), now)
      /\ UNCHANGED <<place, display, layers, worker, postedView, drawArcs>>
  BY DEF M!WorkerAnswers, M!SetArcs
<1>2. /\ jobs \in Seq(Jobs) /\ postedView \in Views
      /\ jobs[Len(jobs)] = Job(display, layers, postedView)
  BY <1>1 DEF Messages
<1>3. /\ jobs' \in Seq(Jobs) /\ Len(jobs') = Len(jobs) - 1 /\ Len(jobs) \in Nat \ {0}
      /\ jobs' # << >> => Len(jobs') # 0 /\ jobs'[Len(jobs')] = jobs[Len(jobs)]
  BY <1>1, <1>2
<1>4. Messages'
  BY <1>1, <1>2, <1>3, MapBounds DEF Messages
<1>5. ASSUME jobs' = << >>
      PROVE  Bundled(arcs', display, layers, postedView, now, Len(display))
  <2>1. Len(jobs) = 1
    BY <1>3, <1>5
  <2>2. Head(jobs) = Job(display, layers, postedView)
    BY <1>2, <2>1
  <2>3. arcs' = Answer(display, layers, postedView, now)
    BY <1>1, <2>2 DEF Answer, Job
  <2> QED
    BY <2>3, ProcessBundles
<1>6. UpToDate'
  BY <1>1, <1>5 DEF UpToDate
<1> QED
  BY <1>4, <1>6

LEMMA EffectsRun == ASSUME Messages, UpToDate, M!RunEffects PROVE Messages' /\ UpToDate'
<1>1. /\ effects' = FALSE /\ drawArcs' = arcs
      /\ UNCHANGED <<place, display, layers, worker, jobs, postedView, arcs>>
  BY DEF M!RunEffects
<1> QED
  BY <1>1 DEF Messages, UpToDate

LEMMA DrawingStays ==
  ASSUME Messages, UpToDate,
         UNCHANGED <<place, display, layers, worker, jobs, postedView, arcs, drawArcs, effects>>
  PROVE  Messages' /\ UpToDate'
  BY DEF Messages, UpToDate

----------------------------------------------------------------------------
\* The events: where each sequence of them comes from.
Distinct(q) == \A i, j \in 1..Len(q) : q[i].id = q[j].id => i = j
AllStamped(q) == \A i \in 1..Len(q) : q[i].got > 0
OnceEach(st) == \A i, j \in 1..Len(st) : st[i] = st[j] => i = j

LEMMA FirstOfAll ==
  ASSUME NEW S, NEW s \in Seq(S), NEW n \in Nat
  PROVE  /\ M!FirstN(s, n) \in Seq(S) /\ Len(M!FirstN(s, n)) <= n
         /\ Len(M!FirstN(s, n)) <= Len(s) /\ Len(M!FirstN(s, n)) \in Nat
         /\ \A i \in 1..Len(M!FirstN(s, n)) : M!FirstN(s, n)[i] = s[i] /\ i \in 1..Len(s)
<1> DEFINE m == IF Len(s) < n THEN Len(s) ELSE n
<1>1. m \in 0..Len(s) /\ m <= n /\ M!FirstN(s, n) = SubSeq(s, 1, m)
  BY DEF M!FirstN
<1> HIDE DEF m
<1>2. /\ SubSeq(s, 1, m) \in Seq(S) /\ Len(SubSeq(s, 1, m)) = m
      /\ \A i \in 1..m : SubSeq(s, 1, m)[i] = s[i]
  BY <1>1
<1> QED
  BY <1>1, <1>2

LEMMA FreshKeeps ==
  ASSUME NEW q \in Seq(Events), Distinct(q)
  PROVE  /\ M!Fresh(q) \in Seq(Events) /\ Distinct(M!Fresh(q)) /\ Within(M!Fresh(q), now)
         /\ AllStamped(q) => AllStamped(M!Fresh(q))
<1> DEFINE w == M!Fresh(q)
<1>1. Taken(w, q, Len(q))
  BY FreshTaken
<1> HIDE DEF w
<1>2. w \in Seq(Events) /\ Within(w, now)
  BY <1>1 DEF Taken
<1>3. PICK h \in [1..Len(w) -> 1..Len(q)] :
        /\ \A j \in 1..Len(w) : w[j] = q[h[j]]
        /\ \A j, k \in 1..Len(w) : h[j] = h[k] => j = k
  BY <1>1 DEF Taken
<1>4. Distinct(w)
  <2> SUFFICES ASSUME NEW i \in 1..Len(w), NEW j \in 1..Len(w), w[i].id = w[j].id
               PROVE  i = j
    BY DEF Distinct
  <2>1. h[i] \in 1..Len(q) /\ h[j] \in 1..Len(q) /\ q[h[i]].id = q[h[j]].id
    BY <1>3
  <2>2. h[i] = h[j]
    BY <2>1 DEF Distinct
  <2> QED
    BY <1>3, <2>2
<1>5. AllStamped(q) => AllStamped(w)
  BY <1>3 DEF AllStamped
<1> QED
  BY <1>2, <1>4, <1>5 DEF w

LEMMA Stamping ==
  ASSUME NEW st \in Seq(Ids), NEW old \in [Ids -> 0..MaxTime], now \in 1..MaxTime
  PROVE  /\ M!NewStamps(st, old) \in [Ids -> 0..MaxTime]
         /\ \A id \in Ids : M!NewStamps(st, old)[id] > 0 => id \in M!IdsOf(st)
         /\ \A i \in 1..Len(M!FirstN(st, LayoutCap)) :
              M!NewStamps(st, old)[M!FirstN(st, LayoutCap)[i]] > 0
<1> DEFINE first == M!FirstN(st, LayoutCap)
           new == M!NewStamps(st, old)
<1>0. LayoutCap \in Nat /\ MaxTime \in Nat
  BY MapBounds
<1>1. first \in Seq(Ids) /\ \A i \in 1..Len(first) : first[i] = st[i] /\ i \in 1..Len(st)
  BY <1>0, FirstOfAll
<1>2. new = [id \in Ids |-> IF id \notin M!IdsOf(st) THEN 0
                            ELSE IF id \in M!IdsOf(first) /\ old[id] = 0 THEN now ELSE old[id]]
  BY DEF M!NewStamps
<1>3. \A i \in 1..Len(first) : first[i] \in Ids /\ first[i] \in M!IdsOf(first) /\ first[i] \in M!IdsOf(st)
  <2> HIDE DEF first
  <2>1. DOMAIN first = 1..Len(first) /\ DOMAIN st = 1..Len(st)
    BY <1>1
  <2>2. \A i \in 1..Len(first) : first[i] \in M!IdsOf(first)
    BY <2>1 DEF M!IdsOf
  <2>3. \A i \in 1..Len(st) : st[i] \in M!IdsOf(st) /\ st[i] \in Ids
    BY <2>1 DEF M!IdsOf
  <2> QED
    BY <1>1, <2>2, <2>3
<1> HIDE DEF first, new
<1>4. new \in [Ids -> 0..MaxTime] /\ \A id \in Ids : new[id] > 0 => id \in M!IdsOf(st)
  BY <1>0, <1>2
<1>5. \A i \in 1..Len(first) : new[first[i]] > 0
  BY <1>0, <1>2, <1>3
<1> QED
  BY <1>4, <1>5 DEF first, new

LEMMA StampedData ==
  ASSUME NEW st \in Seq(Ids), OnceEach(st), NEW sm \in [Ids -> 0..MaxTime],
         \A i \in 1..Len(M!FirstN(st, LayoutCap)) : sm[M!FirstN(st, LayoutCap)[i]] > 0
  PROVE  /\ M!Stamped(st, sm) \in Seq(Events) /\ Distinct(M!Stamped(st, sm))
         /\ AllStamped(M!Stamped(st, sm))
<1> DEFINE first == M!FirstN(st, LayoutCap)
           q == [i \in DOMAIN first |-> [id |-> first[i], got |-> sm[first[i]]]]
<1>0. LayoutCap \in Nat /\ MaxTime \in Nat
  BY MapBounds
<1>1. /\ first \in Seq(Ids) /\ Len(first) \in Nat
      /\ \A i \in 1..Len(first) : first[i] = st[i] /\ i \in 1..Len(st)
  BY <1>0, FirstOfAll
<1>2. \A i \in 1..Len(first) : sm[first[i]] > 0
  OBVIOUS
<1>6. M!Stamped(st, sm) = M!Fresh(q)
  BY DEF M!Stamped
<1> HIDE DEF first
<1>3. DOMAIN first = 1..Len(first) /\ \A i \in 1..Len(first) : first[i] \in Ids
  BY <1>1
<1>4. q \in Seq(Events) /\ Len(q) = Len(first)
  <2>1. \A i \in 1..Len(first) : [id |-> first[i], got |-> sm[first[i]]] \in Events
    BY <1>3 DEF Events
  <2> QED
    BY <1>1, <1>3, <2>1
<1>5. Distinct(q) /\ AllStamped(q)
  <2>1. \A i \in 1..Len(first) : q[i].id = st[i] /\ q[i].got > 0 /\ i \in 1..Len(st)
    BY <1>1, <1>2, <1>3
  <2> HIDE DEF q
  <2> QED
    BY <1>4, <2>1 DEF Distinct, AllStamped, OnceEach
<1> HIDE DEF q
<1> QED
  BY <1>4, <1>5, <1>6, FreshKeeps

LEMMA UnstampedData ==
  ASSUME NEW st \in Seq(Ids), OnceEach(st)
  PROVE  M!Unstamped(st) \in Seq(Events) /\ Distinct(M!Unstamped(st))
<1> DEFINE first == M!FirstN(st, DashCap)
           q == [i \in DOMAIN first |-> [id |-> first[i], got |-> 0]]
<1>0. DashCap \in Nat /\ MaxTime \in Nat
  BY MapBounds
<1>1. /\ first \in Seq(Ids) /\ Len(first) \in Nat
      /\ \A i \in 1..Len(first) : first[i] = st[i] /\ i \in 1..Len(st)
  BY <1>0, FirstOfAll
<1>6. M!Unstamped(st) = q
  BY DEF M!Unstamped
<1> HIDE DEF first
<1>3. DOMAIN first = 1..Len(first) /\ \A i \in 1..Len(first) : first[i] \in Ids
  BY <1>1
<1>4. q \in Seq(Events) /\ Len(q) = Len(first)
  <2>1. \A i \in 1..Len(first) : [id |-> first[i], got |-> 0] \in Events
    BY <1>0, <1>3 DEF Events
  <2> QED
    BY <1>1, <1>3, <2>1
<1>5. Distinct(q)
  <2>1. \A i \in 1..Len(first) : q[i].id = st[i] /\ i \in 1..Len(st)
    BY <1>1, <1>3
  <2> HIDE DEF q
  <2> QED
    BY <1>4, <2>1 DEF Distinct, OnceEach
<1> HIDE DEF q
<1> QED
  BY <1>4, <1>5, <1>6

\* A batch is numbered on from the events that came before.
LEMMA BatchInFront ==
  ASSUME NEW st \in Seq(Ids), OnceEach(st), NEW a \in Ids \cup {0}, NEW n \in Nat \ {0},
         a + n \in Ids, \A i \in 1..Len(st) : st[i] <= a,
         NEW new, new = M!FirstN([i \in 1..n |-> a + i] \o st, StoreCap)
  PROVE  /\ new \in Seq(Ids) /\ OnceEach(new) /\ Len(new) <= StoreCap
         /\ \A i \in 1..Len(new) : new[i] <= a + n
<1> DEFINE batch == [i \in 1..n |-> a + i]
           all == batch \o st
<1>1. a \in Nat /\ Ids \subseteq Nat /\ \A i \in 1..n : a + i \in Ids /\ a + i > a
  <2>1. PICK c \in Nat : Ids = 1..c
    BY MapAssumption, FS_CardinalityType
  <2> QED
    BY <2>1
<1>2. batch \in Seq(Ids) /\ Len(batch) = n /\ \A i \in 1..n : batch[i] = a + i
  BY <1>1
<1> HIDE DEF batch
<1>3. /\ all \in Seq(Ids) /\ Len(all) = n + Len(st)
      /\ \A i \in 1..n : all[i] = a + i
      /\ \A i \in 1..Len(all) : i \notin 1..n => all[i] = st[i - n] /\ i - n \in 1..Len(st)
  <2>1. /\ all \in Seq(Ids) /\ Len(all) = n + Len(st) /\ Len(st) \in Nat
        /\ \A i \in 1..Len(all) : all[i] = IF i <= n THEN batch[i] ELSE st[i - n]
    <3>1. all \in Seq(Ids) /\ Len(all) = n + Len(st) /\ Len(st) \in Nat
      BY <1>2
    <3>2. \A i \in 1..(Len(batch) + Len(st)) :
            all[i] = IF i <= Len(batch) THEN batch[i] ELSE st[i - Len(batch)]
      BY <1>2
    <3> HIDE DEF all
    <3> QED
      BY <1>2, <3>1, <3>2
  <2>2. \A i \in 1..n : i \in 1..Len(all) /\ i <= n
    BY <2>1
  <2>3. \A i \in 1..Len(all) : i \notin 1..n => ~(i <= n) /\ i - n \in 1..Len(st)
    BY <2>1
  <2> HIDE DEF all
  <2> QED
    BY <1>2, <2>1, <2>2, <2>3
<1>4. OnceEach(all)
  <2> SUFFICES ASSUME NEW i \in 1..Len(all), NEW j \in 1..Len(all), all[i] = all[j]
               PROVE  i = j
    BY DEF OnceEach
  <2>1. CASE i \in 1..n /\ j \in 1..n
    BY <1>1, <1>3, <2>1
  <2>2. CASE i \notin 1..n /\ j \notin 1..n
    <3>1. st[i - n] = st[j - n] /\ i - n \in 1..Len(st) /\ j - n \in 1..Len(st)
      BY <1>3, <2>2
    <3> QED
      BY <3>1 DEF OnceEach
  <2>a. \A k \in 1..Len(all) : all[k] \in Nat /\ (all[k] <= a <=> k \notin 1..n)
    <3> SUFFICES ASSUME NEW k \in 1..Len(all)
                 PROVE  all[k] \in Nat /\ (all[k] <= a <=> k \notin 1..n)
      OBVIOUS
    <3>1. CASE k \in 1..n
      <4>1. all[k] = a + k /\ a + k \in Nat /\ a + k > a
        BY <1>1, <1>3, <3>1
      <4> HIDE DEF all
      <4> QED
        BY <1>1, <3>1, <4>1
    <3>2. CASE k \notin 1..n
      <4>1. PICK m \in 1..Len(st) : all[k] = st[m]
        BY <1>3, <3>2
      <4>2. st[m] <= a /\ st[m] \in Ids
        OBVIOUS
      <4> HIDE DEF all
      <4> QED
        BY <1>1, <3>2, <4>1, <4>2
    <3> QED
      BY <3>1, <3>2
  <2>3. ~(i \in 1..n /\ j \notin 1..n) /\ ~(i \notin 1..n /\ j \in 1..n)
    BY <2>a
  <2> QED
    BY <2>1, <2>2, <2>3
<1>5. \A i \in 1..Len(all) : all[i] <= a + n
  <2> SUFFICES ASSUME NEW i \in 1..Len(all) PROVE all[i] <= a + n
    OBVIOUS
  <2>1. CASE i \in 1..n
    BY <1>1, <1>3, <2>1
  <2>2. CASE i \notin 1..n
    <3>2. all[i] = st[i - n] /\ i - n \in 1..Len(st)
      BY <1>3, <2>2
    <3>3. PICK j \in 1..Len(st) : all[i] = st[j]
      BY <3>2
    <3>1. all[i] <= a /\ all[i] \in Nat
      <4>1. st[j] <= a /\ st[j] \in Ids
        OBVIOUS
      <4> HIDE DEF all
      <4> QED
        BY <1>1, <3>3, <4>1
    <3> QED
      BY <1>1, <3>1
  <2> QED
    BY <2>1, <2>2
<1>7. new = M!FirstN(all, StoreCap)
  BY DEF batch
<1> HIDE DEF all
<1>6. /\ new \in Seq(Ids) /\ Len(new) <= StoreCap
      /\ \A i \in 1..Len(new) : new[i] = all[i] /\ i \in 1..Len(all)
  <2>1. StoreCap \in Nat /\ all \in Seq(Ids)
    BY <1>3, MapBounds
  <2>2. /\ M!FirstN(all, StoreCap) \in Seq(Ids) /\ Len(M!FirstN(all, StoreCap)) <= StoreCap
        /\ \A i \in 1..Len(M!FirstN(all, StoreCap)) :
             M!FirstN(all, StoreCap)[i] = all[i] /\ i \in 1..Len(all)
    BY <2>1, FirstOfAll
  <2> QED
    BY <1>7, <2>2
<1>8. OnceEach(new)
  BY <1>4, <1>6 DEF OnceEach
<1> QED
  BY <1>5, <1>6, <1>8

----------------------------------------------------------------------------
\* The state of the map: what its type invariant says and where the events are from.
MapShape ==
  /\ place \in {"none", "map", "dashboard"} /\ now \in 1..MaxTime /\ arrived \in Ids \cup {0}
  /\ store \in Seq(Ids) /\ OnceEach(store) /\ Len(store) <= StoreCap
  /\ \A i \in 1..Len(store) : store[i] <= arrived
  /\ stamps \in [Ids -> 0..MaxTime]
  /\ ~layoutDue => \A id \in Ids : stamps[id] > 0 => id \in M!IdsOf(store)
  /\ place # "map" => stamps = [id \in Ids |-> 0] /\ ~layoutDue
  /\ data \in Seq(Events) /\ Distinct(data) /\ AllStamped(data)
  /\ display \in Seq(Events) /\ Distinct(display)
  /\ place = "map" => AllStamped(display) /\ Within(display, flushed)
  /\ layoutDue \in BOOLEAN /\ flushed \in 0..MaxTime
  /\ layers \in SUBSET Layers /\ view \in Views

MapInv == MapShape /\ Messages /\ UpToDate /\ M!OneLoop

LEMMA MapStays == ASSUME MapInv, UNCHANGED mapVars PROVE MapInv'
BY DEF MapInv, MapShape, Within, Messages, UpToDate, M!OneLoop, mapVars

LEMMA NoMapShape == ASSUME M!NoMap PROVE MapInv
<1>1. /\ place = "none" /\ now = 1 /\ store = << >> /\ arrived = 0
      /\ stamps = [id \in Ids |-> 0] /\ data = << >> /\ display = << >>
      /\ layoutDue = FALSE /\ flushed = 0
      /\ layers = {} /\ view \in Views
      /\ worker = "none" /\ jobs = << >> /\ postedView = view
      /\ effects = FALSE /\ frames = 0
  BY MapAssumption DEF M!NoMap
<1>2. MapShape
  <2>1. layoutDue \in BOOLEAN
    BY <1>1
  <2>2. flushed \in 0..MaxTime /\ stamps \in [Ids -> 0..MaxTime]
    BY <1>1, MapBounds
  <2>3. \A id \in Ids : ~(stamps[id] > 0)
    BY <1>1
  <2> QED
    BY <1>1, <2>1, <2>2, <2>3, MapBounds DEF MapShape, OnceEach, Distinct, AllStamped
<1>3. Messages
  <2>1. jobs \in Seq(Jobs) /\ Len(jobs) <= MaxJobs
    BY <1>1, MapBounds
  <2>2. effects \in BOOLEAN
    BY <1>1
  <2> QED
    BY <1>1, <2>1, <2>2 DEF Messages
<1>4. UpToDate /\ M!OneLoop
  BY <1>1 DEF UpToDate, M!OneLoop
<1> QED
  BY <1>2, <1>3, <1>4 DEF MapInv

LEMMA Unmounted == ASSUME M!UnmountMap PROVE MapInv'
<1>1. /\ place' = "none" /\ now' = 1 /\ store' = << >> /\ arrived' = 0
      /\ stamps' = [id \in Ids |-> 0] /\ data' = << >> /\ display' = << >>
      /\ layoutDue' = FALSE /\ flushed' = 0
      /\ layers' = {} /\ view' \in Views
      /\ worker' = "none" /\ jobs' = << >> /\ postedView' = view'
      /\ effects' = FALSE /\ frames' = 0
  BY MapAssumption DEF M!UnmountMap
<1>2. MapShape'
  <2>1. layoutDue' \in BOOLEAN
    BY <1>1
  <2>2. flushed' \in 0..MaxTime /\ stamps' \in [Ids -> 0..MaxTime]
    BY <1>1, MapBounds
  <2>3. \A id \in Ids : ~(stamps'[id] > 0)
    BY <1>1
  <2> QED
    BY <1>1, <2>1, <2>2, <2>3, MapBounds DEF MapShape, OnceEach, Distinct, AllStamped
<1>3. Messages'
  <2>1. jobs' \in Seq(Jobs) /\ Len(jobs') <= MaxJobs
    BY <1>1, MapBounds
  <2>2. effects' \in BOOLEAN
    BY <1>1
  <2> QED
    BY <1>1, <2>1, <2>2 DEF Messages
<1>4. UpToDate' /\ M!OneLoop'
  BY <1>1 DEF UpToDate, M!OneLoop
<1> QED
  BY <1>2, <1>3, <1>4 DEF MapInv

LEMMA Mounted ==
  ASSUME MapInv, NEW p \in {"map", "dashboard"}, M!MountMap(p)
  PROVE  MapInv'
<1> DEFINE job == [events |-> display', layers |-> layers', view |-> view]
<1>1. /\ place # "map" /\ place' = p /\ arrived' \in {0, 1} /\ store' = [i \in 1..arrived' |-> i]
      /\ worker' \in {"up", "none"} /\ layers' = (IF p = "map" THEN Layers ELSE {})
      /\ jobs' = (IF worker' = "up" THEN <<job>> ELSE << >>)
      /\ arcs' = (IF worker' = "up" THEN {} ELSE M!Process(job, now))
      /\ postedView' = view /\ effects' = TRUE /\ frames' = 1 /\ UNCHANGED <<now, view>>
  BY DEF M!MountMap
<1>2. MapShape
  BY DEF MapInv
<1>3. /\ arrived' \in Ids \cup {0} /\ store' \in Seq(Ids) /\ OnceEach(store')
      /\ Len(store') <= arrived' /\ \A i \in 1..Len(store') : store'[i] <= arrived'
  <2>1. 1 \in Ids
    BY MapAssumption
  <2>2. CASE arrived' = 0
    BY <1>1, <2>2 DEF OnceEach
  <2>3. CASE arrived' = 1
    BY <1>1, <2>1, <2>3 DEF OnceEach
  <2> QED
    BY <1>1, <2>2, <2>3
<1>4. now \in 1..MaxTime /\ stamps \in [Ids -> 0..MaxTime] /\ view \in Views /\ layers' \in SUBSET Layers
  BY <1>1, <1>2 DEF MapShape
<1>5. \A i \in 1..0 : FALSE
  OBVIOUS
<1>6. display' \in Seq(Events) /\ Distinct(display') /\ (p = "map" => display' = << >>)
  <2>1. CASE p = "map"
    BY <2>1 DEF M!MountMap, Distinct
  <2>2. CASE p = "dashboard"
    BY <1>3, <2>2, UnstampedData DEF M!MountMap
  <2> QED
    BY <2>1, <2>2
<1>7. p = "map" => AllStamped(display') /\ Within(display', flushed')
  BY <1>6 DEF AllStamped, Within
<1>12. /\ layoutDue' = (p = "map") /\ UNCHANGED <<stamps, data, flushed>>
       /\ stamps = [id \in Ids |-> 0] /\ \A id \in Ids : ~(stamps'[id] > 0)
  <2>1. layoutDue' = (p = "map") /\ UNCHANGED <<stamps, data, flushed>>
    BY DEF M!MountMap
  <2> QED
    BY <1>1, <1>2, <2>1 DEF MapShape
<1>8. MapShape'
  BY <1>1, <1>2, <1>3, <1>4, <1>6, <1>7, <1>12, MapBounds DEF MapShape
<1>9. job = Job(display', layers', postedView') /\ job \in Jobs
  BY <1>1, <1>4, <1>8 DEF Job, Jobs, MapShape
<1>10. Messages' /\ UpToDate'
  <2>1. CASE worker' = "up"
    <3>1. jobs' = <<job>> /\ effects' = TRUE
      BY <1>1, <2>1
    <3> HIDE DEF job
    <3>2. /\ jobs' \in Seq(Jobs) /\ Len(jobs') = 1 /\ jobs' # << >>
          /\ jobs'[Len(jobs')] = Job(display', layers', postedView')
      BY <1>9, <3>1
    <3> QED
      BY <1>1, <1>4, <2>1, <3>2, MapBounds DEF Messages, UpToDate
  <2>2. CASE worker' = "none"
    <3>1. jobs' = << >> /\ arcs' = M!Process(job, now)
      BY <1>1, <2>2
    <3>2. arcs' = Answer(display', layers', postedView', now)
      BY <1>1, <3>1 DEF Answer
    <3>3. now \in Nat /\ display' \in Seq(Events)
      BY <1>4, <1>8, MapBounds DEF MapShape
    <3>4. Bundled(arcs', display', layers', postedView', now, Len(display'))
      BY <3>2, <3>3, ProcessBundles
    <3> HIDE DEF job
    <3>5. Messages'
      BY <1>1, <1>4, <2>2, <3>1, MapBounds DEF Messages
    <3>6. UpToDate'
      BY <1>1, <3>1, <3>3, <3>4 DEF UpToDate
    <3> QED
      BY <3>5, <3>6
  <2> QED
    BY <1>1, <2>1, <2>2
<1>11. M!OneLoop'
  BY <1>1 DEF M!OneLoop
<1> QED
  BY <1>8, <1>10, <1>11 DEF MapInv

LEMMA StoreChanged ==
  ASSUME MapInv, NEW n \in 1..MaxBatch, M!StoreChanges(n)
  PROVE  MapInv'
<1>1. /\ place # "none" /\ arrived + n \in Ids /\ arrived' = arrived + n
      /\ store' = M!FirstN([i \in 1..n |-> arrived + i] \o store, StoreCap)
      /\ UNCHANGED <<place, now, stamps, data, display, flushed, layers, view, worker, jobs,
                     postedView, arcs, drawArcs, effects, frames>>
  BY DEF M!StoreChanges
<1>2. MapShape /\ Messages /\ UpToDate /\ M!OneLoop
  BY DEF MapInv
<1>3. /\ store' \in Seq(Ids) /\ OnceEach(store') /\ Len(store') <= StoreCap
      /\ \A i \in 1..Len(store') : store'[i] <= arrived'
  <2>1. /\ store \in Seq(Ids) /\ OnceEach(store) /\ arrived \in Ids \cup {0}
        /\ \A i \in 1..Len(store) : store[i] <= arrived
    BY <1>2 DEF MapShape
  <2>2. n \in Nat \ {0}
    BY MapBounds
  <2> QED
    BY <1>1, <2>1, <2>2, BatchInFront
<1>4. MapShape'
  <2>1. layoutDue' = (place = "map") /\ (place # "map" => \A id \in Ids : ~(stamps[id] > 0))
    BY <1>2 DEF M!StoreChanges, MapShape
  <2> QED
    BY <1>1, <1>2, <1>3, <2>1, MapBounds DEF MapShape, Within
<1>5. Messages' /\ UpToDate' /\ M!OneLoop'
  BY <1>1, <1>2, DrawingStays DEF M!OneLoop
<1> QED
  BY <1>4, <1>5 DEF MapInv

\* The layout's effect on the store.
LEMMA LayoutRuns ==
  ASSUME MapInv, place # "none", M!LayoutEffect
  PROVE  MapInv'
<1>1. /\ layoutDue' = FALSE /\ stamps' = M!NewStamps(store, stamps)
      /\ data' = M!Stamped(store, stamps')
      /\ UNCHANGED <<place, now, store, arrived, display, flushed, layers, view, worker, jobs,
                     postedView, arcs, drawArcs, effects, frames>>
  BY DEF M!LayoutEffect
<1>2. MapShape /\ Messages /\ UpToDate /\ M!OneLoop
  BY DEF MapInv
<1>3. /\ store \in Seq(Ids) /\ OnceEach(store) /\ stamps \in [Ids -> 0..MaxTime]
      /\ now \in 1..MaxTime
  BY <1>2 DEF MapShape
<1>4. /\ stamps' \in [Ids -> 0..MaxTime]
      /\ \A id \in Ids : stamps'[id] > 0 => id \in M!IdsOf(store)
      /\ \A i \in 1..Len(M!FirstN(store, LayoutCap)) :
           stamps'[M!FirstN(store, LayoutCap)[i]] > 0
  BY <1>1, <1>3, Stamping
<1>5. data' \in Seq(Events) /\ Distinct(data') /\ AllStamped(data')
  BY <1>1, <1>3, <1>4, StampedData
<1>6. MapShape'
  <2>1. M!IdsOf(store') = M!IdsOf(store)
    BY <1>1 DEF M!IdsOf
  <2>2. layoutDue' \in BOOLEAN /\ ~layoutDue'
    BY <1>1
  <2>3. place' # "map" => stamps' = [id \in Ids |-> 0]
    <3>1. layoutDue /\ UNCHANGED place
      BY <1>1 DEF M!LayoutEffect
    <3> QED
      BY <1>2, <3>1 DEF MapShape
  <2>4. place' = "map" => AllStamped(display') /\ Within(display', flushed')
    BY <1>1, <1>2 DEF MapShape
  <2> QED
    BY <1>1, <1>2, <1>4, <1>5, <2>1, <2>2, <2>3, <2>4 DEF MapShape
<1>7. Messages' /\ UpToDate' /\ M!OneLoop'
  BY <1>1, <1>2, DrawingStays DEF M!OneLoop
<1> QED
  BY <1>6, <1>7 DEF MapInv

LEMMA MapInvNext ==
  ASSUME MapInv, place # "none", M!MapNext
  PROVE  MapInv'
<1>1. MapShape /\ Messages /\ UpToDate /\ M!OneLoop
  BY DEF MapInv
<1>2. /\ now \in 1..MaxTime /\ now \in Nat /\ view \in Views /\ layers \in SUBSET Layers
      /\ data \in Seq(Events) /\ Distinct(data) /\ AllStamped(data)
      /\ display \in Seq(Events) /\ Distinct(display) /\ frames = 1
  BY <1>1, MapBounds DEF MapShape, Within, M!OneLoop
<1>3. CASE M!WorkerAnswers
  <2>1. UNCHANGED <<place, now, store, arrived, stamps, data, display, flushed, layoutDue,
                  layers, view, frames>>
    BY <1>3 DEF M!WorkerAnswers
  <2>2. MapShape' /\ M!OneLoop'
    BY <1>1, <2>1 DEF MapShape, Within, M!OneLoop
  <2> QED
    BY <1>1, <1>2, <1>3, <2>2, Replied DEF MapInv
<1>4. CASE M!RunEffects
  <2>1. /\ UNCHANGED <<place, now, store, arrived, stamps, data, display, flushed, layoutDue,
                  layers, view>>
        /\ frames' = M!Requested(frames)
    BY <1>4 DEF M!RunEffects
  <2>2. MapShape' /\ M!OneLoop'
    BY <1>1, <1>2, <2>1 DEF MapShape, Within, M!OneLoop, M!Requested
  <2> QED
    BY <1>1, <1>4, <2>2, EffectsRun DEF MapInv
<1>5. CASE M!FlushDisplay
  <2>1. /\ place = "map" /\ display' = M!Fresh(data) /\ M!Post(display', layers, view)
        /\ flushed' = now
        /\ UNCHANGED <<place, now, store, arrived, stamps, data, layoutDue, layers, view, worker,
                       drawArcs, frames>>
    BY <1>5 DEF M!FlushDisplay
  <2>2. display' \in Seq(Events) /\ Distinct(display') /\ AllStamped(display')
        /\ Within(display', now)
    BY <1>2, <2>1, FreshKeeps
  <2>3. MapShape' /\ M!OneLoop'
    BY <1>1, <2>1, <2>2 DEF MapShape, Within, M!OneLoop
  <2>4. Messages' /\ UpToDate'
    BY <1>1, <1>2, <2>1, <2>2, Posted
  <2> QED
    BY <2>3, <2>4 DEF MapInv
<1>6. CASE M!DashboardRenders
  <2>1. /\ place = "dashboard" /\ display' = M!Unstamped(store) /\ M!Post(display', layers, view)
        /\ UNCHANGED <<place, now, store, arrived, stamps, data, flushed, layoutDue, layers, view,
                       worker, drawArcs, frames>>
    BY <1>6 DEF M!DashboardRenders
  <2>2. display' \in Seq(Events) /\ Distinct(display')
    BY <1>1, <2>1, UnstampedData DEF MapShape
  <2>3. MapShape' /\ M!OneLoop'
    BY <1>1, <2>1, <2>2 DEF MapShape, M!OneLoop
  <2>4. Messages' /\ UpToDate'
    BY <1>1, <1>2, <2>1, <2>2, Posted
  <2> QED
    BY <2>3, <2>4 DEF MapInv
<1>7. CASE M!Tick
  <2>1. /\ now < MaxTime /\ now' = now + 1
        /\ UNCHANGED <<place, store, arrived, stamps, data, display, flushed, layoutDue,
                  layers, view, worker, jobs,
                       postedView, arcs, drawArcs, effects, frames>>
    BY <1>7 DEF M!Tick, M!pipe
  <2>2. now' \in 1..MaxTime
    BY <1>2, <2>1, MapBounds
  <2>3. MapShape' /\ M!OneLoop'
    BY <1>1, <2>1, <2>2 DEF MapShape, Within, M!OneLoop
  <2> QED
    BY <1>1, <2>1, <2>3, DrawingStays DEF MapInv
<1>8. CASE \E v \in Views : M!MoveMap(v)
  <2>1. PICK v \in Views : M!MoveMap(v)
    BY <1>8
  <2>2. /\ view' = v /\ frames' = M!Requested(frames)
        /\ UNCHANGED <<place, now, store, arrived, stamps, data, display, flushed, layoutDue,
                  layers, worker, jobs,
                       postedView, arcs, drawArcs, effects>>
    BY <2>1 DEF M!MoveMap
  <2>3. MapShape' /\ M!OneLoop'
    BY <1>1, <1>2, <2>2 DEF MapShape, Within, M!OneLoop, M!Requested
  <2> QED
    BY <1>1, <2>2, <2>3, DrawingStays DEF MapInv
<1>9. CASE \E l \in Layers : M!ToggleLayer(l)
  <2>1. PICK l \in Layers : M!ToggleLayer(l)
    BY <1>9
  <2>2. /\ layers' \in SUBSET Layers /\ M!Post(display, layers', view)
        /\ UNCHANGED <<place, now, store, arrived, stamps, data, display, flushed, layoutDue,
                       view, worker, drawArcs,
                       frames>>
    BY <1>2, <2>1 DEF M!ToggleLayer
  <2>3. MapShape' /\ M!OneLoop'
    BY <1>1, <2>2 DEF MapShape, Within, M!OneLoop
  <2>4. Messages' /\ UpToDate'
    BY <1>1, <1>2, <2>2, Posted
  <2> QED
    BY <2>3, <2>4 DEF MapInv
<1>10. CASE \E n \in 1..MaxBatch : M!StoreChanges(n)
  BY <1>10, StoreChanged
<1>11. CASE M!LayoutEffect
  BY <1>11, LayoutRuns
<1> QED
  BY <1>3, <1>4, <1>5, <1>6, <1>7, <1>8, <1>9, <1>10, <1>11 DEF M!MapNext

\* The inductive invariant of the map: distinct events with the stamps of their pages,
\* displayed within their time as of the last flush, a last message that asks for what is displayed, arcs that are the bundles of the last
\* answered message, and one pending frame.  (ThreatMapLayout, MapCore, AttackCanvasLayer)
THEOREM MapInvariant == Spec => []MapInv
<1>1. Init => MapInv
  BY NoMapShape DEF Init
<1>2. MapInv /\ [Next]_vars => MapInv'
  <2> SUFFICES ASSUME MapInv, [Next]_vars PROVE MapInv'
    OBVIOUS
  <2> QED
    BY MapStep, MapStays, Unmounted, Mounted, MapInvNext
<1> QED
  BY <1>1, <1>2, PTL DEF Spec

\* The draw loop at rest: its arcs are the bundles of what is displayed.
LEMMA ArcsFit == ASSUME MapInv PROVE M!ArcsFitDisplay
<1> SUFFICES ASSUME jobs = << >>, ~effects, place # "none"
             PROVE  LET es == display
                        of == M!Shown(es, layers, postedView)
                    IN /\ {a.key : a \in drawArcs} = {M!KeyOf(es[i]) : i \in of}
                       /\ \A a \in drawArcs :
                            LET mine == {i \in of : M!KeyOf(es[i]) = a.key} IN
                            /\ a.count = M!Cardinality(mine)
                            /\ \A i \in mine : es[i].got <= a.got
                            /\ \E i \in mine : es[i].got \in {a.got, 0}
                            /\ place = "map" => (a \in M!Painted <=> \E i \in mine : now - es[i].got <= TTL)
  BY DEF M!ArcsFitDisplay
<1> DEFINE n == Len(display)
           of == M!Shown(display, layers, postedView)
           mine(k) == Mine(k, display, layers, postedView, n)
<1>1. PICK t \in Nat : Bundled(arcs, display, layers, postedView, t, n)
  BY DEF MapInv, UpToDate
<1>2. drawArcs = arcs /\ display \in Seq(Events) /\ now \in Nat
      /\ (place = "map" => AllStamped(display))
  BY MapBounds DEF MapInv, UpToDate, MapShape
<1>3. /\ drawArcs \in SUBSET Bundles
      /\ \A i \in 1..n : M!Kept(display[i], layers, postedView) =>
           \E a \in drawArcs : a.key = M!KeyOf(display[i])
      /\ \A a \in drawArcs : Stands(a, display, layers, postedView, t, n)
  BY <1>1, <1>2 DEF Bundled
<1>4. of = {i \in 1..n : M!Kept(display[i], layers, postedView)}
  BY <1>2 DEF M!Shown
<1>5. \A k : {i \in of : M!KeyOf(display[i]) = k} = mine(k)
  BY <1>4 DEF Mine
<1>6. {a.key : a \in drawArcs} = {M!KeyOf(display[i]) : i \in of}
  <2>1. ASSUME NEW a \in drawArcs PROVE \E i \in of : a.key = M!KeyOf(display[i])
    <3>1. mine(a.key) # {}
      BY <1>3 DEF Stands
    <3> QED
      BY <1>5, <3>1
  <2>2. ASSUME NEW i \in of PROVE \E a \in drawArcs : a.key = M!KeyOf(display[i])
    BY <1>3, <1>4
  <2> HIDE DEF of
  <2> QED
    BY <2>1, <2>2
<1>7. ASSUME NEW a \in drawArcs
      PROVE  /\ a.count = M!Cardinality(mine(a.key))
             /\ \A i \in mine(a.key) : display[i].got <= a.got
             /\ \E i \in mine(a.key) : display[i].got \in {a.got, 0}
             /\ place = "map" => (a \in M!Painted <=> \E i \in mine(a.key) : now - display[i].got <= TTL)
  <2>1. /\ a.count = Cardinality(mine(a.key))
        /\ \A i \in mine(a.key) : M!ReceivedAt(display[i], t) <= a.got
        /\ \E i \in mine(a.key) : M!ReceivedAt(display[i], t) = a.got
    BY <1>3 DEF Stands
  <2>2. \A i \in mine(a.key) : i \in 1..n /\ display[i] \in Events /\ display[i].got \in Nat
    <3>1. \A i \in mine(a.key) : i \in 1..n /\ display[i] \in Events
      BY <1>2 DEF Mine
    <3> QED
      BY <3>1, MapBounds DEF Events
  <2>3. a.got \in Nat
    BY <1>3 DEF Bundles
  <2> HIDE DEF mine, n, of
  <2>4. \A i \in mine(a.key) :
          /\ M!ReceivedAt(display[i], t) \in Nat /\ display[i].got <= M!ReceivedAt(display[i], t)
          /\ M!ReceivedAt(display[i], t) = display[i].got \/ display[i].got = 0
    BY <2>2, Received
  <2>5. a.count = M!Cardinality(mine(a.key))
    BY <2>1, MapCard
  <2>6. \A i \in mine(a.key) : display[i].got <= a.got
    BY <2>1, <2>2, <2>3, <2>4
  <2>7. \E i \in mine(a.key) : display[i].got \in {a.got, 0}
    BY <2>1, <2>4
  <2>8. ASSUME place = "map"
        PROVE  a \in M!Painted <=> \E i \in mine(a.key) : now - display[i].got <= TTL
    <3>1. \A i \in mine(a.key) : display[i].got > 0
      BY <1>2, <2>2, <2>8 DEF AllStamped, n
    <3>2. PICK i \in mine(a.key) : display[i].got = a.got
      BY <2>1, <2>2, <2>4, <3>1
    <3>3. a \in M!Painted <=> now - a.got <= TTL
      BY DEF M!Painted
    <3> QED
      BY <1>2, <2>2, <2>3, <2>6, <3>2, <3>3, MapBounds
  <2> QED
    BY <2>5, <2>6, <2>7, <2>8
<1> HIDE DEF mine, n
<1> QED
  BY <1>5, <1>6, <1>7

LEMMA StampsHold == ASSUME MapInv PROVE M!StampsFit /\ M!MapTypeOK /\ M!OneLoop
<1>1. MapShape /\ Messages /\ M!OneLoop
  BY DEF MapInv
<1>2. M!StampsFit
  <2>1. /\ DOMAIN display = 1..Len(display) /\ DOMAIN data = 1..Len(data)
        /\ Distinct(display) /\ AllStamped(data)
        /\ ~layoutDue => \A id \in Ids : stamps[id] > 0 => id \in M!IdsOf(store)
        /\ place = "map" => Within(display, flushed)
    BY <1>1 DEF MapShape
  <2> QED
    BY <2>1 DEF M!StampsFit, Distinct, AllStamped, Within
<1>3. M!MapTypeOK
  <2>1. M!IdsOf(store) \subseteq Ids
    BY <1>1 DEF MapShape, M!IdsOf
  <2>2. \A q \in {data, display} : \A i \in DOMAIN q : q[i] \in [id : Ids, got : 0..MaxTime]
    <3>1. data \in Seq(Events) /\ display \in Seq(Events)
      BY <1>1 DEF MapShape
    <3>2. \A q \in Seq(Events) : \A i \in DOMAIN q : q[i] \in Events
      OBVIOUS
    <3> QED
      BY <3>1, <3>2 DEF Events
  <2>3. frames \in Nat
    BY <1>1 DEF M!OneLoop
  <2> QED
    BY <1>1, <2>1, <2>2, <2>3 DEF M!MapTypeOK, MapShape, Messages
<1> QED
  BY <1>1, <1>2, <1>3

----------------------------------------------------------------------------
(***************************************************************************
 Sums.  When g counts the elements of E that F sends to each x, the sum of g is
 the number of elements that F sends to its domain.
 ***************************************************************************)
Fibre(E, F, s) == {i \in E : F[i] \in s}
Counts(g, E, F) == \A x \in DOMAIN g : g[x] = Cardinality(Fibre(E, F, {x}))

LEMMA SplitFibre ==
  ASSUME NEW E, IsFiniteSet(E), NEW F, NEW s, NEW x \in s
  PROVE  /\ Cardinality(Fibre(E, F, s))
              = Cardinality(Fibre(E, F, {x})) + Cardinality(Fibre(E, F, s \ {x}))
         /\ Cardinality(Fibre(E, F, s)) \in Nat
<1> DEFINE A == Fibre(E, F, {x})
           B == Fibre(E, F, s \ {x})
<1>1. /\ IsFiniteSet(A) /\ IsFiniteSet(B) /\ IsFiniteSet(Fibre(E, F, s))
      /\ Cardinality(A) \in Nat /\ Cardinality(B) \in Nat /\ Cardinality(Fibre(E, F, s)) \in Nat
  <2>1. A \in SUBSET E /\ B \in SUBSET E /\ Fibre(E, F, s) \in SUBSET E
    BY DEF Fibre
  <2> HIDE DEF A, B
  <2> QED
    BY <2>1, FS_Subset, FS_CardinalityType
<1>2. Fibre(E, F, s) = A \cup B /\ A \cap B = {}
  BY DEF Fibre
<1> HIDE DEF A, B
<1>3. Cardinality(A \cup B) = Cardinality(A) + Cardinality(B) - Cardinality(A \cap B)
  BY <1>1, FS_Union
<1>4. Cardinality(A \cap B) = 0
  BY <1>2, FS_EmptySet
<1> QED
  BY <1>1, <1>2, <1>3, <1>4 DEF A, B

LEMMA Totals ==
  ASSUME NEW E, IsFiniteSet(E), NEW F, NEW g, IsFiniteSet(DOMAIN g), Counts(g, E, F)
  PROVE  M!Total(g) = Cardinality(Fibre(E, F, DOMAIN g))
<1> DEFINE S == DOMAIN g
           First(s) == CHOOSE x \in s : TRUE
           Body(f, s) == IF s = {} THEN 0 ELSE g[First(s)] + f[s \ {First(s)}]
           Solves(f) == f = [s \in SUBSET S |-> Body(f, s)]
           iter == CHOOSE f : Solves(f)
           h == [s \in SUBSET S |-> Cardinality(Fibre(E, F, s))]
<1>1. M!Total(g) = iter[S]
  BY DEF M!Total, M!MapThenSumSet, M!MapThenFoldSet
<1>2. \A s \in SUBSET S : h[s] = Cardinality(Fibre(E, F, s))
  OBVIOUS
<1>3. \A s \in SUBSET S : s # {} => First(s) \in s /\ First(s) \in S /\ s \ {First(s)} \in SUBSET S
  OBVIOUS
<1> HIDE DEF First, h
<1>4. ASSUME NEW s \in SUBSET S PROVE h[s] = Body(h, s)
  <2>1. CASE s = {}
    <3>1. Fibre(E, F, s) = {}
      BY <2>1 DEF Fibre
    <3> QED
      BY <1>2, <2>1, <3>1, FS_EmptySet
  <2>2. CASE s # {}
    <3> DEFINE x == First(s)
    <3>1. x \in s /\ x \in S /\ s \ {x} \in SUBSET S
      BY <1>3, <2>2
    <3> HIDE DEF x
    <3>2. Cardinality(Fibre(E, F, s))
            = Cardinality(Fibre(E, F, {x})) + Cardinality(Fibre(E, F, s \ {x}))
      BY <3>1, SplitFibre
    <3>3. g[x] = Cardinality(Fibre(E, F, {x}))
      BY <3>1 DEF Counts
    <3>4. h[s] = g[x] + h[s \ {x}]
      BY <1>2, <3>1, <3>2, <3>3
    <3> QED
      BY <2>2, <3>4 DEF x
  <2> QED
    BY <2>1, <2>2
<1>5. Solves(h)
  <2> HIDE DEF Body
  <2>1. h = [s \in SUBSET S |-> h[s]]
    BY DEF h
  <2> QED
    BY <1>4, <2>1
<1>6. Solves(iter)
  <2> HIDE DEF Solves
  <2> QED
    BY <1>5
<1> HIDE DEF iter
<1>7. \A s \in SUBSET S : iter[s] = Body(iter, s)
  <2> HIDE DEF Body
  <2> QED
    BY <1>6
<1> HIDE DEF Solves
<1> DEFINE T == {n \in Nat : \A s \in SUBSET S : Cardinality(s) = n => iter[s] = h[s]}
<1>8. 0 \in T
  <2> SUFFICES ASSUME NEW s \in SUBSET S, Cardinality(s) = 0 PROVE iter[s] = h[s]
    OBVIOUS
  <2>1. s = {}
    <3>1. IsFiniteSet(s)
      BY FS_Subset
    <3> QED
      BY <3>1, FS_EmptySet
  <2> QED
    BY <1>4, <1>7, <2>1
<1>9. ASSUME NEW n \in Nat, n \in T PROVE n + 1 \in T
  <2> SUFFICES ASSUME NEW s \in SUBSET S, Cardinality(s) = n + 1 PROVE iter[s] = h[s]
    OBVIOUS
  <2>1. IsFiniteSet(s) /\ s # {}
    BY FS_Subset, FS_EmptySet
  <2> DEFINE x == First(s)
  <2>2. x \in s /\ s \ {x} \in SUBSET S
    BY <1>3, <2>1
  <2>3. iter[s] = g[x] + iter[s \ {x}] /\ h[s] = g[x] + h[s \ {x}]
    BY <1>4, <1>7, <2>1
  <2> HIDE DEF x
  <2>4. Cardinality(s \ {x}) = n
    <3>1. Cardinality(s \ {x}) = Cardinality(s) - 1
      BY <2>1, <2>2, FS_RemoveElement
    <3> QED
      BY <3>1
  <2>5. iter[s \ {x}] = h[s \ {x}]
    BY <1>9, <2>2, <2>4
  <2> QED
    BY <2>3, <2>5
<1>10. Cardinality(S) \in T
  <2> HIDE DEF T
  <2>1. Nat \subseteq T
    BY <1>8, <1>9, Induction
  <2> QED
    BY <2>1, FS_CardinalityType
<1>11. iter[S] = h[S]
  BY <1>10
<1> QED
  BY <1>1, <1>2, <1>11

\* A strict total order of a finite set puts its elements in the places 0, 1, ...
Below(R, N, l) == {m \in N : <<m, l>> \in R}
Ordered(R, N) ==
  /\ \A l \in N : <<l, l>> \notin R
  /\ \A l, m \in N : l # m => <<l, m>> \in R \/ <<m, l>> \in R
  /\ \A l, m, k \in N : <<l, m>> \in R /\ <<m, k>> \in R => <<l, k>> \in R
Place(R, N) == [l \in N |-> Cardinality(Below(R, N, l))]

LEMMA Places ==
  ASSUME NEW N, IsFiniteSet(N), NEW R, Ordered(R, N)
  PROVE  /\ Place(R, N) \in Bijection(N, 0..(Cardinality(N) - 1))
         /\ \A l, m \in N : Place(R, N)[l] < Place(R, N)[m] => <<l, m>> \in R
<1> DEFINE p == Place(R, N)
           c == Cardinality(N)
<1>1. c \in Nat
  BY FS_CardinalityType
<1>2. \A l \in N : p[l] = Cardinality(Below(R, N, l)) /\ IsFiniteSet(Below(R, N, l))
  <2>1. \A l \in N : Below(R, N, l) \in SUBSET N
    BY DEF Below
  <2>2. \A l \in N : IsFiniteSet(Below(R, N, l))
    BY <2>1, FS_Subset
  <2> QED
    BY <2>2 DEF Place
<1>p. p = [l \in N |-> p[l]]
  BY DEF Place
<1> HIDE DEF p
<1>3. ASSUME NEW l \in N PROVE p[l] \in 0..(c - 1)
  <2>1. Below(R, N, l) \in SUBSET (N \ {l})
    BY DEF Below, Ordered
  <2>2. IsFiniteSet(N \ {l}) /\ Cardinality(N \ {l}) = c - 1
    BY FS_RemoveElement
  <2>3. Cardinality(Below(R, N, l)) <= c - 1 /\ Cardinality(Below(R, N, l)) \in Nat
    BY <1>2, <2>1, <2>2, FS_Subset, FS_CardinalityType
  <2> HIDE DEF c
  <2> QED
    BY <1>1, <1>2, <2>3
<1>4. ASSUME NEW l \in N, NEW m \in N, <<l, m>> \in R PROVE p[l] < p[m]
  <2>1. Below(R, N, l) \in SUBSET Below(R, N, m)
    BY <1>4 DEF Below, Ordered
  <2>2. l \in Below(R, N, m) /\ l \notin Below(R, N, l)
    BY <1>4 DEF Below, Ordered
  <2>3. /\ Cardinality(Below(R, N, l)) <= Cardinality(Below(R, N, m))
        /\ Cardinality(Below(R, N, l)) # Cardinality(Below(R, N, m))
    BY <1>2, <2>1, <2>2, FS_Subset
  <2>4. p[l] \in 0..(c - 1) /\ p[m] \in 0..(c - 1)
    BY <1>3
  <2> HIDE DEF c
  <2> QED
    BY <1>1, <1>2, <2>3, <2>4
<1>5. p \in [N -> 0..(c - 1)]
  BY <1>3, <1>p
<1>6. \A l, m \in N : p[l] = p[m] => l = m
  <2> SUFFICES ASSUME NEW l \in N, NEW m \in N, p[l] = p[m], l # m PROVE FALSE
    OBVIOUS
  <2>1. <<l, m>> \in R \/ <<m, l>> \in R
    BY DEF Ordered
  <2>2. p[l] < p[m] \/ p[m] < p[l]
    BY <1>4, <2>1
  <2>3. p[l] \in Int
    BY <1>3
  <2> QED
    BY <2>2, <2>3
<1>7. p \in Injection(N, 0..(c - 1))
  BY <1>5, <1>6 DEF Injection, IsInjective
<1>8. p \in Bijection(N, 0..(c - 1))
  <2>1. IsFiniteSet(0..(c - 1)) /\ Cardinality(0..(c - 1)) = c
    <3> HIDE DEF c
    <3>1. 0 \in Int /\ c - 1 \in Int
      BY <1>1
    <3>2. /\ IsFiniteSet(0..(c - 1))
          /\ Cardinality(0..(c - 1)) = IF 0 > c - 1 THEN 0 ELSE (c - 1) - 0 + 1
      BY <3>1, FS_Interval
    <3> QED
      BY <1>1, <3>2
  <2>2. p \in Surjection(N, 0..(c - 1))
    BY <1>7, <2>1, FS_Injection
  <2> QED
    BY <1>7, <2>2 DEF Bijection
<1>9. \A l, m \in N : p[l] < p[m] => <<l, m>> \in R
  <2> SUFFICES ASSUME NEW l \in N, NEW m \in N, p[l] < p[m], <<l, m>> \notin R PROVE FALSE
    OBVIOUS
  <2>1. p[l] \in Int /\ p[m] \in Int
    BY <1>3
  <2>2. l # m
    BY <2>1
  <2>3. <<m, l>> \in R
    BY <2>2 DEF Ordered
  <2>4. p[m] < p[l]
    BY <1>4, <2>3
  <2> QED
    BY <2>1, <2>4
<1> QED
  BY <1>8, <1>9 DEF p

\* The first places, as many as there are.
LEMMA FirstPlaces ==
  ASSUME NEW N, IsFiniteSet(N), NEW p \in Bijection(N, 0..(Cardinality(N) - 1)), NEW top \in Nat
  PROVE  Cardinality({l \in N : p[l] < top}) = IF Cardinality(N) < top THEN Cardinality(N) ELSE top
<1> DEFINE c == Cardinality(N)
           k == IF c < top THEN c ELSE top
           A == {l \in N : p[l] < top}
           B == 0..(k - 1)
           g == [l \in A |-> p[l]]
<1>1. c \in Nat
  BY FS_CardinalityType
<1>2. /\ p \in [N -> 0..(c - 1)] /\ \A l, m \in N : p[l] = p[m] => l = m
      /\ \A b \in 0..(c - 1) : \E l \in N : p[l] = b
  BY DEF Bijection, Injection, Surjection, IsInjective
<1> HIDE DEF c
<1>3. k \in Nat /\ k <= c /\ k <= top
  BY <1>1
<1>4. \A l \in A : p[l] \in B
  BY <1>1, <1>2
<1>5. \A b \in B : b \in 0..(c - 1) /\ b < top
  BY <1>1
<1>6. \A b \in B : \E l \in A : g[l] = b
  <2> SUFFICES ASSUME NEW b \in B PROVE \E l \in A : g[l] = b
    OBVIOUS
  <2>1. PICK l \in N : p[l] = b
    BY <1>2, <1>5
  <2>2. l \in A
    BY <1>5, <2>1
  <2> QED
    BY <2>1, <2>2
<1>7. \A l, m \in A : g[l] = g[m] => l = m
  BY <1>2
<1>8. g \in [A -> B]
  BY <1>4
<1> HIDE DEF g, A, B, k
<1>9. g \in Bijection(A, B)
  BY <1>6, <1>7, <1>8 DEF Bijection, Injection, Surjection, IsInjective
<1>10. IsFiniteSet(A)
  BY FS_Subset DEF A
<1>11. Cardinality(A) = Cardinality(B)
  BY <1>9, <1>10, FS_Bijection DEF ExistsBijection
<1>12. Cardinality(B) = k
  <2>1. 0 \in Int /\ k - 1 \in Int
    BY <1>3
  <2>2. Cardinality(0..(k - 1)) = IF 0 > k - 1 THEN 0 ELSE (k - 1) - 0 + 1
    BY <2>1, FS_Interval
  <2> QED
    BY <1>3, <2>2 DEF B
<1> QED
  BY <1>11, <1>12 DEF A, k, c

----------------------------------------------------------------------------
\* The panels.
Names(labels) == M!IdsOf(labels)
Listed(labels) == {n \in Names(labels) :
                     M!Cardinality({m \in Names(labels) : M!Before(labels, m, n)}) < TopN}
Order(labels) == {p \in Names(labels) \X Names(labels) : M!Before(labels, p[1], p[2])}
RowOf(labels, l) == [label |-> l, count |-> M!CountOf(labels, l)]

LEMMA Named ==
  ASSUME NEW X, NEW labels \in Seq(X)
  PROVE  /\ Len(labels) \in Nat /\ DOMAIN labels = 1..Len(labels)
         /\ IsFiniteSet(1..Len(labels)) /\ Cardinality(1..Len(labels)) = Len(labels)
         /\ Names(labels) = {labels[i] : i \in 1..Len(labels)}
         /\ IsFiniteSet(Names(labels))
<1>1. Len(labels) \in Nat /\ DOMAIN labels = 1..Len(labels)
  OBVIOUS
<1>2. Names(labels) = {labels[i] : i \in 1..Len(labels)}
  BY <1>1 DEF Names, M!IdsOf
<1>3. IsFiniteSet(1..Len(labels)) /\ Cardinality(1..Len(labels)) = Len(labels)
  <2> DEFINE n == Len(labels)
  <2> HIDE DEF n
  <2>1. n \in Nat
    BY <1>1 DEF n
  <2>2. IsFiniteSet(1..n) /\ Cardinality(1..n) = IF 1 > n THEN 0 ELSE n - 1 + 1
    BY <2>1, FS_Interval
  <2>3. Cardinality(1..n) = n
    BY <2>1, <2>2
  <2> QED
    BY <2>2, <2>3 DEF n
<1>4. IsFiniteSet(Names(labels))
  <2> DEFINE N == Names(labels)
             f == [i \in 1..Len(labels) |-> labels[i]]
  <2>1. f \in [1..Len(labels) -> N] /\ \A t \in N : \E i \in 1..Len(labels) : f[i] = t
    BY <1>2
  <2> HIDE DEF f, N
  <2>2. f \in Surjection(1..Len(labels), N)
    BY <2>1 DEF Surjection
  <2>3. IsFiniteSet(N)
    BY <1>3, <2>2, FS_Surjection
  <2> QED
    BY <2>3 DEF N
<1> QED
  BY <1>1, <1>2, <1>3, <1>4

LEMMA CountsAndFirsts ==
  ASSUME NEW X, NEW labels \in Seq(X), NEW l \in Names(labels)
  PROVE  /\ M!CountOf(labels, l) = Cardinality({i \in 1..Len(labels) : labels[i] = l})
         /\ M!CountOf(labels, l) \in Nat
         /\ M!FirstOf(labels, l) \in 1..Len(labels) /\ labels[M!FirstOf(labels, l)] = l
<1> DEFINE W == {i \in 1..Len(labels) : labels[i] = l}
<1>1. M!CountOf(labels, l) = Cardinality(W)
  BY MapCard, Named DEF M!CountOf
<1>2. Cardinality(W) \in Nat
  <2>1. W \in SUBSET (1..Len(labels))
    OBVIOUS
  <2> HIDE DEF W
  <2>2. IsFiniteSet(W)
    BY <2>1, Named, FS_Subset
  <2> QED
    BY <2>2, FS_CardinalityType
<1>3. \E i \in DOMAIN labels : labels[i] = l /\ \A j \in 1..(i - 1) : labels[j] # l
  <2>1. W # {} /\ W \in SUBSET Nat /\ DOMAIN labels = 1..Len(labels) /\ Len(labels) \in Nat
    BY Named
  <2>2. PICK i \in W : \A j \in W : i <= j
    <3> HIDE DEF W
    <3> QED
      BY <2>1, Smallest
  <2>3. \A j \in 1..(i - 1) : labels[j] # l
    <3> SUFFICES ASSUME NEW j \in 1..(i - 1), labels[j] = l PROVE FALSE
      OBVIOUS
    <3>1. i \in Nat /\ j \in Nat /\ i <= Len(labels) /\ j < i /\ 1 <= j
      BY <2>1, <2>2
    <3>2. j \in W
      BY <2>1, <3>1
    <3> QED
      BY <2>2, <3>1, <3>2
  <2> QED
    BY <2>1, <2>2, <2>3
<1>4. M!FirstOf(labels, l) \in DOMAIN labels /\ labels[M!FirstOf(labels, l)] = l
  BY <1>3 DEF M!FirstOf
<1> QED
  BY <1>1, <1>2, <1>4, Named

LEMMA PanelOrder ==
  ASSUME NEW X, NEW labels \in Seq(X)
  PROVE  Ordered(Order(labels), Names(labels))
<1> DEFINE N == Names(labels)
           C(l) == M!CountOf(labels, l)
           A(l) == M!FirstOf(labels, l)
<1>1. ASSUME NEW l \in N PROVE C(l) \in Nat /\ A(l) \in Nat /\ labels[A(l)] = l
  <2>1. C(l) \in Nat /\ A(l) \in 1..Len(labels) /\ labels[A(l)] = l
    BY CountsAndFirsts
  <2>2. Len(labels) \in Nat
    OBVIOUS
  <2> HIDE DEF A, C
  <2> QED
    BY <2>1, <2>2
<1>2. \A l, m \in N : <<l, m>> \in Order(labels) <=>
        C(l) > C(m) \/ (C(l) = C(m) /\ A(l) < A(m))
  BY DEF Order, M!Before
<1>3. \A l, m \in N : A(l) = A(m) => l = m
  BY <1>1
<1> HIDE DEF N, C, A
<1>4. \A l \in N : <<l, l>> \notin Order(labels)
  BY <1>1, <1>2
<1>5. \A l, m \in N : l # m => <<l, m>> \in Order(labels) \/ <<m, l>> \in Order(labels)
  BY <1>1, <1>2, <1>3
<1>6. \A l, m, k \in N : <<l, m>> \in Order(labels) /\ <<m, k>> \in Order(labels) =>
        <<l, k>> \in Order(labels)
  BY <1>1, <1>2
<1> QED
  BY <1>4, <1>5, <1>6 DEF Ordered, N

\* The rows of a panel are the labels in its first TopN places.
LEMMA Listing ==
  ASSUME NEW X, NEW labels \in Seq(X)
  PROVE  /\ M!TopRows(labels) = {RowOf(labels, l) : l \in Listed(labels)}
         /\ Listed(labels) = {l \in Names(labels) : Place(Order(labels), Names(labels))[l] < TopN}
<1>1. ASSUME NEW l \in Names(labels)
      PROVE  /\ M!Cardinality({m \in Names(labels) : M!Before(labels, m, l)})
                  = Cardinality({m \in Names(labels) : M!Before(labels, m, l)})
             /\ Place(Order(labels), Names(labels))[l]
                  = Cardinality({m \in Names(labels) : M!Before(labels, m, l)})
  <2>1. Below(Order(labels), Names(labels), l) = {m \in Names(labels) : M!Before(labels, m, l)}
    BY DEF Below, Order
  <2> QED
    BY <2>1, MapCard DEF Place
<1>2. Listed(labels) = {l \in Names(labels) : Place(Order(labels), Names(labels))[l] < TopN}
  BY <1>1 DEF Listed
<1>3. M!TopRows(labels) = {RowOf(labels, l) : l \in Listed(labels)}
  BY DEF M!TopRows, RowOf, Listed, Names
<1> QED
  BY <1>2, <1>3

LEMMA RowsHold ==
  ASSUME NEW X, NEW labels \in Seq(X)
  PROVE  M!RowsFit(labels)
<1> DEFINE N == Names(labels)
           R == Order(labels)
           p == Place(R, N)
           listing == M!TopRows(labels)
           listed == Listed(labels)
<1>1. IsFiniteSet(N) /\ Ordered(R, N) /\ TopN \in Nat
  BY Named, PanelOrder, MapBounds
<1>2. listing = {RowOf(labels, l) : l \in listed} /\ listed = {l \in N : p[l] < TopN}
  BY Listing
<1> HIDE DEF listing, listed
<1>3. \A l \in listed : RowOf(labels, l).label = l /\ RowOf(labels, l).count = M!CountOf(labels, l)
  BY DEF RowOf
<1>4. {r.label : r \in listing} = listed
  BY <1>2, <1>3
<1>5. p \in Bijection(N, 0..(Cardinality(N) - 1)) /\ \A l, m \in N : p[l] < p[m] => <<l, m>> \in R
  BY <1>1, Places
<1>6. IsFiniteSet(listed) /\ IsFiniteSet(listing) /\ Cardinality(listing) = Cardinality(listed)
  <2>1. IsFiniteSet(listed)
    <3>1. listed \in SUBSET N
      BY <1>2
    <3> QED
      BY <1>1, <3>1, FS_Subset
  <2> DEFINE f == [l \in listed |-> RowOf(labels, l)]
  <2>2. f \in [listed -> listing] /\ (\A l, m \in listed : f[l] = f[m] => l = m)
        /\ \A r \in listing : \E l \in listed : f[l] = r
    BY <1>2, <1>3
  <2> HIDE DEF f
  <2>3. f \in Bijection(listed, listing)
    BY <2>2 DEF Bijection, Injection, Surjection, IsInjective
  <2> QED
    BY <2>1, <2>3, FS_Bijection DEF ExistsBijection
<1>7. Cardinality(listing) = IF Cardinality(N) < TopN THEN Cardinality(N) ELSE TopN
  <2>1. Cardinality({l \in N : p[l] < TopN})
          = IF Cardinality(N) < TopN THEN Cardinality(N) ELSE TopN
    <3> HIDE DEF p, N
    <3> QED
      BY <1>1, <1>5, FirstPlaces
  <2> QED
    BY <1>2, <1>6, <2>1
<1>8. ASSUME N = listed PROVE M!Total([r \in listing |-> r.count]) = Len(labels)
  <2> DEFINE g == [r \in listing |-> r.count]
             E == 1..Len(labels)
             F == [i \in E |-> RowOf(labels, labels[i])]
  <2>1. IsFiniteSet(E) /\ Cardinality(E) = Len(labels) /\ N = {labels[i] : i \in E}
    BY Named
  <2>2. \A i \in E : F[i] \in listing
    BY <1>2, <1>8, <2>1
  <2>3. DOMAIN g = listing /\ \A r \in listing : g[r] = r.count
    OBVIOUS
  <2>4. ASSUME NEW r \in listing PROVE g[r] = Cardinality(Fibre(E, F, {r}))
    <3>1. PICK l \in listed : r = RowOf(labels, l)
      BY <1>2
    <3>2. g[r] = M!CountOf(labels, l)
      BY <1>3, <2>3, <3>1
    <3>3. M!CountOf(labels, l) = Cardinality({i \in E : labels[i] = l})
      BY <1>8, CountsAndFirsts
    <3>4. {i \in E : labels[i] = l} = Fibre(E, F, {r})
      <4>1. \A i \in E : F[i] = RowOf(labels, labels[i])
        OBVIOUS
      <4>2. \A i \in E : labels[i] = l <=> F[i] = r
        BY <3>1, <4>1 DEF RowOf
      <4> HIDE DEF F, E
      <4> QED
        BY <4>2 DEF Fibre
    <3> HIDE DEF g, E, F
    <3> QED
      BY <3>2, <3>3, <3>4
  <2>5. Fibre(E, F, DOMAIN g) = E
    BY <2>2, <2>3 DEF Fibre
  <2> HIDE DEF g, E, F
  <2>6. Counts(g, E, F)
    BY <2>3, <2>4 DEF Counts
  <2>7. M!Total(g) = Cardinality(E)
    BY <1>6, <2>1, <2>3, <2>5, <2>6, Totals
  <2> QED
    BY <2>1, <2>7 DEF g
<1>9. ASSUME NEW r \in listing, NEW n \in N \ listed PROVE M!CountOf(labels, n) <= r.count
  <2>1. PICK l \in listed : r = RowOf(labels, l)
    BY <1>2
  <2>2. r.count = M!CountOf(labels, l) /\ l \in N
    BY <1>2, <1>3, <2>1
  <2>3. p[l] < TopN /\ ~(p[n] < TopN) /\ p[l] \in Int /\ p[n] \in Int
    <3>1. p \in [N -> 0..(Cardinality(N) - 1)] /\ Cardinality(N) \in Nat
      BY <1>1, <1>5, FS_CardinalityType DEF Bijection, Injection
    <3> HIDE DEF p
    <3> QED
      BY <1>2, <2>2, <3>1
  <2>4. <<l, n>> \in R
    <3> HIDE DEF p
    <3> QED
      BY <1>1, <1>5, <2>2, <2>3
  <2>5. M!Before(labels, l, n)
    BY <2>4 DEF Order
  <2>6. M!CountOf(labels, l) \in Nat /\ M!CountOf(labels, n) \in Nat
    BY <2>2, CountsAndFirsts
  <2> QED
    BY <2>2, <2>5, <2>6 DEF M!Before
<1>10. M!Cardinality(listing) = Cardinality(listing) /\ M!Cardinality(N) = Cardinality(N)
  BY MapCard
<1> QED
  BY <1>4, <1>7, <1>8, <1>9, <1>10 DEF M!RowsFit, Names, listing

----------------------------------------------------------------------------
\* The chart counts each event of its window once.
LEMMA ChartHolds ==
  ASSUME MapInv
  PROVE  M!Total(M!Chart(store, now, ChartBuckets, 1))
           = M!Cardinality({i \in DOMAIN store : Shape[store[i]].at \in (now - ChartBuckets + 1)..now})
<1> DEFINE g == M!Chart(store, now, ChartBuckets, 1)
           E == M!IdsOf(store)
           F == [id \in E |-> M!Bucket(now, Shape[id].at, ChartBuckets, 1)]
           W == {i \in DOMAIN store : Shape[store[i]].at \in (now - ChartBuckets + 1)..now}
           V == Fibre(E, F, 1..ChartBuckets)
<1>1. /\ store \in Seq(Ids) /\ OnceEach(store) /\ now \in Int /\ ChartBuckets \in Nat
      /\ \A id \in Ids : Shape[id].at \in Int
  BY MapAssumption, MapBounds DEF MapInv, MapShape
<1>2. /\ Len(store) \in Nat /\ DOMAIN store = 1..Len(store) /\ IsFiniteSet(1..Len(store))
      /\ E = {store[i] : i \in 1..Len(store)} /\ IsFiniteSet(E)
  BY <1>1, Named DEF Names
<1>3. E \subseteq Ids
  BY <1>1, <1>2
<1>4. DOMAIN g = 1..ChartBuckets /\ \A b \in 1..ChartBuckets : g[b] = Cardinality(Fibre(E, F, {b}))
  <2>1. g = [b \in 1..ChartBuckets |->
               M!Cardinality({id \in E : M!Bucket(now, Shape[id].at, ChartBuckets, 1) = b})]
    BY DEF M!Chart
  <2>2. \A b : {id \in E : M!Bucket(now, Shape[id].at, ChartBuckets, 1) = b} = Fibre(E, F, {b})
    BY DEF Fibre
  <2> HIDE DEF g, F, E
  <2> QED
    BY <2>1, <2>2, MapCard
<1>5. IsFiniteSet(1..ChartBuckets)
  BY <1>1, FS_Interval
<1>6. \A id \in E : F[id] \in 1..ChartBuckets <=> Shape[id].at \in (now - ChartBuckets + 1)..now
  <2> SUFFICES ASSUME NEW id \in E
               PROVE  M!Bucket(now, Shape[id].at, ChartBuckets, 1) \in 1..ChartBuckets
                        <=> Shape[id].at \in (now - ChartBuckets + 1)..now
    OBVIOUS
  <2> DEFINE at == Shape[id].at
  <2>1. at \in Int
    BY <1>1, <1>3
  <2>2. M!Bucket(now, at, ChartBuckets, 1)
          = IF now >= at /\ now - at < ChartBuckets * 1 THEN ChartBuckets - ((now - at) \div 1) ELSE 0
    BY DEF M!Bucket
  <2> HIDE DEF at
  <2>3. (now - at) \div 1 = now - at /\ ChartBuckets * 1 = ChartBuckets
    BY <1>1, <2>1
  <2>4. M!Bucket(now, at, ChartBuckets, 1) \in 1..ChartBuckets <=> at \in (now - ChartBuckets + 1)..now
    BY <1>1, <2>1, <2>2, <2>3
  <2> QED
    BY <2>4 DEF at
<1> HIDE DEF g, F, E
<1>7. M!Total(g) = Cardinality(V)
  <2>1. Counts(g, E, F)
    BY <1>4 DEF Counts
  <2> QED
    BY <1>2, <1>4, <1>5, <2>1, Totals
<1>8. Cardinality(W) = Cardinality(V)
  <2> DEFINE f == [i \in W |-> store[i]]
  <2>1. W \in SUBSET (1..Len(store)) /\ \A i \in W : store[i] \in E
    BY <1>2
  <2>2. \A i \in W : store[i] \in V
    BY <1>6, <2>1 DEF Fibre
  <2>3. \A d \in V : \E i \in W : store[i] = d
    BY <1>2, <1>6 DEF Fibre
  <2>4. \A i, j \in W : store[i] = store[j] => i = j
    BY <1>1, <2>1 DEF OnceEach
  <2> HIDE DEF W, V
  <2>5. /\ f \in [W -> V] /\ (\A i, j \in W : f[i] = f[j] => i = j)
        /\ \A d \in V : \E i \in W : f[i] = d
    BY <2>2, <2>3, <2>4
  <2> HIDE DEF f
  <2>6. f \in Bijection(W, V)
    BY <2>5 DEF Bijection, Injection, Surjection, IsInjective
  <2>7. IsFiniteSet(W)
    BY <1>2, <2>1, FS_Subset
  <2> QED
    BY <2>6, <2>7, FS_Bijection DEF ExistsBijection
<1> HIDE DEF W, V
<1>9. M!Total(g) = M!Cardinality(W)
  BY <1>7, <1>8, MapCard
<1> QED
  BY <1>9 DEF g, W

LEMMA PanelsHold == ASSUME MapInv PROVE M!PanelsFit
<1>1. display \in Seq(Events) /\ DOMAIN display = 1..Len(display) /\ Len(display) \in Nat
  BY DEF MapInv, MapShape
<1> DEFINE S == M!Sources(display)
           T == M!Targets(display)
           K == M!Vectors(display)
<1>2. \E X : S \in Seq(X)
  <2> DEFINE X == {Shape[display[i].id].source : i \in 1..Len(display)}
  <2>1. S \in Seq(X)
    BY <1>1 DEF M!Sources
  <2> QED
    BY <2>1
<1>3. \E X : T \in Seq(X)
  <2> DEFINE e(i) == IF Shape[display[i].id].target = M!NoTarget
                     THEN "Unknown" ELSE Shape[display[i].id].target
             X == {e(i) : i \in 1..Len(display)}
  <2>1. T = [i \in 1..Len(display) |-> e(i)]
    BY <1>1 DEF M!Targets
  <2> HIDE DEF e
  <2>2. T \in Seq(X)
    BY <1>1, <2>1
  <2> QED
    BY <2>2
<1>4. \E X : K \in Seq(X)
  <2> DEFINE X == {M!Vector(display[i].id) : i \in 1..Len(display)}
  <2>1. K \in Seq(X)
    BY <1>1 DEF M!Vectors
  <2> QED
    BY <2>1
<1> HIDE DEF S, T, K
<1>5. M!RowsFit(S) /\ M!RowsFit(T) /\ M!RowsFit(K)
  BY <1>2, <1>3, <1>4, RowsHold
<1> QED
  BY <1>5, ChartHolds DEF M!PanelsFit, S, T, K

\* MapFits: once the messages are answered and the effects have run, the draw loop has
\* one arc for each pair of places among the displayed events, which counts them all and
\* is as old as the newest; one frame is pending; no event is shown twice, and on the map
\* page each was within its time when the display was last set; the panels and the chart
\* account for every event.
THEOREM MapHolds == Spec => []MapFits
<1>1. MapInv => MapFits
  BY ArcsFit, StampsHold, PanelsHold DEF MapFits, M!MapFits
<1> QED
  BY <1>1, MapInvariant, PTL
====
