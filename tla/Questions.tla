---- MODULE Questions ----
(***************************************************************************
 The panes of the console that send one question and show its answer: AI hunt
 (Logs), IOC search (ThreatIntel), IP intel over the map (ThreatMapLayout), IOC
 lookup (Header), incident summary (AISummaryButton), rule validation and dry run
 (Rules), Discord test (Settings) and the login form.

 Each handler writes its state, awaits the answer and writes state again; nothing
 ties an answer to what the pane shows by then.  A question that is asked while
 another is in flight (Enter where only the button is disabled, or the map's
 dialog closed and opened on another address) may be answered first.  One pane is
 explored at a time; they share no state.

 Abstracted: a question is what it is about; an answer is "ok", "refused" (an
 error status, which apiFetch does not throw on) or "lost" (it throws).
 ***************************************************************************)
EXTENDS Naturals, FiniteSets

CONSTANTS Subjects, NoSubject, MaxAsks

VARIABLES pane,
          subject,   \* what the input holds, or the event under the pointer
          heading,   \* selectedIp of the map's dialog
          flight,    \* questions in flight: number and subject
          asks,      \* questions asked
          busy,      \* isHunting, isSearching, intelLoading, loading, "testing"
          shown,     \* the answer on screen, number 0 for none
          failed,    \* an error is on screen
          resets,    \* pending timers that put the Discord button back to idle
          crossing   \* a question was asked while another was in flight

qVars == <<pane, subject, heading, flight, asks, busy, shown, failed, resets, crossing>>

Panes == {"hunt", "search", "click", "lookup", "summary", "validate", "dryrun",
          "discord", "login"}
Nothing == [n |-> 0, about |-> NoSubject]
Kinds == {"ok", "refused", "lost"}

NoPane ==
  /\ pane = "none" /\ subject = NoSubject /\ heading = NoSubject
  /\ flight = {} /\ asks = 0 /\ busy = FALSE /\ shown = Nothing /\ failed = FALSE
  /\ resets = 0 /\ crossing = FALSE

ClearPane ==
  /\ pane' = "none" /\ subject' = NoSubject /\ heading' = NoSubject
  /\ flight' = {} /\ asks' = 0 /\ busy' = FALSE /\ shown' = Nothing /\ failed' = FALSE
  /\ resets' = 0 /\ crossing' = FALSE

MountPane(p) ==
  /\ pane = "none" /\ pane' = p
  /\ UNCHANGED <<subject, heading, flight, asks, busy, shown, failed, resets, crossing>>

\* The user types, or points at another event or rule.
Choose(s) ==
  /\ pane # "none" /\ subject' = s /\ s # subject
  /\ UNCHANGED <<pane, heading, flight, asks, busy, shown, failed, resets, crossing>>

\* The request of a handler leaves.
Sends ==
  /\ asks < MaxAsks
  /\ asks' = asks + 1
  /\ flight' = flight \cup {[n |-> asks + 1, about |-> subject]}
  /\ crossing' = (flight # {} \/ (crossing /\ flight # {}))
  /\ UNCHANGED <<pane, subject, resets>>

----------------------------------------------------------------------------
\* The handlers up to their await.  "enter" is the key, "button" the button,
\* which is disabled while the pane is busy.

handleHunt(how) ==
  /\ pane = "hunt" /\ subject # NoSubject /\ (how = "button" => ~busy)
  /\ Sends /\ busy' = TRUE /\ shown' = Nothing /\ failed' = FALSE
  /\ UNCHANGED heading

handleSearch(how) ==
  /\ pane = "search" /\ subject # NoSubject /\ (how = "button" => ~busy)
  /\ Sends /\ busy' = TRUE /\ shown' = Nothing /\ failed' = FALSE
  /\ UNCHANGED heading

\* The dialog covers the map: an event is clicked only while it is closed.
handleEventClick ==
  /\ pane = "click" /\ heading = NoSubject /\ subject # NoSubject
  /\ Sends /\ heading' = subject /\ busy' = TRUE /\ shown' = Nothing /\ failed' = FALSE

\* Closing the dialog leaves its request in flight.
CloseDialog ==
  /\ pane = "click" /\ heading # NoSubject
  /\ heading' = NoSubject
  /\ UNCHANGED <<pane, subject, flight, asks, busy, shown, failed, resets, crossing>>

\* The last result stays until another one comes, or is dismissed.
handleLookup ==
  /\ pane = "lookup" /\ subject # NoSubject
  /\ Sends /\ UNCHANGED <<heading, busy, shown, failed>>

\* Dismissing a lookup or a summary.
Dismiss ==
  /\ pane \in {"lookup", "summary"} /\ shown # Nothing
  /\ shown' = Nothing
  /\ UNCHANGED <<pane, subject, heading, flight, asks, busy, failed, resets, crossing>>

handleSummarize ==
  /\ pane = "summary" /\ ~busy
  /\ Sends /\ busy' = TRUE /\ failed' = FALSE /\ UNCHANGED <<heading, shown>>

validateRule ==
  /\ pane = "validate"
  /\ Sends /\ UNCHANGED <<heading, busy, shown, failed>>

dryRunRule ==
  /\ pane = "dryrun"
  /\ Sends /\ UNCHANGED <<heading, busy, shown, failed>>

handleTestDiscord ==
  /\ pane = "discord" /\ ~busy
  /\ Sends /\ busy' = TRUE /\ shown' = Nothing /\ failed' = FALSE
  /\ UNCHANGED heading

\* Three seconds after an answer the button is idle again, a test in flight or not.
DiscordIdle ==
  /\ resets > 0 /\ resets' = resets - 1
  /\ busy' = FALSE /\ shown' = Nothing /\ failed' = FALSE
  /\ UNCHANGED <<pane, subject, heading, flight, asks, crossing>>

handleLogin ==
  /\ pane = "login" /\ subject # NoSubject /\ ~busy
  /\ Sends /\ busy' = TRUE /\ failed' = FALSE /\ UNCHANGED <<heading, shown>>

----------------------------------------------------------------------------
\* The handlers after their await.

Arrives(q) ==
  /\ q \in flight /\ flight' = flight \ {q}
  /\ UNCHANGED <<pane, subject, heading, asks, crossing>>

Show(q) == shown' = q /\ failed' = FALSE
Fail == shown' = Nothing /\ failed' = TRUE
Keep == UNCHANGED <<shown, failed>>

huntAnswer(q, kind) ==
  /\ pane = "hunt" /\ Arrives(q) /\ busy' = FALSE /\ UNCHANGED resets
  /\ IF kind = "lost" THEN Fail ELSE Show(q)

searchAnswer(q, kind) ==
  /\ pane = "search" /\ Arrives(q) /\ busy' = FALSE /\ UNCHANGED resets
  /\ IF kind = "ok" THEN shown' = q /\ UNCHANGED failed
     ELSE failed' = TRUE /\ UNCHANGED shown

clickAnswerIgnoresLoss(q, kind) ==
  /\ pane = "click" /\ Arrives(q) /\ UNCHANGED resets
  /\ IF kind = "lost" THEN UNCHANGED <<busy, shown, failed>> ELSE busy' = FALSE /\ Show(q)

clickAnswer(q, kind) ==
  /\ pane = "click" /\ Arrives(q) /\ busy' = FALSE /\ UNCHANGED resets
  /\ IF kind = "lost" THEN Fail ELSE Show(q)

lookupAnswer(q, kind) ==
  /\ pane = "lookup" /\ Arrives(q) /\ UNCHANGED <<busy, resets>>
  /\ IF kind = "lost" THEN Keep ELSE Show(q)

summaryAnswer(q, kind) ==
  /\ pane = "summary" /\ Arrives(q) /\ busy' = FALSE /\ UNCHANGED resets
  /\ IF kind = "ok" THEN shown' = q /\ UNCHANGED failed
     ELSE failed' = TRUE /\ UNCHANGED shown

validateAnswer(q, kind) ==
  /\ pane = "validate" /\ Arrives(q) /\ UNCHANGED <<busy, resets>>
  /\ IF kind = "ok" THEN Show(q) ELSE Fail

dryRunAnswer(q, kind) ==
  /\ pane = "dryrun" /\ Arrives(q) /\ UNCHANGED <<busy, resets>>
  /\ IF kind = "lost" THEN Keep ELSE Show(q)

discordAnswer(q, kind) ==
  /\ pane = "discord" /\ Arrives(q) /\ busy' = FALSE /\ resets' = resets + 1
  /\ IF kind = "ok" THEN Show(q) ELSE Fail

\* A login that succeeds leaves the page (module Console).
loginAnswer(q, kind) ==
  /\ pane = "login" /\ kind # "ok" /\ Arrives(q) /\ busy' = FALSE /\ UNCHANGED resets
  /\ failed' = TRUE /\ UNCHANGED shown

Answer(q, kind) ==
  \/ huntAnswer(q, kind) \/ searchAnswer(q, kind) \/ clickAnswer(q, kind)
  \/ lookupAnswer(q, kind) \/ summaryAnswer(q, kind) \/ validateAnswer(q, kind)
  \/ dryRunAnswer(q, kind) \/ discordAnswer(q, kind) \/ loginAnswer(q, kind)

Ask ==
  \/ \E how \in {"button", "enter"} : handleHunt(how) \/ handleSearch(how)
  \/ handleEventClick \/ handleLookup \/ handleSummarize \/ validateRule
  \/ dryRunRule \/ handleTestDiscord \/ handleLogin

QNext ==
  \/ Ask \/ CloseDialog \/ Dismiss \/ DiscordIdle
  \/ \E s \in Subjects : Choose(s)
  \/ \E q \in flight, kind \in Kinds : Answer(q, kind)

\* Every request ends, and timers fire.
AnswersCome == \E q \in flight, kind \in Kinds : Answer(q, kind)

PaneFairness == WF_qVars(AnswersCome)

QTypeOK ==
  /\ pane \in Panes \cup {"none"}
  /\ {subject, heading} \subseteq Subjects \cup {NoSubject}
  /\ flight \subseteq [n : 1..MaxAsks, about : Subjects \cup {NoSubject}]
  /\ asks \in 0..MaxAsks /\ resets \in 0..MaxAsks
  /\ {busy, failed, crossing} \subseteq BOOLEAN
  /\ shown \in [n : 0..MaxAsks, about : Subjects \cup {NoSubject}]

\* The panes where an older answer, of the right heading or of none, stays when a
\* newer question gets no answer at all.
KeepsOld == {"lookup", "dryrun"}

\* Unless questions crossed, what a pane shows when it waits for nothing is the
\* answer to the last question, or an error (the Discord button may be idle again);
\* the dialog over the map shows nothing about another address than its heading's,
\* and a pane with a busy mark is busy exactly while its question is in flight.
AnswerFits ==
  ~crossing =>
    /\ flight = {} /\ shown.n > 0 /\ pane \notin KeepsOld =>
         shown.n = asks \/ failed
    /\ pane = "click" /\ heading # NoSubject /\ shown.n > 0 => shown.about = heading
    /\ pane \in {"hunt", "search", "click", "summary", "login"} => (busy <=> flight # {})

\* A pane is busy.
Busy == busy
====
