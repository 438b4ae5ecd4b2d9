-------------------------- MODULE ClickHouseBuffer --------------------------
(***************************************************************************)
(* The event store of app/core/clickhouse.py: store_event, which the two   *)
(* pipeline workers call on the event loop, buffers rows and inserts them  *)
(* in batches; a failed insert leaves them for the next call, and a buffer *)
(* past its cap is cut to its newest rows. No method awaits, so each is an *)
(* action. Rows are numbered in the order of the calls.                    *)
(***************************************************************************)
EXTENDS Integers, Sequences, FiniteSets

CONSTANTS
  Limit,    \* _buffer_limit: rows that trigger an insert (50 in the code)
  Cap,      \* rows a failed insert may leave behind (500)
  Keep,     \* the newest rows that survive a cut (100)
  MaxCalls  \* bound: calls of store_event

ASSUME BufferAssumption ==
  /\ Limit \in Nat \ {0}
  /\ Cap \in Nat
  /\ Keep \in Nat \ {0}
  /\ Limit <= Cap
  /\ Keep <= Cap
  /\ MaxCalls \in Nat

VARIABLES
  state,   \* "starting", then "open" (_connected) or "absent", then "closed"
  buffer,  \* _buffer
  table,   \* the rows of threat_events, in the order of the inserts
  calls,   \* history: calls of store_event so far
  fails,   \* history: inserts that have failed since one last succeeded
  unacked  \* history: rows an insert wrote although it failed

vars == <<state, buffer, table, calls, fails, unacked>>

Init ==
  /\ state = "starting"
  /\ buffer = <<>>
  /\ table = <<>>
  /\ calls = 0 /\ fails = 0
  /\ unacked = {}

Rows(s) == {s[i] : i \in 1 .. Len(s)}

(* initialize(): one attempt at startup; a failure is final.               *)
Initialize ==
  /\ state = "starting"
  /\ state' \in {"open", "absent"}
  /\ UNCHANGED <<buffer, table, calls, fails, unacked>>

(* Without a connection store_event returns at once.                       *)
StoreIgnored ==
  /\ state \in {"starting", "absent"}
  /\ calls < MaxCalls
  /\ calls' = calls + 1
  /\ UNCHANGED <<state, buffer, table, fails, unacked>>
-----------------------------------------------------------------------------
(* What is left of the rows after an insert that raised.                   *)
CutNewest(rows) ==
  IF Len(rows) > Cap THEN SubSeq(rows, 1, Keep) ELSE rows

CutShort(rows) ==
  IF Len(rows) > Cap \div 2 THEN SubSeq(rows, Len(rows) - Keep + 1, Len(rows))
  ELSE rows

Cut(rows) ==
  IF Len(rows) > Cap THEN SubSeq(rows, Len(rows) - Keep + 1, Len(rows))
  ELSE rows

(* _flush() with the rows buffered: the insert succeeds, or it raises      *)
(* before or after the server has written the batch.                       *)
FlushClearsAlways(rows) ==
  \/ /\ table' = table \o rows
     /\ buffer' = <<>>
     /\ fails' = 0
     /\ UNCHANGED unacked
  \/ /\ fails' = fails + 1
     /\ buffer' = <<>>
     /\ UNCHANGED <<table, unacked>>

FlushKeepsWritten(rows) ==
  \/ /\ table' = table \o rows
     /\ buffer' = rows
     /\ fails' = 0
     /\ UNCHANGED unacked
  \/ /\ fails' = fails + 1
     /\ buffer' = Cut(rows)
     /\ UNCHANGED <<table, unacked>>

Flush(rows) ==
  \/ /\ table' = table \o rows
     /\ buffer' = <<>>
     /\ fails' = 0
     /\ UNCHANGED unacked
  \/ /\ fails' = fails + 1
     /\ buffer' = Cut(rows)
     /\ \/ UNCHANGED <<table, unacked>>
        \/ table' = table \o rows /\ unacked' = unacked \cup Rows(rows)

StoreOneLate ==
  /\ state = "open"
  /\ calls < MaxCalls
  /\ calls' = calls + 1
  /\ LET rows == Append(buffer, calls + 1) IN
     \/ /\ Len(rows) <= Limit
        /\ buffer' = rows
        /\ UNCHANGED <<table, fails, unacked>>
     \/ /\ Len(rows) > Limit
        /\ Flush(rows)
  /\ UNCHANGED state

Store ==
  /\ state = "open"
  /\ calls < MaxCalls
  /\ calls' = calls + 1
  /\ LET rows == Append(buffer, calls + 1) IN
     \/ /\ Len(rows) < Limit
        /\ buffer' = rows
        /\ UNCHANGED <<table, fails, unacked>>
     \/ /\ Len(rows) >= Limit
        /\ Flush(rows)
  /\ UNCHANGED state

(* close() at shutdown, after the workers were told to stop: one last try. *)
Close ==
  /\ state \in {"open", "absent"}
  /\ state' = "closed"
  /\ IF buffer # <<>> THEN Flush(buffer)
     ELSE UNCHANGED <<buffer, table, fails, unacked>>
  /\ UNCHANGED calls

Done ==
  /\ state = "closed" \/ calls = MaxCalls
  /\ UNCHANGED vars

Next == Initialize \/ StoreIgnored \/ Store \/ Close \/ Done

Spec == Init /\ [][Next]_vars
-----------------------------------------------------------------------------
(* The store's values; the buffer never outgrows Cap between two calls.    *)
TypeOK ==
  /\ state \in {"starting", "open", "absent", "closed"}
  /\ buffer \in Seq(1 .. calls) /\ Len(buffer) <= Cap
  /\ table \in Seq(1 .. calls)
  /\ calls \in 0 .. MaxCalls /\ fails \in Nat
  /\ unacked \subseteq 1 .. calls

(* The buffer holds the latest rows without a gap: whatever inserts fail   *)
(* or the cut throws away, only the oldest rows are missing.               *)
NewestKept ==
  state = "open" =>
    \A i \in 1 .. Len(buffer) : buffer[i] = calls - Len(buffer) + i

(* Rows wait only because inserts fail: the buffer is below Limit plus the *)
(* number of failures in a row, so an outage shorter than Cap - Limit + 2  *)
(* failing inserts gives up no row.                                        *)
OutageTolerated == Len(buffer) < Limit + fails

(* A row is in the table twice only when an insert wrote it and failed.    *)
NoRepeatUnlessUnacked ==
  \A i, j \in 1 .. Len(table) :
    i # j /\ table[i] = table[j] => table[i] \in unacked

(* A row accepted while the store was open is given up only by a cut, and  *)
(* a cut comes only after Cap - Limit + 2 failures without a success.      *)
LossOnlyInOutage ==
  [][\A r \in Rows(buffer) :
       r \notin Rows(buffer') \cup Rows(table')
         => fails' >= Cap - Limit + 2]_vars

(* The store is a lossy log: it keeps what LossyLog promises.              *)
Log == INSTANCE LossyLog WITH pending <- buffer, Entries <- 1 .. MaxCalls
KeepsTheLog == Log!Spec
=============================================================================
