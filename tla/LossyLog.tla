------------------------------ MODULE LossyLog ------------------------------
(***************************************************************************)
(* What a buffered event store promises: the events accepted reach the     *)
(* table in the order they came, an event leaves the buffer only with all  *)
(* that are older, and as long as the buffer is not written out it keeps   *)
(* the newest Keep events at least.                                        *)
(***************************************************************************)
EXTENDS Integers, Sequences

CONSTANTS
  Entries, \* what may be logged
  Keep     \* the number of newest events that are never given up

VARIABLES
  pending, \* accepted events that are not known to be in the table
  table    \* what has been written, batch after batch

logVars == <<pending, table>>

Init == pending = <<>> /\ table = <<>>

(* The last n elements of s.                                               *)
Newest(s, n) == SubSeq(s, Len(s) - n + 1, Len(s))

(* Writing may succeed, fail, or succeed without the writer learning it.   *)
Settle(q) ==
  \/ table' = table \o q /\ pending' = <<>>
  \/ /\ table' \in {table, table \o q}
     /\ \/ pending' = q
        \/ \E n \in Keep .. Len(q) : pending' = Newest(q, n)

Accept == \E e \in Entries : Settle(Append(pending, e))

Flush == Settle(pending)

Next == Accept \/ Flush

Spec == Init /\ [][Next]_logVars
=============================================================================
