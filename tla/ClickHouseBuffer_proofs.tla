---------------------- MODULE ClickHouseBuffer_proofs ----------------------
(***************************************************************************)
(* Proofs about the event store, for every batch size, cap and survivor    *)
(* count with Limit <= Cap and Keep <= Cap: its invariants, the outage an  *)
(* accepted row survives, and that the store implements LossyLog.          *)
(***************************************************************************)
EXTENDS ClickHouseBuffer, SequenceTheorems, TLAPS

(* The sequence q ends at the n-th call and has no gap.                    *)
Numbered(q, n) ==
  /\ q \in Seq(1 .. n)
  /\ \A i \in 1 .. Len(q) : q[i] = n - Len(q) + i

(* Before the connection is open nothing is buffered.                      *)
EmptyUntilOpen == state \in {"starting", "absent"} => buffer = <<>>

(* A buffered row that is already in the table was written unacknowledged. *)
WrittenUnacked == Rows(buffer) \cap Rows(table) \subseteq unacked

(* The inductive invariant.                                                *)
Inv ==
  /\ TypeOK
  /\ EmptyUntilOpen
  /\ Numbered(buffer, calls)
  /\ OutageTolerated
  /\ WrittenUnacked
  /\ NoRepeatUnlessUnacked
-----------------------------------------------------------------------------
(* A wider numbering only widens the range of a sequence.                  *)
LEMMA SeqWidens ==
  ASSUME NEW n \in Nat, NEW q \in Seq(1 .. n)
  PROVE  q \in Seq(1 .. n + 1)
<1>1. \A i \in 1 .. Len(q) : q[i] \in 1 .. n + 1
  BY ElementOfSeq
<1> QED
  BY <1>1, SeqDef

(* The rows of a concatenation are those of its parts.                     *)
LEMMA RowsOfConcat ==
  ASSUME NEW S, NEW q \in Seq(S), NEW r \in Seq(S)
  PROVE  Rows(q \o r) = Rows(q) \cup Rows(r)
<1>1. /\ Len(q \o r) = Len(q) + Len(r)
      /\ \A i \in 1 .. Len(q) + Len(r) :
           (q \o r)[i] = IF i <= Len(q) THEN q[i] ELSE r[i - Len(q)]
  BY ConcatProperties
<1>2. Len(q) \in Nat /\ Len(r) \in Nat
  BY LenProperties
<1>3. \A x \in Rows(q) : x \in Rows(q \o r)
  BY <1>1, <1>2 DEF Rows
<1>4. ASSUME NEW x \in Rows(r)
      PROVE  x \in Rows(q \o r)
  <2>1. PICK i \in 1 .. Len(r) : x = r[i]
    BY <1>4 DEF Rows
  <2>2. /\ i + Len(q) \in 1 .. Len(q \o r)
        /\ (q \o r)[i + Len(q)] = x
    BY <1>1, <1>2, <2>1
  <2> QED
    BY <2>2 DEF Rows
<1>5. ASSUME NEW x \in Rows(q \o r)
      PROVE  x \in Rows(q) \cup Rows(r)
  <2>1. PICK i \in 1 .. Len(q) + Len(r) : x = (q \o r)[i]
    BY <1>1, <1>5 DEF Rows
  <2>2. CASE i <= Len(q)
    BY <1>1, <1>2, <2>1, <2>2 DEF Rows
  <2>3. CASE ~(i <= Len(q))
    <3>1. i - Len(q) \in 1 .. Len(r) /\ x = r[i - Len(q)]
      BY <1>1, <1>2, <2>1, <2>3
    <3> QED
      BY <3>1 DEF Rows
  <2> QED
    BY <2>2, <2>3
<1> QED
  BY <1>3, <1>4, <1>5

(* Appending the next call keeps the numbering; only its row is new.       *)
LEMMA AppendNumbered ==
  ASSUME NEW n \in Nat, NEW q, Numbered(q, n)
  PROVE  /\ Numbered(Append(q, n + 1), n + 1)
         /\ Len(Append(q, n + 1)) = Len(q) + 1
         /\ Rows(Append(q, n + 1)) = Rows(q) \cup {n + 1}
<1> DEFINE rows == Append(q, n + 1)
<1>1. q \in Seq(1 .. n + 1)
  BY SeqWidens DEF Numbered
<1>2. /\ rows \in Seq(1 .. n + 1)
      /\ Len(rows) = Len(q) + 1
      /\ \A i \in 1 .. Len(q) : rows[i] = q[i]
      /\ rows[Len(q) + 1] = n + 1
  BY <1>1, AppendProperties
<1>3. Len(q) \in Nat
  BY <1>1, LenProperties
<1>4. Numbered(rows, n + 1)
  BY <1>2, <1>3 DEF Numbered
<1>5. Rows(rows) = Rows(q) \cup {n + 1}
  BY <1>2, <1>3 DEF Rows
<1> QED
  BY <1>2, <1>4, <1>5

(* A cut keeps the numbering, adds no row, and leaves Cap rows at most.    *)
LEMMA CutNumbered ==
  ASSUME NEW n \in Nat, NEW q, Numbered(q, n)
  PROVE  /\ Numbered(Cut(q), n)
         /\ Len(Cut(q)) <= Len(q) /\ Len(Cut(q)) <= Cap
         /\ Rows(Cut(q)) \subseteq Rows(q)
<1>1. q \in Seq(1 .. n) /\ Len(q) \in Nat
  BY LenProperties DEF Numbered
<1>2. CASE Len(q) <= Cap
  <2>1. Cut(q) = q
    BY <1>1, <1>2, BufferAssumption DEF Cut
  <2> QED
    BY <1>1, <1>2, <2>1
<1>3. CASE Len(q) > Cap
  <2> DEFINE m == Len(q) - Keep + 1
             c == SubSeq(q, m, Len(q))
  <2>1. m \in 1 .. Len(q) + 1 /\ Len(q) \in m - 1 .. Len(q)
    BY <1>1, <1>3, BufferAssumption
  <2>2. /\ c \in Seq(1 .. n)
        /\ Len(c) = Len(q) - m + 1
        /\ \A i \in 1 .. Len(q) - m + 1 : c[i] = q[m + i - 1]
    <3>1. m \in Int /\ Len(q) \in Int /\ m <= Len(q)
      BY <1>1, <1>3, BufferAssumption
    <3>2. \A i \in m .. Len(q) : q[i] \in 1 .. n
      BY <1>1, <2>1, ElementOfSeq
    <3> HIDE DEF m
    <3> QED
      BY <3>1, <3>2, SubSeqProperties
  <2>3. Cut(q) = c
    BY <1>1, <1>3, BufferAssumption DEF Cut
  <2>4. Len(c) = Keep
    BY <1>1, <2>2, BufferAssumption
  <2>5. \A i \in 1 .. Keep : c[i] = q[m + i - 1] /\ m + i - 1 \in 1 .. Len(q)
    BY <1>1, <2>1, <2>2, <2>4, BufferAssumption
  <2>6. Numbered(c, n)
    <3>1. \A i \in 1 .. Keep : q[m + i - 1] = n - Len(q) + (m + i - 1)
      BY <2>5 DEF Numbered
    <3>2. \A i \in 1 .. Keep : c[i] = n - Keep + i
      BY <1>1, <2>5, <3>1, BufferAssumption
    <3> QED
      BY <2>2, <2>4, <3>2 DEF Numbered
  <2>7. Rows(c) \subseteq Rows(q)
    BY <2>4, <2>5 DEF Rows
  <2>8. Len(c) <= Len(q) /\ Len(c) <= Cap
    BY <1>1, <1>3, <2>4, BufferAssumption
  <2> QED
    BY <2>3, <2>6, <2>7, <2>8
<1> QED
  BY <1>1, <1>2, <1>3, BufferAssumption

(* Writing numbered rows behind the table repeats only what the table      *)
(* already shared with them.                                               *)
LEMMA WriteRepeats ==
  ASSUME NEW n \in Nat, NEW q, Numbered(q, n),
         NEW t \in Seq(1 .. n), NEW U,
         Rows(q) \cap Rows(t) \subseteq U,
         \A i, j \in 1 .. Len(t) : i # j /\ t[i] = t[j] => t[i] \in U
  PROVE  \A i, j \in 1 .. Len(t \o q) :
           i # j /\ (t \o q)[i] = (t \o q)[j] => (t \o q)[i] \in U
<1> DEFINE w == t \o q
<1>1. q \in Seq(1 .. n) /\ Len(q) \in Nat /\ Len(t) \in Nat
  BY LenProperties DEF Numbered
<1>2. /\ Len(w) = Len(t) + Len(q)
      /\ \A i \in 1 .. Len(t) + Len(q) :
           w[i] = IF i <= Len(t) THEN t[i] ELSE q[i - Len(t)]
  BY <1>1, ConcatProperties
<1> HIDE DEF w
<1> SUFFICES ASSUME NEW i \in 1 .. Len(w), NEW j \in 1 .. Len(w),
                    i < j, w[i] = w[j]
             PROVE  w[i] \in U
  <2>1. ASSUME NEW i \in 1 .. Len(w), NEW j \in 1 .. Len(w),
               i # j, w[i] = w[j]
        PROVE  w[i] \in U
    <3>1. i < j \/ j < i
      BY <1>1, <1>2, <2>1
    <3> QED
      BY <2>1, <3>1
  <2> QED
    BY <2>1 DEF w
<1>3. CASE j <= Len(t)
  <2>1. i \in 1 .. Len(t) /\ j \in 1 .. Len(t) /\ i # j
    BY <1>1, <1>2, <1>3
  <2>2. w[i] = t[i] /\ w[j] = t[j]
    BY <1>1, <1>2, <2>1
  <2>3. t[i] \in U
    BY <2>1, <2>2
  <2> QED
    BY <2>2, <2>3
<1>4. CASE i <= Len(t) /\ j > Len(t)
  <2>1. j - Len(t) \in 1 .. Len(q) /\ w[j] = q[j - Len(t)]
    BY <1>1, <1>2, <1>4
  <2>2. i \in 1 .. Len(t) /\ w[i] = t[i]
    BY <1>1, <1>2, <1>4
  <2> QED
    BY <2>1, <2>2 DEF Rows
<1>5. CASE i > Len(t)
  <2>1. /\ i - Len(t) \in 1 .. Len(q) /\ w[i] = q[i - Len(t)]
        /\ j - Len(t) \in 1 .. Len(q) /\ w[j] = q[j - Len(t)]
    BY <1>1, <1>2, <1>5
  <2>2. /\ q[i - Len(t)] = n - Len(q) + (i - Len(t))
        /\ q[j - Len(t)] = n - Len(q) + (j - Len(t))
    BY <2>1 DEF Numbered
  <2>3. i \in Nat /\ j \in Nat
    BY <1>1, <1>2
  <2>4. n - Len(q) + (i - Len(t)) = n - Len(q) + (j - Len(t))
    BY <2>1, <2>2
  <2>5. i = j
    BY <1>1, <2>3, <2>4
  <2> QED
    BY <2>3, <2>5
<1> QED
  BY <1>1, <1>2, <1>3, <1>4, <1>5
-----------------------------------------------------------------------------
(* What _flush does to rows that are numbered up to n, of which those in   *)
(* the table are unacknowledged, and whose number the failures bound.      *)
LEMMA FlushKeeps ==
  ASSUME NEW n \in Nat, NEW q, Numbered(q, n),
         table \in Seq(1 .. n), unacked \subseteq 1 .. n, fails \in Nat,
         Rows(q) \cap Rows(table) \subseteq unacked,
         NoRepeatUnlessUnacked,
         Len(q) <= Limit + fails,
         Flush(q)
  PROVE  /\ Numbered(buffer', n) /\ Len(buffer') <= Cap
         /\ table' \in Seq(1 .. n) /\ unacked' \subseteq 1 .. n /\ fails' \in Nat
         /\ OutageTolerated' /\ WrittenUnacked' /\ NoRepeatUnlessUnacked'
<1>1. q \in Seq(1 .. n) /\ Len(q) \in Nat
  BY LenProperties DEF Numbered
<1>2. /\ table \o q \in Seq(1 .. n)
      /\ Rows(table \o q) = Rows(table) \cup Rows(q)
  BY <1>1, ConcatProperties, RowsOfConcat
<1>3. Rows(q) \subseteq 1 .. n
  BY <1>1, ElementOfSeq DEF Rows
<1>4. Len(<<>>) = 0 /\ Numbered(<<>>, n) /\ Rows(<<>>) = {}
  BY EmptySeq DEF Numbered, Rows
<1>5. /\ Numbered(Cut(q), n)
      /\ Len(Cut(q)) <= Len(q) /\ Len(Cut(q)) <= Cap
      /\ Rows(Cut(q)) \subseteq Rows(q)
  BY CutNumbered
<1>6. Len(Cut(q)) \in Nat
  BY <1>5, LenProperties DEF Numbered
<1>7. CASE /\ table' = table \o q
           /\ buffer' = <<>>
           /\ fails' = 0
           /\ UNCHANGED unacked
  <2>1. NoRepeatUnlessUnacked'
    <3>1. \A i, j \in 1 .. Len(table) :
            i # j /\ table[i] = table[j] => table[i] \in unacked
      BY DEF NoRepeatUnlessUnacked
    <3>2. \A i, j \in 1 .. Len(table \o q) :
            i # j /\ (table \o q)[i] = (table \o q)[j]
              => (table \o q)[i] \in unacked
      BY <3>1, WriteRepeats
    <3> QED
      BY <1>7, <3>2 DEF NoRepeatUnlessUnacked
  <2>2. OutageTolerated'
    BY <1>4, <1>7, BufferAssumption DEF OutageTolerated
  <2>3. WrittenUnacked'
    BY <1>4, <1>7 DEF WrittenUnacked
  <2> QED
    BY <1>2, <1>4, <1>7, <2>1, <2>2, <2>3, BufferAssumption
<1>8. CASE /\ fails' = fails + 1
           /\ buffer' = Cut(q)
           /\ UNCHANGED <<table, unacked>>
  <2>1. OutageTolerated'
    BY <1>1, <1>5, <1>6, <1>8, BufferAssumption DEF OutageTolerated
  <2>2. WrittenUnacked' /\ NoRepeatUnlessUnacked'
    BY <1>5, <1>8 DEF WrittenUnacked, NoRepeatUnlessUnacked
  <2> QED
    BY <1>5, <1>8, <2>1, <2>2
<1>9. CASE /\ fails' = fails + 1
           /\ buffer' = Cut(q)
           /\ table' = table \o q
           /\ unacked' = unacked \cup Rows(q)
  <2>1. OutageTolerated'
    BY <1>1, <1>5, <1>6, <1>9, BufferAssumption DEF OutageTolerated
  <2>2. WrittenUnacked'
    BY <1>5, <1>9 DEF WrittenUnacked
  <2>3. /\ Rows(q) \cap Rows(table) \subseteq unacked'
        /\ \A i, j \in 1 .. Len(table) :
             i # j /\ table[i] = table[j] => table[i] \in unacked'
    BY <1>9 DEF NoRepeatUnlessUnacked
  <2>4. NoRepeatUnlessUnacked'
    BY <1>9, <2>3, WriteRepeats DEF NoRepeatUnlessUnacked
  <2>5. unacked' \subseteq 1 .. n
    BY <1>3, <1>9
  <2>6. fails' \in Nat
    BY <1>9
  <2>7. table' \in Seq(1 .. n) /\ Numbered(buffer', n) /\ Len(buffer') <= Cap
    BY <1>2, <1>5, <1>9
  <2> QED
    BY <2>1, <2>2, <2>4, <2>5, <2>6, <2>7
<1> QED
  BY <1>7, <1>8, <1>9 DEF Flush

LEMMA InvInit == Init => Inv
<1> SUFFICES ASSUME Init PROVE Inv
  OBVIOUS
<1>1. Len(<<>>) = 0 /\ <<>> \in Seq(1 .. 0)
  BY EmptySeq
<1>2. TypeOK
  BY <1>1, BufferAssumption DEF Init, TypeOK
<1>3. Numbered(buffer, calls) /\ OutageTolerated /\ NoRepeatUnlessUnacked
  BY <1>1, BufferAssumption
  DEF Init, Numbered, OutageTolerated, NoRepeatUnlessUnacked
<1>4. EmptyUntilOpen /\ WrittenUnacked
  BY <1>1 DEF Init, EmptyUntilOpen, WrittenUnacked, Rows
<1> QED
  BY <1>2, <1>3, <1>4 DEF Inv

(* The rows a call buffers satisfy what FlushKeeps asks of them.           *)
LEMMA StoreRows ==
  ASSUME Inv, NEW rows, rows = Append(buffer, calls + 1)
  PROVE  /\ Numbered(rows, calls + 1)
         /\ Len(rows) = Len(buffer) + 1 /\ Len(rows) <= Limit + fails
         /\ Rows(rows) = Rows(buffer) \cup {calls + 1}
         /\ Rows(rows) \cap Rows(table) \subseteq unacked
         /\ table \in Seq(1 .. calls + 1) /\ unacked \subseteq 1 .. calls + 1
<1>1. calls \in Nat /\ fails \in Nat /\ Limit \in Nat /\ Len(buffer) \in Nat
  BY BufferAssumption, LenProperties DEF Inv, TypeOK
<1>2. /\ Numbered(rows, calls + 1)
      /\ Len(rows) = Len(buffer) + 1
      /\ Rows(rows) = Rows(buffer) \cup {calls + 1}
  BY <1>1, AppendNumbered DEF Inv
<1>3. table \in Seq(1 .. calls + 1)
  BY <1>1, SeqWidens DEF Inv, TypeOK
<1>4. calls + 1 \notin Rows(table)
  <2>1. \A i \in 1 .. Len(table) : table[i] \in 1 .. calls
    BY ElementOfSeq DEF Inv, TypeOK
  <2> QED
    BY <1>1, <2>1 DEF Rows
<1>5. Rows(rows) \cap Rows(table) \subseteq unacked
  BY <1>2, <1>4 DEF Inv, WrittenUnacked
<1>6. unacked \subseteq 1 .. calls + 1
  BY <1>1 DEF Inv, TypeOK
<1>7. Len(rows) <= Limit + fails
  BY <1>1, <1>2 DEF Inv, OutageTolerated
<1> QED
  BY <1>2, <1>3, <1>5, <1>6, <1>7

LEMMA InvStep == Inv /\ [Next]_vars => Inv'
<1> SUFFICES ASSUME Inv, [Next]_vars PROVE Inv'
  OBVIOUS
<1> USE DEF Inv
<1>1. /\ calls \in Nat /\ fails \in Nat /\ MaxCalls \in Nat
      /\ Len(buffer) \in Nat
  BY BufferAssumption, LenProperties DEF TypeOK
<1>2. CASE Initialize
  BY <1>2 DEF Initialize, TypeOK, EmptyUntilOpen, OutageTolerated,
              WrittenUnacked, NoRepeatUnlessUnacked
<1>3. CASE StoreIgnored
  <2>1. buffer = <<>> /\ Len(<<>>) = 0
    BY <1>3, EmptySeq DEF StoreIgnored, EmptyUntilOpen
  <2>2. calls' = calls + 1 /\ calls' \in 0 .. MaxCalls
    BY <1>1, <1>3 DEF StoreIgnored
  <2>3. table \in Seq(1 .. calls') /\ unacked \subseteq 1 .. calls'
    BY <1>1, <2>2, SeqWidens DEF TypeOK
  <2>4. Numbered(<<>>, calls')
    BY <2>1, <2>2, EmptySeq DEF Numbered
  <2>5. TypeOK' /\ Numbered(buffer, calls)'
    BY <1>3, <2>1, <2>2, <2>3, <2>4 DEF StoreIgnored, TypeOK, Numbered
  <2>6. EmptyUntilOpen' /\ OutageTolerated' /\ WrittenUnacked'
        /\ NoRepeatUnlessUnacked'
    BY <1>3 DEF StoreIgnored, EmptyUntilOpen, OutageTolerated,
                WrittenUnacked, NoRepeatUnlessUnacked
  <2> QED
    BY <2>5, <2>6
<1>4. CASE Store
  <2> DEFINE rows == Append(buffer, calls + 1)
  <2>1. /\ state = "open" /\ state' = "open"
        /\ calls' = calls + 1 /\ calls' \in 0 .. MaxCalls
    BY <1>1, <1>4 DEF Store
  <2>2. /\ Numbered(rows, calls + 1)
        /\ Len(rows) = Len(buffer) + 1 /\ Len(rows) <= Limit + fails
        /\ Rows(rows) = Rows(buffer) \cup {calls + 1}
        /\ Rows(rows) \cap Rows(table) \subseteq unacked
        /\ table \in Seq(1 .. calls + 1) /\ unacked \subseteq 1 .. calls + 1
    BY StoreRows
  <2> HIDE DEF rows
  <2>3. CASE Len(rows) < Limit /\ buffer' = rows /\ UNCHANGED <<table, fails, unacked>>
    <3>1. Len(rows) <= Cap /\ OutageTolerated'
      BY <1>1, <2>2, <2>3, BufferAssumption DEF OutageTolerated
    <3>2. Numbered(buffer, calls)' /\ buffer' \in Seq(1 .. calls')
      BY <2>1, <2>2, <2>3 DEF Numbered
    <3>3. TypeOK'
      BY <2>1, <2>2, <2>3, <3>1, <3>2 DEF TypeOK
    <3>4. EmptyUntilOpen' /\ WrittenUnacked' /\ NoRepeatUnlessUnacked'
      BY <2>1, <2>2, <2>3 DEF EmptyUntilOpen, WrittenUnacked, NoRepeatUnlessUnacked
    <3> QED
      BY <3>1, <3>2, <3>3, <3>4
  <2>4. CASE Flush(rows)
    <3>1. /\ Numbered(buffer', calls + 1) /\ Len(buffer') <= Cap
          /\ table' \in Seq(1 .. calls + 1) /\ unacked' \subseteq 1 .. calls + 1
          /\ fails' \in Nat
          /\ OutageTolerated' /\ WrittenUnacked' /\ NoRepeatUnlessUnacked'
      BY <1>1, <2>2, <2>4, FlushKeeps
    <3>2. Numbered(buffer, calls)' /\ TypeOK' /\ EmptyUntilOpen'
      BY <2>1, <3>1 DEF Numbered, TypeOK, EmptyUntilOpen
    <3> QED
      BY <3>1, <3>2
  <2> QED
    BY <1>4, <2>3, <2>4 DEF Store, rows
<1>5. CASE Close
  <2>1. state' = "closed" /\ calls' = calls
    BY <1>5 DEF Close
  <2>2. CASE Flush(buffer)
    <3>1. Len(buffer) <= Limit + fails
      BY <1>1, BufferAssumption DEF OutageTolerated
    <3>2. /\ Numbered(buffer', calls) /\ Len(buffer') <= Cap
          /\ table' \in Seq(1 .. calls) /\ unacked' \subseteq 1 .. calls
          /\ fails' \in Nat
          /\ OutageTolerated' /\ WrittenUnacked' /\ NoRepeatUnlessUnacked'
      BY <1>1, <2>2, <3>1, FlushKeeps DEF TypeOK, WrittenUnacked
    <3>3. Numbered(buffer, calls)' /\ TypeOK' /\ EmptyUntilOpen'
      BY <2>1, <3>2 DEF Numbered, TypeOK, EmptyUntilOpen
    <3> QED
      BY <3>2, <3>3
  <2>3. CASE UNCHANGED <<buffer, table, fails, unacked>>
    BY <2>1, <2>3 DEF TypeOK, EmptyUntilOpen, Numbered, OutageTolerated,
                      WrittenUnacked, NoRepeatUnlessUnacked
  <2> QED
    BY <1>5, <2>2, <2>3 DEF Close
<1>6. CASE UNCHANGED vars
  BY <1>6 DEF vars, TypeOK, EmptyUntilOpen, Numbered, OutageTolerated,
              WrittenUnacked, NoRepeatUnlessUnacked
<1> QED
  BY <1>2, <1>3, <1>4, <1>5, <1>6 DEF Next, Done

THEOREM Invariance == Spec => []Inv
  BY InvInit, InvStep, PTL DEF Spec

(* The buffer's rows and bounds are what TypeOK says: it never holds more  *)
(* than Cap rows between two calls.                                        *)
THEOREM TypeCorrect == Spec => []TypeOK
<1>1. Inv => TypeOK
  BY DEF Inv
<1> QED
  BY <1>1, Invariance, PTL

(* The buffer is a gapless run that ends with the latest call.             *)
THEOREM NewestRows == Spec => []NewestKept
<1>1. Inv => NewestKept
  BY DEF Inv, Numbered, NewestKept
<1> QED
  BY <1>1, Invariance, PTL

(* Rows wait only for as many failing inserts as there were.               *)
THEOREM Outage == Spec => []OutageTolerated
<1>1. Inv => OutageTolerated
  BY DEF Inv
<1> QED
  BY <1>1, Invariance, PTL

(* Only an insert that wrote and then failed repeats a row.                *)
THEOREM NoRepeat == Spec => []NoRepeatUnlessUnacked
<1>1. Inv => NoRepeatUnlessUnacked
  BY DEF Inv
<1> QED
  BY <1>1, Invariance, PTL
-----------------------------------------------------------------------------
(* What becomes of buffered rows in a flush: written, kept, or cut.        *)
LEMMA FlushLosesLate ==
  ASSUME NEW n \in Nat, NEW q, Numbered(q, n), fails \in Nat,
         table \in Seq(1 .. n), Flush(q),
         NEW r \in Rows(q), r \notin Rows(buffer') \cup Rows(table')
  PROVE  Len(q) > Cap /\ fails' = fails + 1
<1>1. q \in Seq(1 .. n) /\ Rows(table \o q) = Rows(table) \cup Rows(q)
  BY RowsOfConcat DEF Numbered
<1>2. table' # table \o q
  BY <1>1
<1>3. buffer' = Cut(q) /\ fails' = fails + 1
  BY <1>2 DEF Flush
<1>4. Cut(q) # q
  BY <1>3
<1> QED
  BY <1>3, <1>4 DEF Cut

LEMMA LossStep ==
  Inv /\ [Next]_vars =>
    \/ \A r \in Rows(buffer) :
         r \notin Rows(buffer') \cup Rows(table') => fails' >= Cap - Limit + 2
    \/ UNCHANGED vars
<1> SUFFICES ASSUME Inv, Next,
                    NEW r \in Rows(buffer),
                    r \notin Rows(buffer') \cup Rows(table')
             PROVE  fails' >= Cap - Limit + 2
  OBVIOUS
<1>1. /\ calls \in Nat /\ fails \in Nat /\ Limit \in Nat /\ Cap \in Nat
      /\ Len(buffer) \in Nat
  BY BufferAssumption, LenProperties DEF Inv, TypeOK
<1>2. buffer' # buffer
  OBVIOUS
<1>3. CASE Store
  <2> DEFINE rows == Append(buffer, calls + 1)
  <2>1. /\ Numbered(rows, calls + 1) /\ Len(rows) = Len(buffer) + 1
        /\ r \in Rows(rows) /\ table \in Seq(1 .. calls + 1)
    BY StoreRows
  <2> HIDE DEF rows
  <2>2. buffer' # rows
    BY <2>1
  <2>3. Flush(rows)
    BY <1>3, <2>2 DEF Store, rows
  <2>4. Len(rows) > Cap /\ fails' = fails + 1
    BY <1>1, <2>1, <2>3, FlushLosesLate
  <2> QED
    BY <1>1, <2>1, <2>4 DEF Inv, OutageTolerated
<1>4. CASE Close
  <2>1. Flush(buffer)
    BY <1>2, <1>4 DEF Close
  <2>2. Len(buffer) > Cap
    BY <1>1, <2>1, FlushLosesLate DEF Inv, TypeOK
  <2> QED
    BY <1>1, <2>2 DEF Inv, TypeOK
<1> QED
  BY <1>2, <1>3, <1>4 DEF Next, Initialize, StoreIgnored, Done, vars

(* An accepted row is given up only in an outage of Cap - Limit + 2        *)
(* failing inserts at least.                                               *)
THEOREM Loss == Spec => LossOnlyInOutage
<1>1. Inv /\ [Next]_vars =>
        [\A r \in Rows(buffer) :
           r \notin Rows(buffer') \cup Rows(table')
             => fails' >= Cap - Limit + 2]_vars
  BY LossStep
<1> QED
  BY <1>1, Invariance, PTL DEF Spec, LossOnlyInOutage
-----------------------------------------------------------------------------
(* A flush settles the rows, in the sense of the abstract log.             *)
LEMMA FlushSettles ==
  ASSUME NEW n \in Nat, NEW q, Numbered(q, n), Flush(q)
  PROVE  Log!Settle(q)
<1>1. Len(q) \in Nat
  BY LenProperties DEF Numbered
<1>2. Cut(q) = q \/ \E k \in Keep .. Len(q) : Cut(q) = Log!Newest(q, k)
  BY <1>1, BufferAssumption DEF Cut, Log!Newest
<1>3. CASE table' = table \o q /\ buffer' = <<>>
  BY <1>3 DEF Log!Settle
<1>4. CASE buffer' = Cut(q) /\ table' \in {table, table \o q}
  BY <1>2, <1>4 DEF Log!Settle
<1> QED
  BY <1>3, <1>4 DEF Flush

LEMMA LogStep == Inv /\ [Next]_vars => [Log!Next]_(Log!logVars)
<1> SUFFICES ASSUME Inv, Next PROVE Log!Next \/ UNCHANGED <<buffer, table>>
  BY DEF vars, Log!logVars
<1>1. calls \in Nat /\ MaxCalls \in Nat
  BY BufferAssumption DEF Inv, TypeOK
<1>2. CASE Store
  <2> DEFINE rows == Append(buffer, calls + 1)
  <2>1. calls + 1 \in 1 .. MaxCalls
    BY <1>1, <1>2 DEF Store
  <2>2. Numbered(rows, calls + 1)
    BY StoreRows
  <2> HIDE DEF rows
  <2>3. (buffer' = rows /\ table' = table) \/ Flush(rows)
    BY <1>2 DEF Store, rows
  <2>4. Flush(rows) => Log!Settle(rows)
    BY <1>1, <2>2, FlushSettles
  <2>5. Log!Settle(rows)
    BY <2>3, <2>4 DEF Log!Settle
  <2> QED
    BY <2>1, <2>5 DEF Log!Next, Log!Accept, rows
<1>3. CASE Close
  <2>1. Flush(buffer) => Log!Settle(buffer)
    BY <1>1, FlushSettles DEF Inv
  <2> QED
    BY <1>3, <2>1 DEF Close, Log!Next, Log!Flush
<1> QED
  BY <1>2, <1>3 DEF Next, Initialize, StoreIgnored, Done, vars

(* The event store implements the lossy log.                               *)
THEOREM Refinement == Spec => KeepsTheLog
<1>1. Init => Log!Init
  BY DEF Init, Log!Init
<1> QED
  BY <1>1, Invariance, LogStep, PTL DEF Spec, KeepsTheLog, Log!Spec
=============================================================================
