-------------------------- MODULE Detection_proofs --------------------------
(***************************************************************************)
(* Proofs about the detection rules, for any rules on disk, any drafts,    *)
(* any number of dry runs and of events: no rule is lost to dry runs that  *)
(* end well, none counts an event twice while they do not overlap, and an  *)
(* incident is asked for once per window whatever they do.                 *)
(***************************************************************************)
EXTENDS Detection, SequenceTheorems, TLAPS

(* The types, with what they need of the iterator and the histories.       *)
Types ==
  /\ TypeOK
  /\ at >= 1
  /\ attempts \in [Names -> Nat] /\ since \in [Names -> Nat]
  /\ evaluated \in [DryRuns -> SUBSET Rules]
  /\ overlapped \in BOOLEAN

(* Which list is current tells where its dry run is; a list a dry run has  *)
(* loaded holds the files it has read, whoever else appends to it.         *)
Places ==
  /\ rules # <<None, "draft">>
  /\ \A d \in DryRuns :
       /\ dry[d] \in {"new", "testing", "restoring", "failed"} => read[d] = 0
       /\ dry[d] = "done" => read[d] = Len(Disk)
       /\ rules = <<d, "draft">> => dry[d] \in {"testing", "restoring", "failed"}
       /\ rules = <<d, "load">> => dry[d] \in {"loading", "done"}
       /\ ref # None /\ ref = <<d, "draft">> => dry[d] # "new"
       /\ ref # None /\ ref = <<d, "load">> => dry[d] \in {"loading", "done"}

Holds(l, n) == \A i \in 1 .. n : Disk[i] \in ToSet(lists[l])

Contents ==
  /\ Holds(<<None, "load">>, Len(Disk))
  /\ \A d \in DryRuns :
       rules = <<d, "load">> => Holds(<<d, "load">>, read[d])

IsLoaded(l, n) ==
  Len(lists[l]) = n /\ \A i \in 1 .. n : lists[l][i] = Disk[i]

(* Until two dry runs overlap, the active one's list is the current one,   *)
(* and each list is exactly what its dry run made of it.                   *)
Alone ==
  /\ \A d, e \in Active : d = e
  /\ lists[<<None, "load">>] = Disk /\ lists[<<None, "draft">>] = <<>>
  /\ \A d \in DryRuns :
       /\ dry[d] \in {"testing", "restoring"} => rules = <<d, "draft">>
       /\ dry[d] = "loading" => rules = <<d, "load">>
       /\ lists[<<d, "draft">>] = IF dry[d] = "new" THEN <<>> ELSE <<draft[d]>>
       /\ IsLoaded(<<d, "load">>, read[d])
       /\ evaluated[d] \subseteq IF dry[d] = "new" THEN {} ELSE {draft[d]}

(* The names the worker has passed in the list it iterates over; for every *)
(* other name the event in progress is yet to be counted.                  *)
Seen == IF ref = None THEN Names
        ELSE {n \in Names : \E i \in 1 .. at - 1 : Name[lists[ref][i]] = n}

Counted ==
  /\ ref # None => at <= Len(lists[ref]) + 1
  /\ \A n \in Names :
       state[n].count + (IF n \in Seen THEN 0 ELSE 1) <= since[n]

Attempted ==
  \A n \in Names : attempts[n] = IF state[n].incident_created THEN 1 ELSE 0

Inv ==
  /\ Types /\ Places /\ Contents /\ Attempted
  /\ ~overlapped => Alone /\ Counted
-----------------------------------------------------------------------------
LEMMA Ids ==
  /\ \A d, e, x, y : <<d, x>> = <<e, y>> => d = e /\ x = y
  /\ \A d \in DryRuns : /\ <<d, "draft">> \in ListIds /\ <<d, "load">> \in ListIds
                        /\ d # None
  /\ <<None, "load">> \in ListIds /\ <<None, "draft">> \in ListIds
  /\ \A l \in ListIds : \E d \in DryRuns \cup {None} :
       l = <<d, "draft">> \/ l = <<d, "load">>
  BY DetectionAssumption DEF ListIds

LEMMA DiskRules ==
  /\ Len(Disk) \in Nat /\ DOMAIN Disk = 1 .. Len(Disk)
  /\ \A i \in 1 .. Len(Disk) : Disk[i] \in Rules
  BY DetectionAssumption, LenProperties, ElementOfSeq

LEMMA NamesOfRules == \A r \in Rules : Name[r] \in Names
  BY DEF Names

LEMMA RuleTypes ==
  ASSUME Types, ref # None, at <= Len(lists[ref])
  PROVE  Rule \in Rules /\ Name[Rule] \in Names
<1>1. ref \in ListIds /\ lists[ref] \in Seq(Rules) /\ at \in 1 .. Len(lists[ref])
  BY LenProperties DEF Types, TypeOK
<1> QED
  BY <1>1, ElementOfSeq, NamesOfRules DEF Rule

LEMMA CorrelateTypes ==
  ASSUME Types, NEW r \in Rules, Correlate(r)
  PROVE  /\ state' \in [Names -> [count : Nat, incident_created : BOOLEAN]]
         /\ ticks' \in [Names -> 0 .. Window + 1]
         /\ since' \in [Names -> Nat] /\ attempts' \in [Names -> Nat]
<1> DEFINE n == Name[r]
           old == IF Fresh(n) THEN Absent ELSE state[n]
           count == old.count + 1
           asks == count >= Threshold[r] /\ ~old.incident_created
<1>1. n \in Names /\ Window \in Nat
  BY NamesOfRules, DetectionAssumption
<1>2. old \in [count : Nat, incident_created : BOOLEAN]
  BY <1>1 DEF Types, TypeOK, Absent
<1>3. /\ state' = [state EXCEPT ![n] =
           [count |-> count, incident_created |-> old.incident_created \/ asks]]
      /\ ticks' = [ticks EXCEPT ![n] = IF Fresh(n) THEN 0 ELSE @]
      /\ since' = [since EXCEPT ![n] = IF Fresh(n) THEN 1 ELSE @]
      /\ attempts' = [attempts EXCEPT ![n] =
           (IF Fresh(n) THEN 0 ELSE @) + (IF asks THEN 1 ELSE 0)]
  BY DEF Correlate
<1> HIDE DEF n, old
<1>4. (old.incident_created \/ asks) \in BOOLEAN
  BY <1>2
<1>5. [count |-> count, incident_created |-> old.incident_created \/ asks]
        \in [count : Nat, incident_created : BOOLEAN]
  BY <1>2, <1>4
<1>6. state' \in [Names -> [count : Nat, incident_created : BOOLEAN]]
  BY <1>3, <1>5 DEF Types, TypeOK
<1>7. ticks' \in [Names -> 0 .. Window + 1]
  BY <1>1, <1>3 DEF Types, TypeOK
<1>8. since' \in [Names -> Nat] /\ attempts' \in [Names -> Nat]
  BY <1>1, <1>3 DEF Types
<1> QED
  BY <1>6, <1>7, <1>8

LEMMA TypesInit == Init => Types
<1> SUFFICES ASSUME Init PROVE Types
  OBVIOUS
<1>1. lists \in [ListIds -> Seq(Rules)] /\ rules \in ListIds
  BY Ids, DetectionAssumption DEF Init
<1>2. /\ dry \in [DryRuns -> {"new", "testing", "restoring", "loading", "done",
                              "failed"}]
      /\ read \in [DryRuns -> 0 .. Len(Disk)]
      /\ draft \in [DryRuns -> Drafts \cup {None}]
      /\ evaluated \in [DryRuns -> SUBSET Rules]
  BY DiskRules DEF Init
<1>3. /\ ref \in ListIds \cup {None} /\ at \in Nat /\ at >= 1
      /\ events \in 0 .. MaxEvents
      /\ attempts \in [Names -> Nat] /\ since \in [Names -> Nat]
      /\ ticks \in [Names -> 0 .. Window + 1]
  BY DetectionAssumption DEF Init
<1>4. state \in [Names -> [count : Nat, incident_created : BOOLEAN]]
  BY DEF Init, Absent
<1>5. overlapped \in BOOLEAN
  BY DEF Init
<1> QED
  BY <1>1, <1>2, <1>3, <1>4, <1>5 DEF Types, TypeOK

LEMMA TypesNext == Types /\ [Next]_vars => Types'
<1> SUFFICES ASSUME Types, [Next]_vars PROVE Types'
  OBVIOUS
<1> USE DetectionAssumption DEF ruleVars, workerVars
<1>a. /\ lists \in [ListIds -> Seq(Rules)] /\ rules \in ListIds
      /\ read \in [DryRuns -> 0 .. Len(Disk)]
  BY DEF Types, TypeOK
<1>1. ASSUME NEW d \in DryRuns, NEW r \in Drafts, SetDraft(d, r) PROVE Types'
  <2>1. <<r>> \in Seq(Rules) /\ <<d, "draft">> \in ListIds
    <3>1. r \in Rules
      BY DEF Rules
    <3>2. <<r>> \in Seq(Rules)
      BY <3>1
    <3> QED
      BY <3>2, Ids
  <2>2. lists' \in [ListIds -> Seq(Rules)] /\ rules' \in ListIds
    BY <1>1, <1>a, <2>1 DEF SetDraft, Rebind
  <2>3. /\ dry' \in [DryRuns -> {"new", "testing", "restoring", "loading", "done",
                                 "failed"}]
        /\ draft' \in [DryRuns -> Drafts \cup {None}]
    BY <1>1 DEF SetDraft, Types, TypeOK
  <2>4. overlapped' \in BOOLEAN
    BY <1>1 DEF SetDraft
  <2> QED
    BY <1>1, <2>2, <2>3, <2>4 DEF SetDraft, Types, TypeOK
<1>2. ASSUME NEW d \in DryRuns, Test(d) PROVE Types'
  <2>1. ToSet(lists[rules]) \subseteq Rules
    BY <1>a, LenProperties, ElementOfSeq DEF ToSet
  <2>2. evaluated' \in [DryRuns -> SUBSET Rules]
    BY <1>2, <2>1 DEF Test, Types
  <2>3. dry' \in [DryRuns -> {"new", "testing", "restoring", "loading", "done",
                              "failed"}]
    BY <1>2 DEF Test, Types, TypeOK
  <2> QED
    BY <1>2, <2>2, <2>3 DEF Test, Types, TypeOK
<1>3. ASSUME NEW d \in DryRuns, Clear(d) PROVE Types'
  <2>1. <<>> \in Seq(Rules) /\ <<d, "load">> \in ListIds
    <3>1. <<>> \in Seq(Rules)
      OBVIOUS
    <3> QED
      BY <3>1, Ids
  <2>2. lists' \in [ListIds -> Seq(Rules)] /\ rules' \in ListIds
    BY <1>3, <1>a, <2>1 DEF Clear, Rebind
  <2>3. dry' \in [DryRuns -> {"new", "testing", "restoring", "loading", "done",
                              "failed"}]
    BY <1>3 DEF Clear, Types, TypeOK
  <2> QED
    BY <1>3, <2>2, <2>3 DEF Clear, Types, TypeOK
<1>4. ASSUME NEW d \in DryRuns, Load(d) PROVE Types'
  <2>1. CASE read[d] < Len(Disk) /\ read' = [read EXCEPT ![d] = @ + 1]
    <3>1. read[d] + 1 \in 1 .. Len(Disk) /\ Disk[read[d] + 1] \in Rules
      BY <1>a, <2>1, DiskRules
    <3>2. lists' = [lists EXCEPT ![rules] = Append(@, Disk[read[d] + 1])]
          /\ dry' = dry
      BY <1>4, <1>a, <2>1 DEF Load
    <3>3. Append(lists[rules], Disk[read[d] + 1]) \in Seq(Rules)
      BY <1>a, <3>1, AppendProperties
    <3>4. lists' \in [ListIds -> Seq(Rules)]
      BY <1>a, <3>2, <3>3
    <3>5. read' \in [DryRuns -> 0 .. Len(Disk)]
      BY <1>a, <2>1, <3>1, DiskRules
    <3> QED
      BY <1>4, <3>2, <3>4, <3>5 DEF Load, Types, TypeOK
  <2>2. CASE /\ dry' = [dry EXCEPT ![d] = "done"]
             /\ read' = read /\ lists' = lists
    BY <1>4, <2>2 DEF Load, Types, TypeOK
  <2> QED
    BY <1>4, <2>1, <2>2 DEF Load
<1>5. CASE TakeEvent
  BY <1>5 DEF TakeEvent, Types, TypeOK
<1>6. CASE Evaluate
  <2>1. Rule \in Rules
    BY <1>6, RuleTypes DEF Evaluate
  <2>2. CASE Correlate(Rule)
    <3>1. /\ state' \in [Names -> [count : Nat, incident_created : BOOLEAN]]
          /\ ticks' \in [Names -> 0 .. Window + 1]
          /\ since' \in [Names -> Nat] /\ attempts' \in [Names -> Nat]
      BY <2>1, <2>2, CorrelateTypes
    <3>2. /\ at' = at + 1 /\ ref' = ref /\ events' = events
          /\ UNCHANGED ruleVars
      BY <1>6 DEF Evaluate
    <3> HIDE DEF workerVars
    <3> QED
      BY <3>1, <3>2 DEF Types, TypeOK
  <2>3. CASE UNCHANGED <<state, ticks, since, attempts>>
    BY <1>6, <2>3 DEF Evaluate, Types, TypeOK
  <2> QED
    BY <1>6, <2>2, <2>3 DEF Evaluate
<1>7. CASE EndEvent
  BY <1>7 DEF EndEvent, Types, TypeOK
<1>8. CASE Tick
  <2>1. \A n \in Names : ticks[n] + (IF n \in Aging THEN 1 ELSE 0)
                           \in 0 .. Window + 1
    BY DEF Types, TypeOK, Aging
  <2>2. ticks' \in [Names -> 0 .. Window + 1]
    BY <1>8, <2>1 DEF Tick
  <2> QED
    BY <1>8, <2>2 DEF Tick, Types, TypeOK
<1>9. CASE Finished \/ UNCHANGED vars
  BY <1>9 DEF Finished, vars, Types, TypeOK
<1> QED
  BY <1>1, <1>2, <1>3, <1>4, <1>5, <1>6, <1>7, <1>8, <1>9 DEF Next
-----------------------------------------------------------------------------
(* What the worker and the clock leave alone.                              *)
LEMMA WorkerSteps ==
  ASSUME [Next]_vars,
         ~ \E d \in DryRuns : \/ \E r \in Drafts : SetDraft(d, r)
                              \/ Test(d) \/ Clear(d) \/ Load(d)
  PROVE  /\ UNCHANGED ruleVars
         /\ ref' \in {ref, rules, None}
  BY DEF Next, TakeEvent, Evaluate, EndEvent, Tick, Finished, vars, ruleVars,
         workerVars

LEMMA PlacesInit == Types /\ Init => Places
<1> SUFFICES ASSUME Types, Init PROVE Places
  OBVIOUS
<1>1. rules = <<None, "load">> /\ ref = None
  BY DEF Init
<1>2. \A d \in DryRuns : rules # <<d, "draft">> /\ rules # <<d, "load">>
  BY <1>1, Ids
<1>3. \A d \in DryRuns : dry[d] = "new" /\ read[d] = 0
  BY DEF Init
<1>4. rules # <<None, "draft">>
  BY <1>1, Ids
<1> QED
  BY <1>1, <1>2, <1>3, <1>4 DEF Places

LEMMA PlacesNext == Types /\ Places /\ [Next]_vars => Places'
<1> SUFFICES ASSUME Types, Places, [Next]_vars PROVE Places'
  OBVIOUS
<1> USE DEF ruleVars, workerVars
<1>a. /\ dry \in [DryRuns -> {"new", "testing", "restoring", "loading", "done",
                              "failed"}]
      /\ read \in [DryRuns -> 0 .. Len(Disk)]
  BY DEF Types, TypeOK
<1>1. ASSUME NEW d \in DryRuns, NEW r \in Drafts, SetDraft(d, r) PROVE Places'
  BY <1>1, <1>a, Ids DEF SetDraft, Rebind, Places
<1>2. ASSUME NEW d \in DryRuns, Test(d) PROVE Places'
  BY <1>2, <1>a, Ids DEF Test, Places
<1>3. ASSUME NEW d \in DryRuns, Clear(d) PROVE Places'
  BY <1>3, <1>a, Ids DEF Clear, Rebind, Places
<1>4. ASSUME NEW d \in DryRuns, Load(d) PROVE Places'
  BY <1>4, <1>a, Ids DEF Load, Places
<1>5. CASE UNCHANGED ruleVars /\ ref' \in {ref, rules, None}
  BY <1>5 DEF Places
<1> QED
  BY <1>1, <1>2, <1>3, <1>4, <1>5, WorkerSteps

LEMMA ContentsInit == Types /\ Init => Contents
<1> SUFFICES ASSUME Types, Init PROVE Contents
  OBVIOUS
<1>1. Holds(<<None, "load">>, Len(Disk))
  BY Ids, DiskRules DEF Init, Holds, ToSet
<1>2. \A d \in DryRuns : read[d] = 0
  BY DEF Init
<1>3. \A d \in DryRuns : Holds(<<d, "load">>, read[d])
  BY <1>2 DEF Holds
<1> QED
  BY <1>1, <1>3 DEF Contents

(* Appending to a list keeps what it holds, and adds a file to it.         *)
LEMMA HoldsAppend ==
  ASSUME Types, NEW k \in ListIds, NEW r \in Rules,
         lists' = [lists EXCEPT ![k] = Append(@, r)]
  PROVE  /\ \A l \in ListIds : \A x : x \in ToSet(lists[l]) => x \in ToSet(lists'[l])
         /\ r \in ToSet(lists'[k])
<1>1. \A l \in ListIds : lists'[l] = IF l = k THEN Append(lists[k], r) ELSE lists[l]
  BY DEF Types, TypeOK
<1>2. /\ lists[k] \in Seq(Rules) /\ DOMAIN lists[k] = 1 .. Len(lists[k])
      /\ Len(lists[k]) \in Nat
  BY LenProperties DEF Types, TypeOK
<1> DEFINE u == Append(lists[k], r)
<1>3. /\ DOMAIN u = 1 .. Len(lists[k]) + 1
      /\ \A i \in 1 .. Len(lists[k]) : u[i] = lists[k][i]
      /\ u[Len(lists[k]) + 1] = r
  BY <1>2, AppendProperties, LenProperties
<1> HIDE DEF u
<1>4. \A x : x \in ToSet(lists[k]) => x \in ToSet(u)
  BY <1>2, <1>3 DEF ToSet
<1>5. r \in ToSet(u)
  BY <1>2, <1>3 DEF ToSet
<1> QED
  BY <1>1, <1>4, <1>5 DEF u

LEMMA ContentsNext == Types /\ Places /\ Contents /\ [Next]_vars => Contents'
<1> SUFFICES ASSUME Types, Places, Contents, [Next]_vars PROVE Contents'
  OBVIOUS
<1> USE DEF ruleVars, workerVars
<1>a. /\ lists \in [ListIds -> Seq(Rules)] /\ rules \in ListIds
      /\ read \in [DryRuns -> 0 .. Len(Disk)]
  BY DEF Types, TypeOK
<1>1. ASSUME NEW d \in DryRuns, NEW r \in Drafts, SetDraft(d, r) PROVE Contents'
  <2>1. /\ rules' = <<d, "draft">> /\ read' = read
        /\ lists' = [lists EXCEPT ![<<d, "draft">>] = <<r>>]
    BY <1>1 DEF SetDraft, Rebind
  <2>2. lists'[<<None, "load">>] = lists[<<None, "load">>]
    BY <1>a, <2>1, Ids
  <2>3. \A e \in DryRuns : rules' # <<e, "load">>
    BY <2>1, Ids
  <2> QED
    BY <2>2, <2>3 DEF Contents, Holds
<1>2. ASSUME NEW d \in DryRuns, Test(d) PROVE Contents'
  BY <1>2 DEF Test, Contents, Holds
<1>3. ASSUME NEW d \in DryRuns, Clear(d) PROVE Contents'
  <2>1. /\ rules' = <<d, "load">> /\ read' = read /\ dry[d] = "restoring"
        /\ lists' = [lists EXCEPT ![<<d, "load">>] = <<>>]
    BY <1>3 DEF Clear, Rebind
  <2>2. lists'[<<None, "load">>] = lists[<<None, "load">>]
    BY <1>a, <2>1, Ids
  <2>3. \A e \in DryRuns : rules' = <<e, "load">> => e = d
    BY <2>1, Ids
  <2>4. read'[d] = 0
    BY <2>1 DEF Places
  <2> QED
    BY <2>2, <2>3, <2>4 DEF Contents, Holds
<1>4. ASSUME NEW d \in DryRuns, Load(d) PROVE Contents'
  <2>1. CASE read[d] < Len(Disk) /\ read' = [read EXCEPT ![d] = @ + 1]
    <3>1. read[d] + 1 \in 1 .. Len(Disk) /\ Disk[read[d] + 1] \in Rules
      BY <1>a, <2>1, DiskRules
    <3>2. /\ lists' = [lists EXCEPT ![rules] = Append(@, Disk[read[d] + 1])]
          /\ rules' = rules
      BY <1>4, <1>a, <2>1 DEF Load
    <3>3. /\ \A l \in ListIds : \A x : x \in ToSet(lists[l]) => x \in ToSet(lists'[l])
          /\ Disk[read[d] + 1] \in ToSet(lists'[rules])
      BY <1>a, <3>1, <3>2, HoldsAppend
    <3>4. Holds(<<None, "load">>, Len(Disk))'
      BY <3>3, Ids DEF Contents, Holds
    <3>5. ASSUME NEW e \in DryRuns, rules' = <<e, "load">>
          PROVE  Holds(<<e, "load">>, read[e])'
      <4>1. \A i \in 1 .. read[e] : Disk[i] \in ToSet(lists'[rules])
        BY <1>a, <3>2, <3>3, <3>5 DEF Contents, Holds
      <4>2. read'[e] = read[e] \/ (e = d /\ read'[e] = read[e] + 1)
        BY <1>a, <2>1
      <4>3. read[e] \in Nat
        BY <1>a, DiskRules
      <4>4. \A i \in 1 .. read'[e] : Disk[i] \in ToSet(lists'[rules])
        BY <3>3, <4>1, <4>2, <4>3
      <4> QED
        BY <3>2, <3>5, <4>4 DEF Holds
    <3> QED
      BY <3>4, <3>5 DEF Contents
  <2>2. CASE read' = read /\ lists' = lists
    BY <1>4, <2>2 DEF Load, Contents, Holds
  <2> QED
    BY <1>4, <2>1, <2>2 DEF Load
<1>5. CASE UNCHANGED ruleVars
  BY <1>5 DEF Contents, Holds
<1> QED
  BY <1>1, <1>2, <1>3, <1>4, <1>5, WorkerSteps

LEMMA AttemptedInit == Init => Attempted
  BY DEF Init, Attempted, Absent

LEMMA AttemptedNext == Types /\ Attempted /\ [Next]_vars => Attempted'
<1> SUFFICES ASSUME Types, Attempted, [Next]_vars PROVE Attempted'
  OBVIOUS
<1> USE DEF ruleVars, workerVars
<1>1. CASE UNCHANGED <<state, attempts>>
  BY <1>1 DEF Attempted
<1>2. CASE Evaluate /\ Correlate(Rule)
  <2> DEFINE n == Name[Rule]
             old == IF Fresh(n) THEN Absent ELSE state[n]
             count == old.count + 1
             asks == count >= Threshold[Rule] /\ ~old.incident_created
             new == [count |-> count,
                     incident_created |-> old.incident_created \/ asks]
  <2>1. n \in Names
    BY <1>2, RuleTypes DEF Evaluate
  <2>2. /\ state' = [state EXCEPT ![n] = new]
        /\ attempts' = [attempts EXCEPT ![n] =
             (IF Fresh(n) THEN 0 ELSE @) + (IF asks THEN 1 ELSE 0)]
    BY <1>2 DEF Correlate
  <2>3. old.incident_created \in BOOLEAN
    BY <2>1 DEF Types, TypeOK, Absent
  <2>4. (IF Fresh(n) THEN 0 ELSE attempts[n])
          = IF old.incident_created THEN 1 ELSE 0
    BY <2>1 DEF Attempted, Absent
  <2>5. new.incident_created = (old.incident_created \/ asks)
    OBVIOUS
  <2>6. state \in [Names -> [count : Nat, incident_created : BOOLEAN]]
        /\ attempts \in [Names -> Nat]
    BY DEF Types, TypeOK
  <2> HIDE DEF old, new, n
  <2>7. attempts'[n] = IF old.incident_created \/ asks THEN 1 ELSE 0
    BY <2>1, <2>2, <2>3, <2>4, <2>6
  <2>8. \A m \in Names : m # n => state'[m] = state[m] /\ attempts'[m] = attempts[m]
    BY <2>2, <2>6
  <2>9. state'[n] = new
    BY <2>1, <2>2, <2>6
  <2> QED
    BY <2>1, <2>5, <2>7, <2>8, <2>9 DEF Attempted
<1> QED
  BY <1>1, <1>2 DEF Next, SetDraft, Test, Clear, Load, TakeEvent, Evaluate,
     EndEvent, Tick, Finished, vars
-----------------------------------------------------------------------------
(* Overlap is forever.                                                     *)
LEMMA OverlapStays == [Next]_vars /\ overlapped => overlapped'
  BY DEF Next, SetDraft, Test, Clear, Load, TakeEvent, Evaluate, EndEvent, Tick,
         Finished, vars, ruleVars, workerVars

LEMMA AloneInit == Types /\ Init => Alone
<1> SUFFICES ASSUME Types, Init PROVE Alone
  OBVIOUS
<1>1. Active = {}
  BY DEF Init, Active
<1>2. lists[<<None, "load">>] = Disk
  BY Ids DEF Init
<1>3. lists[<<None, "draft">>] = <<>>
  BY Ids DEF Init
<1>4. ASSUME NEW d \in DryRuns
      PROVE  /\ lists[<<d, "draft">>] = <<>> /\ lists[<<d, "load">>] = <<>>
             /\ dry[d] = "new" /\ read[d] = 0 /\ evaluated[d] = {}
  BY Ids DEF Init
<1>5. \A d \in DryRuns : IsLoaded(<<d, "load">>, read[d])
  <2>1. Len(<<>>) = 0
    OBVIOUS
  <2>2. ASSUME NEW l, lists[l] = <<>> PROVE IsLoaded(l, 0)
    BY <2>1, <2>2 DEF IsLoaded
  <2> QED
    BY <1>4, <2>2
<1> QED
  BY <1>1, <1>2, <1>3, <1>4, <1>5 DEF Alone

LEMMA AloneNext ==
  Types /\ Places /\ Alone /\ [Next]_vars /\ ~overlapped' => Alone'
<1> SUFFICES ASSUME Types, Places, Alone, [Next]_vars, ~overlapped'
             PROVE  Alone'
  OBVIOUS
<1> USE DEF ruleVars, workerVars
<1>a. /\ lists \in [ListIds -> Seq(Rules)] /\ rules \in ListIds
      /\ read \in [DryRuns -> 0 .. Len(Disk)]
      /\ dry \in [DryRuns -> {"new", "testing", "restoring", "loading", "done",
                              "failed"}]
      /\ draft \in [DryRuns -> Drafts \cup {None}]
      /\ evaluated \in [DryRuns -> SUBSET Rules]
  BY DEF Types, TypeOK
<1>1. ASSUME NEW d \in DryRuns, NEW r \in Drafts, SetDraft(d, r) PROVE Alone'
  <2>1. /\ rules' = <<d, "draft">> /\ read' = read /\ evaluated' = evaluated
        /\ lists' = [lists EXCEPT ![<<d, "draft">>] = <<r>>]
        /\ dry[d] = "new" /\ dry' = [dry EXCEPT ![d] = "testing"]
        /\ draft' = [draft EXCEPT ![d] = r]
    BY <1>1 DEF SetDraft, Rebind
  <2>2. Active = {}
    BY <1>1 DEF SetDraft
  <2>3. \A e \in DryRuns : dry[e] \notin {"testing", "restoring", "loading"}
    BY <2>2 DEF Active
  <2>4. \A l \in ListIds : l # <<d, "draft">> => lists'[l] = lists[l]
    BY <1>a, <2>1
  <2>5. lists'[<<d, "draft">>] = <<r>>
    BY <1>a, <2>1, Ids
  <2>6. \A e, f \in Active' : e = f
    BY <1>a, <2>1, <2>3 DEF Active
  <2>7. /\ lists'[<<None, "load">>] = Disk
        /\ lists'[<<None, "draft">>] = <<>>
    BY <2>4, Ids DEF Alone
  <2>8. ASSUME NEW e \in DryRuns
        PROVE  /\ dry'[e] \in {"testing", "restoring"} => rules' = <<e, "draft">>
               /\ dry'[e] # "loading"
               /\ lists'[<<e, "draft">>]
                    = IF dry'[e] = "new" THEN <<>> ELSE <<draft'[e]>>
               /\ IsLoaded(<<e, "load">>, read[e])'
               /\ evaluated'[e]
                    \subseteq IF dry'[e] = "new" THEN {} ELSE {draft'[e]}
    <3>1. IsLoaded(<<e, "load">>, read[e])'
      <4>1. lists'[<<e, "load">>] = lists[<<e, "load">>]
        BY <2>4, Ids
      <4>2. IsLoaded(<<e, "load">>, read[e])
        BY DEF Alone
      <4> QED
        BY <2>1, <4>1, <4>2 DEF IsLoaded
    <3>2. CASE e = d
      BY <1>a, <2>1, <2>5, <3>1, <3>2 DEF Alone
    <3>3. CASE e # d
      <4>1. lists'[<<e, "draft">>] = lists[<<e, "draft">>]
        BY <2>4, <3>3, Ids
      <4> QED
        BY <1>a, <2>1, <2>3, <3>1, <3>3, <4>1 DEF Alone
    <3> QED
      BY <3>2, <3>3
  <2> QED
    BY <2>1, <2>6, <2>7, <2>8 DEF Alone
<1>2. ASSUME NEW d \in DryRuns, Test(d) PROVE Alone'
  <2>1. /\ rules' = rules /\ read' = read /\ draft' = draft /\ lists' = lists
        /\ evaluated' = [evaluated EXCEPT ![d] = @ \cup ToSet(lists[rules])]
        /\ dry[d] = "testing"
        /\ dry' = dry \/ dry' = [dry EXCEPT ![d] = "restoring"]
                      \/ dry' = [dry EXCEPT ![d] = "failed"]
    BY <1>2 DEF Test
  <2>2. ToSet(lists[rules]) = {draft[d]}
    <3>1. lists[rules] = <<draft[d]>>
      BY <2>1 DEF Alone
    <3> QED
      BY <3>1 DEF ToSet
  <2>3. Active' \subseteq Active
    BY <1>a, <2>1 DEF Active
  <2>4. ASSUME NEW e \in DryRuns
        PROVE  /\ dry'[e] = "new" <=> dry[e] = "new"
               /\ dry'[e] \in {"testing", "restoring"} =>
                    dry[e] \in {"testing", "restoring"}
               /\ dry'[e] = "loading" => dry[e] = "loading"
               /\ evaluated'[e]
                    \subseteq IF dry[e] = "new" THEN {} ELSE {draft[e]}
    BY <1>a, <2>1, <2>2 DEF Alone
  <2> QED
    BY <2>1, <2>3, <2>4 DEF Alone, IsLoaded
<1>3. ASSUME NEW d \in DryRuns, Clear(d) PROVE Alone'
  <2>1. /\ rules' = <<d, "load">> /\ read' = read /\ evaluated' = evaluated
        /\ lists' = [lists EXCEPT ![<<d, "load">>] = <<>>]
        /\ dry[d] = "restoring" /\ dry' = [dry EXCEPT ![d] = "loading"]
        /\ draft' = draft
    BY <1>3 DEF Clear, Rebind
  <2>2. \A l \in ListIds : l # <<d, "load">> => lists'[l] = lists[l]
    BY <1>a, <2>1
  <2>3. lists'[<<d, "load">>] = <<>>
    BY <1>a, <2>1, Ids
  <2>4. Active' = Active /\ d \in Active
    BY <1>a, <2>1 DEF Active
  <2>5. \A e \in DryRuns : e # d => e \notin Active
    BY <2>4 DEF Alone
  <2>6. \A e \in DryRuns :
          e # d => dry[e] \notin {"testing", "restoring", "loading"}
    BY <2>5 DEF Active
  <2>7. /\ lists'[<<None, "load">>] = Disk
        /\ lists'[<<None, "draft">>] = <<>>
    BY <2>2, Ids DEF Alone
  <2>8. ASSUME NEW e \in DryRuns
        PROVE  /\ dry'[e] \notin {"testing", "restoring"}
               /\ dry'[e] = "loading" => e = d
               /\ dry'[e] = "new" <=> dry[e] = "new"
               /\ lists'[<<e, "draft">>] = lists[<<e, "draft">>]
    BY <1>a, <2>1, <2>2, <2>6, Ids
  <2>9. ASSUME NEW e \in DryRuns
        PROVE  IsLoaded(<<e, "load">>, read[e])'
    <3>1. CASE e = d
      <4>1. Len(<<>>) = 0
        OBVIOUS
      <4> QED
        BY <2>1, <2>3, <3>1, <4>1 DEF Places, IsLoaded
    <3>2. CASE e # d
      <4>1. lists'[<<e, "load">>] = lists[<<e, "load">>]
        BY <2>2, <3>2, Ids
      <4>2. IsLoaded(<<e, "load">>, read[e])
        BY DEF Alone
      <4> QED
        BY <2>1, <4>1, <4>2 DEF IsLoaded
    <3> QED
      BY <3>1, <3>2
  <2> QED
    BY <2>1, <2>4, <2>7, <2>8, <2>9 DEF Alone
<1>4. ASSUME NEW d \in DryRuns, Load(d) PROVE Alone'
  <2>1. /\ rules' = rules /\ draft' = draft /\ evaluated' = evaluated
        /\ dry[d] = "loading" /\ rules = <<d, "load">>
    BY <1>4 DEF Load, Alone
  <2>2. CASE read[d] < Len(Disk) /\ read' = [read EXCEPT ![d] = @ + 1]
    <3> DEFINE k == read[d]
               u == lists[rules]
    <3>1. k + 1 \in 1 .. Len(Disk) /\ Disk[k + 1] \in Rules /\ k \in Nat
      BY <1>a, <2>2, DiskRules
    <3>2. lists' = [lists EXCEPT ![rules] = Append(u, Disk[k + 1])]
          /\ dry' = dry
      BY <1>4, <1>a, <2>2 DEF Load
    <3>3. \A l \in ListIds : l # <<d, "load">> => lists'[l] = lists[l]
      BY <1>a, <2>1, <3>2
    <3>4. /\ u \in Seq(Rules) /\ Len(u) = k
          /\ \A i \in 1 .. k : u[i] = Disk[i]
      BY <1>a, <2>1 DEF Alone, IsLoaded
    <3>5. lists'[<<d, "load">>] = Append(u, Disk[k + 1])
      BY <1>a, <2>1, <3>2, Ids
    <3> HIDE DEF k, u
    <3>6. /\ Len(Append(u, Disk[k + 1])) = k + 1
          /\ \A i \in 1 .. k + 1 : Append(u, Disk[k + 1])[i] = Disk[i]
      BY <3>1, <3>4, AppendProperties
    <3>7. read'[d] = k + 1 /\ \A e \in DryRuns : e # d => read'[e] = read[e]
      BY <1>a, <2>2 DEF k
    <3>8. ASSUME NEW e \in DryRuns
          PROVE  /\ lists'[<<e, "draft">>] = lists[<<e, "draft">>]
                 /\ IsLoaded(<<e, "load">>, read[e])'
      <4>1. lists'[<<e, "draft">>] = lists[<<e, "draft">>]
        BY <3>3, Ids
      <4>2. CASE e = d
        BY <3>5, <3>6, <3>7, <4>1, <4>2 DEF IsLoaded
      <4>3. CASE e # d
        <5>1. lists'[<<e, "load">>] = lists[<<e, "load">>]
          BY <3>3, <4>3, Ids
        <5>2. IsLoaded(<<e, "load">>, read[e])
          BY DEF Alone
        <5> QED
          BY <3>7, <4>1, <4>3, <5>1, <5>2 DEF IsLoaded
      <4> QED
        BY <4>2, <4>3
    <3>9. /\ lists'[<<None, "load">>] = Disk
          /\ lists'[<<None, "draft">>] = <<>>
      BY <3>3, Ids DEF Alone
    <3>10. Active' = Active
      BY <3>2 DEF Active
    <3> QED
      BY <2>1, <3>2, <3>8, <3>9, <3>10 DEF Alone
  <2>3. CASE /\ dry' = [dry EXCEPT ![d] = "done"]
             /\ read' = read /\ lists' = lists
    <3>1. Active' \subseteq Active
      BY <1>a, <2>3 DEF Active
    <3>2. \A e \in DryRuns :
            /\ dry'[e] = "new" <=> dry[e] = "new"
            /\ dry'[e] \in {"testing", "restoring", "loading"} => dry'[e] = dry[e]
      BY <1>a, <2>1, <2>3
    <3> QED
      BY <2>1, <2>3, <3>1, <3>2 DEF Alone, IsLoaded
  <2> QED
    BY <1>4, <2>2, <2>3 DEF Load
<1>5. CASE UNCHANGED ruleVars
  BY <1>5 DEF Alone, Active, IsLoaded
<1> QED
  BY <1>1, <1>2, <1>3, <1>4, <1>5, WorkerSteps
-----------------------------------------------------------------------------
(* While dry runs do not overlap no list has two rules of one name.        *)
LEMMA DistinctNames ==
  ASSUME Types, Alone, NEW l \in ListIds,
         NEW i \in 1 .. Len(lists[l]), NEW j \in 1 .. Len(lists[l]),
         Name[lists[l][i]] = Name[lists[l][j]]
  PROVE  i = j
<1>1. PICK d \in DryRuns \cup {None} : l = <<d, "draft">> \/ l = <<d, "load">>
  BY Ids
<1>2. \A a, b \in 1 .. Len(Disk) : Name[Disk[a]] = Name[Disk[b]] => a = b
  BY DetectionAssumption, DiskRules
<1>3. CASE l = <<None, "load">>
  BY <1>2, <1>3 DEF Alone
<1>4. CASE l = <<None, "draft">>
  BY <1>4 DEF Alone
<1>5. CASE d \in DryRuns /\ l = <<d, "draft">>
  <2>1. lists[l] = <<>> \/ lists[l] = <<draft[d]>>
    BY <1>5 DEF Alone
  <2> QED
    BY <2>1
<1>6. CASE d \in DryRuns /\ l = <<d, "load">>
  <2>1. /\ Len(lists[l]) = read[d] /\ read[d] \in 0 .. Len(Disk)
        /\ \A a \in 1 .. read[d] : lists[l][a] = Disk[a]
    BY <1>6 DEF Alone, IsLoaded, Types, TypeOK
  <2>2. i \in 1 .. Len(Disk) /\ j \in 1 .. Len(Disk)
    BY <2>1, DiskRules
  <2> QED
    BY <1>2, <2>1, <2>2
<1> QED
  BY <1>1, <1>3, <1>4, <1>5, <1>6

LEMMA CountedInit == Types /\ Init => Counted
  BY DEF Init, Counted, Seen, Absent

(* The list under the iteration may grow, and be replaced as the current   *)
(* one; what the worker has passed stays.                                  *)
LEMMA CountedGrows ==
  ASSUME Types, Counted, UNCHANGED workerVars,
         ref # None =>
           /\ Len(lists[ref]) <= Len(lists'[ref])
           /\ Len(lists[ref]) \in Nat /\ Len(lists'[ref]) \in Nat
           /\ \A i \in 1 .. Len(lists[ref]) : lists'[ref][i] = lists[ref][i]
  PROVE  Counted'
<1>1. Seen' = Seen
  <2>1. ref # None => \A i \in 1 .. at - 1 : lists'[ref][i] = lists[ref][i]
    BY DEF Counted, Types, TypeOK
  <2> QED
    BY <2>1 DEF Seen, workerVars
<1> QED
  BY <1>1 DEF Counted, workerVars, Types, TypeOK

LEMMA CountedNext ==
  Types /\ Places /\ Alone /\ Counted /\ [Next]_vars => Counted'
<1> SUFFICES ASSUME Types, Places, Alone, Counted, [Next]_vars PROVE Counted'
  OBVIOUS
<1>a. /\ lists \in [ListIds -> Seq(Rules)] /\ rules \in ListIds
      /\ read \in [DryRuns -> 0 .. Len(Disk)]
      /\ ref \in ListIds \cup {None} /\ at \in Nat /\ at >= 1
      /\ state \in [Names -> [count : Nat, incident_created : BOOLEAN]]
      /\ since \in [Names -> Nat]
  BY DEF Types, TypeOK
<1>b. \A l \in ListIds : Len(lists[l]) \in Nat
  BY <1>a, LenProperties
<1>1. ASSUME NEW d \in DryRuns, NEW r \in Drafts, SetDraft(d, r) PROVE Counted'
  <2>1. /\ lists' = [lists EXCEPT ![<<d, "draft">>] = <<r>>]
        /\ dry[d] = "new" /\ UNCHANGED workerVars
    BY <1>1 DEF SetDraft, Rebind
  <2>2. ref # None => ref # <<d, "draft">>
    BY <2>1 DEF Places
  <2>3. ref # None => lists'[ref] = lists[ref]
    BY <1>a, <2>1, <2>2
  <2>4. ref # None => Len(lists[ref]) \in Nat
    BY <1>a, <1>b
  <2>5. UNCHANGED workerVars
    BY <2>1
  <2> QED
    BY <2>3, <2>4, <2>5, CountedGrows
<1>2. ASSUME NEW d \in DryRuns, Clear(d) PROVE Counted'
  <2>1. /\ lists' = [lists EXCEPT ![<<d, "load">>] = <<>>]
        /\ dry[d] = "restoring" /\ UNCHANGED workerVars
    BY <1>2 DEF Clear, Rebind
  <2>2. ref # None => ref # <<d, "load">>
    BY <2>1 DEF Places
  <2>3. ref # None => lists'[ref] = lists[ref]
    BY <1>a, <2>1, <2>2
  <2>4. ref # None => Len(lists[ref]) \in Nat
    BY <1>a, <1>b
  <2>5. UNCHANGED workerVars
    BY <2>1
  <2> QED
    BY <2>3, <2>4, <2>5, CountedGrows
<1>3. ASSUME NEW d \in DryRuns, Test(d) PROVE Counted'
  BY <1>3, <1>a, <1>b, CountedGrows DEF Test
<1>4. ASSUME NEW d \in DryRuns, Load(d) PROVE Counted'
  <2>1. UNCHANGED workerVars
    BY <1>4 DEF Load
  <2>2. CASE lists' = lists
    BY <1>a, <1>b, <2>1, <2>2, CountedGrows
  <2>3. CASE read[d] < Len(Disk)
             /\ lists' = [lists EXCEPT ![rules] = Append(@, Disk[read[d] + 1])]
    <3> DEFINE x == Disk[read[d] + 1]
    <3>1. x \in Rules
      BY <1>a, <2>3, DiskRules
    <3>2. \A l \in ListIds :
            lists'[l] = IF l = rules THEN Append(lists[l], x) ELSE lists[l]
      BY <1>a, <2>3
    <3> HIDE DEF x
    <3>3. ASSUME ref # None
          PROVE  /\ Len(lists[ref]) <= Len(lists'[ref])
                 /\ Len(lists[ref]) \in Nat /\ Len(lists'[ref]) \in Nat
                 /\ \A i \in 1 .. Len(lists[ref]) : lists'[ref][i] = lists[ref][i]
      <4> DEFINE u == lists[ref]
      <4>1. u \in Seq(Rules) /\ Len(u) \in Nat /\ ref \in ListIds
        BY <1>a, <1>b, <3>3
      <4>2. lists'[ref] = u \/ lists'[ref] = Append(u, x)
        BY <3>2, <4>1
      <4> HIDE DEF u
      <4>3. /\ Len(Append(u, x)) = Len(u) + 1
            /\ \A i \in 1 .. Len(u) : Append(u, x)[i] = u[i]
        BY <3>1, <4>1, AppendProperties
      <4>4. /\ Len(u) <= Len(lists'[ref]) /\ Len(lists'[ref]) \in Nat
            /\ \A i \in 1 .. Len(u) : lists'[ref][i] = u[i]
        BY <4>1, <4>2, <4>3
      <4> QED
        BY <4>1, <4>4 DEF u
    <3> QED
      BY <2>1, <3>3, CountedGrows
  <2> QED
    BY <1>4, <2>2, <2>3 DEF Load
<1>5. CASE TakeEvent
  <2>1. /\ ref = None /\ ref' = rules /\ at' = 1 /\ state' = state
        /\ lists' = lists /\ since' = [n \in Names |-> since[n] + 1]
    BY <1>5 DEF TakeEvent, ruleVars
  <2>2. \A n \in Names : state[n].count <= since[n]
    BY <1>a, <2>1 DEF Counted, Seen
  <2>3. Len(lists[rules]) \in Nat
    BY <1>a, <1>b
  <2> QED
    BY <1>a, <2>1, <2>2, <2>3 DEF Counted
<1>6. CASE Evaluate
  <2> DEFINE n == Name[Rule]
  <2>1. /\ ref # None /\ at <= Len(lists[ref]) /\ at' = at + 1
        /\ ref' = ref /\ lists' = lists
        /\ Correlate(Rule) \/ UNCHANGED <<state, ticks, since, attempts>>
    BY <1>6 DEF Evaluate, ruleVars
  <2>2. n \in Names
    BY <2>1, RuleTypes
  <2>3. n \notin Seen
    <3>1. ref \in ListIds /\ Len(lists[ref]) \in Nat
      BY <1>a, <1>b, <2>1
    <3>2. ASSUME NEW i \in 1 .. at - 1, Name[lists[ref][i]] = n PROVE FALSE
      <4>1. i \in 1 .. Len(lists[ref]) /\ at \in 1 .. Len(lists[ref]) /\ i # at
        BY <1>a, <2>1, <3>1
      <4> QED
        BY <3>1, <3>2, <4>1, DistinctNames DEF Rule
    <3> QED
      BY <2>1, <3>2 DEF Seen
  <2>4. Seen' = Seen \cup {n}
    <3>1. \A i : i \in 1 .. at' - 1 <=> (i \in 1 .. at - 1 \/ i = at)
      BY <1>a, <2>1
    <3> QED
      BY <2>1, <2>2, <3>1 DEF Seen, Rule
  <2>5. at' <= Len(lists'[ref']) + 1
    BY <1>a, <1>b, <2>1
  <2>6. state[n].count + 1 <= since[n]
    BY <2>2, <2>3 DEF Counted
  <2>7. /\ state'[n].count <= since'[n]
        /\ \A m \in Names : m # n => state'[m] = state[m] /\ since'[m] = since[m]
    <3>1. CASE UNCHANGED <<state, ticks, since, attempts>>
      BY <1>a, <2>2, <2>6, <3>1
    <3>2. CASE Correlate(Rule)
      <4> DEFINE old == IF Fresh(n) THEN Absent ELSE state[n]
                 count == old.count + 1
                 asks == count >= Threshold[Rule] /\ ~old.incident_created
      <4>1. /\ state' = [state EXCEPT ![n] =
                 [count |-> count,
                  incident_created |-> old.incident_created \/ asks]]
            /\ since' = [since EXCEPT ![n] = IF Fresh(n) THEN 1 ELSE @]
        BY <3>2 DEF Correlate
      <4>2. state'[n].count = count
        BY <1>a, <2>2, <4>1
      <4>3. since'[n] = IF Fresh(n) THEN 1 ELSE since[n]
        BY <1>a, <2>2, <4>1
      <4>4. count <= since'[n]
        BY <2>6, <4>3 DEF Absent
      <4>5. \A m \in Names : m # n => state'[m] = state[m] /\ since'[m] = since[m]
        BY <1>a, <4>1
      <4> QED
        BY <4>2, <4>4, <4>5
    <3> QED
      BY <2>1, <3>1, <3>2
  <2> HIDE DEF n
  <2>8. ASSUME NEW m \in Names
        PROVE  state'[m].count + (IF m \in Seen' THEN 0 ELSE 1) <= since'[m]
    <3>1. CASE m = n
      <4>1. state'[n].count \in Nat
        BY <2>1, <2>2, TypesNext DEF Types, TypeOK
      <4> QED
        BY <2>4, <2>7, <3>1, <4>1
    <3>2. CASE m # n
      BY <2>4, <2>7, <3>2 DEF Counted
    <3> QED
      BY <3>1, <3>2
  <2> QED
    BY <2>5, <2>8 DEF Counted
<1>7. CASE EndEvent
  <2>1. ref' = None /\ state' = state /\ since' = since /\ lists' = lists
    BY <1>7 DEF EndEvent, ruleVars
  <2>2. \A m \in Names : state[m].count <= since[m]
    <3> SUFFICES ASSUME NEW m \in Names PROVE state[m].count <= since[m]
      OBVIOUS
    <3>1. state[m].count \in Nat /\ since[m] \in Nat
      BY <1>a
    <3>2. state[m].count + (IF m \in Seen THEN 0 ELSE 1) <= since[m]
      BY DEF Counted
    <3> QED
      BY <3>1, <3>2
  <2> QED
    BY <1>a, <2>1, <2>2 DEF Counted, Seen
<1>8. CASE Tick \/ Finished \/ UNCHANGED vars
  <2>1. UNCHANGED <<ref, at, state, since, lists>>
    BY <1>8 DEF Tick, Finished, vars, ruleVars, workerVars
  <2> QED
    BY <2>1 DEF Counted, Seen
<1> QED
  BY <1>1, <1>2, <1>3, <1>4, <1>5, <1>6, <1>7, <1>8 DEF Next
-----------------------------------------------------------------------------
LEMMA Invariance == Spec => []Inv
<1>1. Init => Inv
  BY TypesInit, PlacesInit, ContentsInit, AttemptedInit, AloneInit, CountedInit
  DEF Inv
<1>2. Inv /\ [Next]_vars => Inv'
  BY TypesNext, PlacesNext, ContentsNext, AttemptedNext, AloneNext, CountedNext,
     OverlapStays
  DEF Inv
<1> QED
  BY <1>1, <1>2, PTL DEF Spec

(* However dry runs interleave, once each has ended without an error every *)
(* rule on disk is in the list the worker will evaluate next.              *)
THEOREM DryRunsLoseNoRule == Spec => []NoRuleLost
<1>1. Inv => NoRuleLost
  <2> SUFFICES ASSUME Inv, Quiet PROVE ToSet(Disk) \subseteq ToSet(lists[rules])
    BY DEF NoRuleLost, Inv, Types
  <2>1. PICK d \in DryRuns \cup {None} :
               rules = <<d, "draft">> \/ rules = <<d, "load">>
    BY Ids DEF Inv, Types, TypeOK
  <2>2. rules # <<None, "draft">>
    BY DEF Inv, Places
  <2>3. d \in DryRuns => rules # <<d, "draft">>
    BY DEF Inv, Places, Quiet
  <2>4. rules = <<d, "load">>
    BY <2>1, <2>2, <2>3
  <2>5. d \in DryRuns => read[d] = Len(Disk)
    BY <2>4 DEF Inv, Places, Quiet
  <2>6. Holds(rules, Len(Disk))
    BY <2>4, <2>5 DEF Inv, Contents
  <2> QED
    BY <2>6, DiskRules DEF Holds, ToSet
<1> QED
  BY <1>1, Invariance, PTL

(* An event is never counted twice for a rule by a list exchanged, emptied *)
(* and refilled during the iteration, as long as dry runs do not overlap.  *)
THEOREM EventsCountOnce == Spec => []CountedOnce
<1>1. Inv => CountedOnce
  <2> SUFFICES ASSUME Inv, ~overlapped, NEW n \in Names
               PROVE  state[n].count <= since[n]
    BY DEF CountedOnce
  <2>1. state[n].count \in Nat /\ since[n] \in Nat
    BY DEF Inv, Types, TypeOK
  <2> QED
    BY <2>1 DEF Inv, Counted
<1> QED
  BY <1>1, Invariance, PTL

(* As long as they do not, a dry run's report is about its own draft.      *)
THEOREM ReportsOwnDraft == Spec => []OwnDraftOnly
<1>1. Inv => OwnDraftOnly
  BY DEF Inv, Alone, OwnDraftOnly
<1> QED
  BY <1>1, Invariance, PTL

(* Whatever dry runs do to the list, an entry of the engine asks for one   *)
(* incident at most before its window is over.                             *)
THEOREM NoAlarmFlood == Spec => []OneAttemptPerWindow
<1>1. Inv => OneAttemptPerWindow
  BY DEF Inv, Attempted, OneAttemptPerWindow
<1> QED
  BY <1>1, Invariance, PTL
=============================================================================
