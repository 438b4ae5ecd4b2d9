-------------------------- MODULE FanAgent_proofs --------------------------
(***************************************************************************)
(* Proofs about the fan loop for all temperatures, threshold ranges and    *)
(* requests: policies stay safe on every path they take, the agent's flag  *)
(* and the hardware agree up to the three named failures, and the fan does *)
(* not flap under one policy.                                              *)
(***************************************************************************)
EXTENDS FanAgent, TLAPS

(* The write of set_max comes before its flag.                             *)
FlagFollowsWrite == pc = "flagging" => fan = "max" /\ ~forced

(* The fan was last let go at a reading this policy calls cool.            *)
ReleasedCool == released # None => released <= policy.off

Inv ==
  /\ TypeOK
  /\ ForcedIsMax
  /\ FlagFollowsWrite
  /\ MaxIsKnown
  /\ ReleasedCool
-----------------------------------------------------------------------------
(* Clamp stays in a range that is not empty, and leaves its members alone. *)
LEMMA ClampInRange ==
  ASSUME NEW x \in Int, NEW low \in Int, NEW high \in Int, low <= high
  PROVE  /\ Clamp(x, low, high) \in low .. high
         /\ x \in low .. high => Clamp(x, low, high) = x
  BY DEF Clamp

(* Whatever the answer says, the agent's next policy is safe.              *)
LEMMA SanitizeSafe ==
  ASSUME NEW raw, NEW fallback, Safe(fallback)
  PROVE  Safe(Sanitize(raw, fallback))
<1>1. CASE raw \notin Thresholds
  BY <1>1 DEF Sanitize
<1>2. CASE raw \in Thresholds
  <2> DEFINE on == Clamp(raw.on, OnLow, OnHigh)
             off == Clamp(raw.off, OffLow, on - Gap)
  <2>1. /\ raw.on \in Int /\ raw.off \in Int
        /\ raw.mode \in {"auto", "max"} /\ raw.enabled \in BOOLEAN
    BY <1>2 DEF Thresholds
  <2>2. on \in OnLow .. OnHigh
    <3>1. \A x, low, high \in Int :
            low <= high => Clamp(x, low, high) \in low .. high
      BY ClampInRange
    <3>2. OnLow \in Int /\ OnHigh \in Int /\ OnLow <= OnHigh
      BY FanAssumption
    <3> QED
      BY <2>1, <3>1, <3>2
  <2>3. off \in OffLow .. on - Gap
    <3> HIDE DEF on
    <3>1. OffLow \in Int /\ on - Gap \in Int /\ OffLow <= on - Gap
      BY <2>2, FanAssumption
    <3> QED
      BY <2>1, <3>1, ClampInRange
  <2>4. Sanitize(raw, fallback) = [raw EXCEPT !.on = on, !.off = off]
    BY <1>2 DEF Sanitize
  <2>5. Sanitize(raw, fallback) = [mode |-> raw.mode, on |-> on, off |-> off,
                                   enabled |-> raw.enabled]
    BY <1>2, <2>4 DEF Thresholds
  <2>6. on \in Int /\ off \in Int
    BY <2>2, <2>3, FanAssumption
  <2> HIDE DEF on, off
  <2>7. Sanitize(raw, fallback) \in Thresholds
    BY <2>1, <2>5, <2>6 DEF Thresholds
  <2> QED
    BY <2>2, <2>3, <2>5, <2>6, <2>7, FanAssumption DEF Safe
<1> QED
  BY <1>1, <1>2

(* A policy the backend accepts passes the agent's clamps unchanged: what  *)
(* the administrator reads back is what the agent does.                    *)
THEOREM AcceptedIsKept ==
  ASSUME NEW p \in Thresholds, Accepted(p), NEW fallback
  PROVE  Safe(p) /\ Sanitize(p, fallback) = p
<1>1. p.on \in OnLow .. OnHigh /\ p.off \in OffLow .. p.on - Gap
  BY FanAssumption DEF Accepted, Thresholds
<1>2. p.on \in Int /\ p.off \in Int
  BY DEF Thresholds
<1>3. Clamp(p.on, OnLow, OnHigh) = p.on
  <2>1. OnLow \in Int /\ OnHigh \in Int /\ OnLow <= OnHigh
    BY FanAssumption
  <2> QED
    BY <1>1, <1>2, <2>1, ClampInRange
<1>4. Clamp(p.off, OffLow, p.on - Gap) = p.off
  <2>1. OffLow \in Int /\ p.on - Gap \in Int /\ OffLow <= p.on - Gap
    BY <1>1, <1>2, FanAssumption
  <2> QED
    BY <1>1, <1>2, <2>1, ClampInRange
<1>5. Sanitize(p, fallback) = [p EXCEPT !.on = p.on, !.off = p.off]
  BY <1>3, <1>4 DEF Sanitize
<1>6. Sanitize(p, fallback) = p
  BY <1>5 DEF Thresholds
<1> QED
  BY <1>1, <1>2, <1>6, FanAssumption DEF Safe

LEMMA GetPolicySafe == TypeOK => Safe(GetPolicy)
  BY FanAssumption DEF TypeOK, GetPolicy

LEMMA LoadSafe == TypeOK => Safe(Load)
  BY FanAssumption DEF TypeOK, Load
-----------------------------------------------------------------------------
LEMMA InvInit == Init => Inv
<1> SUFFICES ASSUME Init PROVE Inv
  OBVIOUS
<1>1. Safe(policy) /\ Safe(reply) /\ writes = 0 /\ faults = 0
  BY FanAssumption DEF Init
<1>2. writes \in 0 .. MaxWrites /\ faults \in 0 .. MaxFaults
  BY <1>1, FanAssumption
<1>3. TypeOK
  BY <1>1, <1>2 DEF Init, TypeOK
<1> QED
  BY <1>3 DEF Init, Inv, ForcedIsMax, FlagFollowsWrite, MaxIsKnown,
              ReleasedCool

(* The reading at which the fan is let go, against the thresholds.         *)
LEMMA CoolReading ==
  ASSUME TypeOK
  PROVE  /\ Hot => hotspot \in Int /\ hotspot >= policy.on
         /\ Cool => hotspot \in Temps /\ hotspot <= policy.off
         /\ policy.off \in Int /\ policy.on \in Int
         /\ policy.off <= policy.on - Gap
  BY FanAssumption DEF TypeOK, Safe, Thresholds, Hot, Cool

LEMMA TypeStep == TypeOK /\ [Next]_vars => TypeOK'
<1> SUFFICES ASSUME TypeOK, [Next]_vars PROVE TypeOK'
  OBVIOUS
<1> USE DEF agentVars, backendVars
<1>1. CASE Start
  BY <1>1, LoadSafe DEF Start, TypeOK
<1>2. ASSUME NEW h \in Temps \cup {None}, Read(h) PROVE TypeOK'
  BY <1>2 DEF Read, TypeOK
<1>3. CASE LeavesFan \/ WriteFails
  BY <1>3 DEF LeavesFan, WriteFails, Keep, TypeOK
<1>4. CASE WritesMax \/ Flag
  BY <1>4 DEF WritesMax, Flag, TypeOK
<1>5. CASE WritesAuto
  BY <1>5 DEF WritesAuto, TypeOK
<1>6. CASE PushAnswered \/ PushFails
  BY <1>6, GetPolicySafe DEF PushAnswered, PushFails, TypeOK
<1>7. CASE Adopt
  <2>1. Safe(Sanitize(reply, policy))
    BY SanitizeSafe DEF TypeOK
  <2>2. Safe(policy') /\ (file' \in {None, Torn} \/ Safe(file'))
    BY <1>7, <2>1 DEF Adopt, TypeOK
  <2>3. /\ pc' \in {"reading", "saving"} /\ released' \in {None, released}
        /\ UNCHANGED <<fan, forced, hotspot, reply, excuse, backendVars, faults>>
    BY <1>7 DEF Adopt
  <2> QED
    BY <2>2, <2>3 DEF TypeOK
<1>8. CASE Save
  BY <1>8 DEF Save, TypeOK
<1>9. CASE Exit \/ Kill
  <2>1. faults' \in 0 .. MaxFaults
    BY <1>9, FanAssumption DEF Exit, Kill, TypeOK
  <2>2. excuse' \subseteq {"failed", "unflagged", "killed"}
        /\ fan' \in {"auto", "max"}
    BY <1>9 DEF Exit, Kill, TypeOK
  <2> QED
    BY <1>9, <2>1, <2>2 DEF Exit, Kill, TypeOK
<1>10. ASSUME NEW p \in Requests, WritePolicy(p) PROVE TypeOK'
  <2>1. Safe(p)
    BY <1>10, AcceptedIsKept, FanAssumption DEF WritePolicy
  <2> QED
    BY <1>10, <2>1, FanAssumption DEF WritePolicy, TypeOK
<1>11. CASE BackendRestarts
  BY <1>11, FanAssumption DEF BackendRestarts, TypeOK
<1>12. CASE UNCHANGED vars
  BY <1>12 DEF vars, TypeOK
<1> QED
  BY <1>1, <1>2, <1>3, <1>4, <1>5, <1>6, <1>7, <1>8, <1>9, <1>10, <1>11,
     <1>12 DEF Next

(* Flag, write and excuse, step by step.                                   *)
LEMMA FlagStep ==
  Inv /\ [Next]_vars => ForcedIsMax' /\ FlagFollowsWrite' /\ MaxIsKnown'
<1> SUFFICES ASSUME Inv, [Next]_vars
             PROVE  ForcedIsMax' /\ FlagFollowsWrite' /\ MaxIsKnown'
  OBVIOUS
<1> USE DEF Inv, ForcedIsMax, FlagFollowsWrite, MaxIsKnown, Running,
            agentVars, backendVars
<1>1. CASE Start
  BY <1>1 DEF Start
<1>2. ASSUME NEW h \in Temps \cup {None}, Read(h)
      PROVE  ForcedIsMax' /\ FlagFollowsWrite' /\ MaxIsKnown'
  BY <1>2 DEF Read
<1>3. CASE LeavesFan \/ WriteFails
  BY <1>3 DEF LeavesFan, WriteFails, Keep
<1>4. CASE WritesMax
  BY <1>4 DEF WritesMax
<1>5. CASE Flag
  BY <1>5 DEF Flag
<1>6. CASE WritesAuto
  BY <1>6 DEF WritesAuto
<1>7. CASE PushAnswered \/ PushFails
  BY <1>7 DEF PushAnswered, PushFails
<1>8. CASE Adopt \/ Save
  BY <1>8 DEF Adopt, Save
<1>9. CASE Exit
  BY <1>9 DEF Exit
<1>10. CASE Kill
  BY <1>10 DEF Kill
<1>11. ASSUME NEW p \in Requests, WritePolicy(p)
       PROVE  ForcedIsMax' /\ FlagFollowsWrite' /\ MaxIsKnown'
  BY <1>11 DEF WritePolicy
<1>12. CASE BackendRestarts
  BY <1>12 DEF BackendRestarts
<1>13. CASE UNCHANGED vars
  BY <1>13 DEF vars
<1> QED
  BY <1>1, <1>2, <1>3, <1>4, <1>5, <1>6, <1>7, <1>8, <1>9, <1>10, <1>11,
     <1>12, <1>13 DEF Next

(* The reading of the last release changes with the release, and is        *)
(* forgotten with the policy.                                              *)
LEMMA ReleaseStep == Inv /\ [Next]_vars => ReleasedCool'
<1> SUFFICES ASSUME Inv, [Next]_vars PROVE ReleasedCool'
  OBVIOUS
<1> USE DEF Inv, ReleasedCool
<1>1. CASE WritesAuto
  <2>1. Cool /\ released' = hotspot /\ policy' = policy
    BY <1>1 DEF WritesAuto, WantsAuto
  <2> QED
    BY <2>1, CoolReading
<1>2. released' = None \/ UNCHANGED <<released, policy>> \/ WritesAuto
  BY DEF Next, vars, agentVars, backendVars, Start, Read, LeavesFan,
         WriteFails, Keep, WritesMax, Flag, PushAnswered, PushFails, Adopt,
         Save, Exit, Kill, WritePolicy, BackendRestarts
<1> QED
  BY <1>1, <1>2

LEMMA InvStep == Inv /\ [Next]_vars => Inv'
  BY TypeStep, FlagStep, ReleaseStep DEF Inv

THEOREM Invariance == Spec => []Inv
  BY InvInit, InvStep, PTL DEF Spec

(* Types, and the safety of every policy followed, sent or saved.          *)
THEOREM TypeCorrect == Spec => []TypeOK
<1>1. Inv => TypeOK
  BY DEF Inv
<1> QED
  BY <1>1, Invariance, PTL

(* The flag never claims cooling that is not there.                        *)
THEOREM FlagIsTrue == Spec => []ForcedIsMax
<1>1. Inv => ForcedIsMax
  BY DEF Inv
<1> QED
  BY <1>1, Invariance, PTL

(* A fan left at its maximum has one of the three named causes.            *)
THEOREM MaximumIsKnown == Spec => []MaxIsKnown
<1>1. Inv => MaxIsKnown
  BY DEF Inv
<1> QED
  BY <1>1, Invariance, PTL

LEMMA FlapStep ==
  Inv /\ [Next]_vars =>
    [fan = "auto" /\ fan' = "max" /\ released # None /\ policy.mode = "auto"
       => hotspot >= released + Gap]_vars
<1> SUFFICES ASSUME Inv, Next, fan = "auto", fan' = "max",
                    released # None, policy.mode = "auto"
             PROVE  hotspot >= released + Gap
  OBVIOUS
<1>1. WritesMax
  BY DEF Next, agentVars, backendVars, Start, Read, LeavesFan, WriteFails,
         Keep, Flag, WritesAuto, PushAnswered, PushFails, Adopt, Save, Exit,
         Kill, WritePolicy, BackendRestarts
<1>2. Hot
  BY <1>1 DEF WritesMax, WantsMax
<1>3. hotspot \in Int /\ hotspot >= policy.on /\ policy.off <= policy.on - Gap
      /\ policy.on \in Int /\ policy.off \in Int
  BY <1>2, CoolReading DEF Inv
<1>4. released \in Int /\ released <= policy.off
  BY FanAssumption DEF Inv, TypeOK, ReleasedCool
<1> QED
  BY <1>3, <1>4, FanAssumption

(* Under one policy the fan is forced again only Gap degrees hotter.       *)
THEOREM Hysteresis == Spec => NoFlapping
  BY Invariance, FlapStep, PTL DEF Spec, NoFlapping
=============================================================================
