------------------------------ MODULE FanAgent ------------------------------
(***************************************************************************)
(* The fan control loop: the agent on the Proxmox host                     *)
(* (agent/aegis_sensor_agent.py) reads temperatures, decides whether to    *)
(* force the fan to its maximum, reports to the backend and adopts the     *)
(* policy that comes back (backend/app/api/sensors.py), which an           *)
(* administrator may change and which is kept in MongoDB.                  *)
(*                                                                         *)
(* The agent is one thread, but a signal can end it between any two steps  *)
(* and a SIGKILL or a power loss without any handler. hp-wmi knows two     *)
(* states of the fan: the BIOS's own control, and the maximum.             *)
(***************************************************************************)
EXTENDS Integers, FiniteSets

CONSTANTS
  Temps,          \* the CPU temperatures a sensor may report, in degrees
  OnLow, OnHigh,  \* the range of on_celsius (45 and 95 in the code)
  OffLow,         \* the least off_celsius (30)
  OffHigh,        \* the largest off_celsius the backend takes (92)
  Gap,            \* degrees between the two thresholds (3)
  DEFAULT_POLICY, \* the same in the agent and in the backend
  Requests,       \* the policies administrators ask for
  None,           \* no reading, no file, no document
  Torn,           \* a file that does not parse
  MaxWrites,      \* bound: accepted requests
  MaxFaults       \* bound: ends of the agent and restarts of the backend

Thresholds == [mode : {"auto", "max"}, on : Int, off : Int, enabled : BOOLEAN]

(* What both sides keep to: on_celsius in its range, off_celsius well below.*)
Safe(p) ==
  /\ p \in Thresholds
  /\ p.on \in OnLow .. OnHigh
  /\ OffLow <= p.off /\ p.off <= p.on - Gap

ASSUME FanAssumption ==
  /\ Temps \subseteq Int
  /\ OnLow \in Int /\ OnHigh \in Int /\ OffLow \in Int /\ OffHigh \in Int
  /\ Gap \in Nat
  /\ OnLow <= OnHigh /\ OffLow <= OnLow - Gap
  /\ Safe(DEFAULT_POLICY)
  /\ Requests \subseteq Thresholds
  /\ None \notin Temps /\ None \notin Thresholds
  /\ Torn \notin Thresholds
  /\ MaxWrites \in Nat /\ MaxFaults \in Nat

VARIABLES
  fan,     \* pwm1_enable: "auto" (2, the BIOS) or "max" (0)
  pc,      \* where the agent is; "exited" or "killed" when it is not running
  forced,  \* FanController.forced
  hotspot, \* the CPU temperature of this cycle
  policy,  \* the policy the agent follows
  reply,   \* the policy in the backend's answer
  file,    \* policy.json: None, Torn or a policy
  db,      \* the document of sensor_policy, or None
  mongo,   \* whether the backend found MongoDB when it started
  writes,  \* accepted requests so far
  faults,  \* faults so far
  released, \* history: the reading at which this policy last let the fan go
  excuse    \* history: why the fan may be at maximum although nobody knows

agentVars == <<fan, pc, forced, hotspot, policy, reply, file, released, excuse>>
backendVars == <<db, mongo, writes>>
vars == <<agentVars, backendVars, faults>>

Init ==
  /\ fan = "auto" /\ pc = "exited" /\ forced = FALSE
  /\ hotspot = None
  /\ policy = DEFAULT_POLICY /\ reply = DEFAULT_POLICY
  /\ file = None
  /\ db = None /\ mongo = TRUE
  /\ writes = 0 /\ faults = 0
  /\ released = None /\ excuse = {}

Running == pc \notin {"exited", "killed"}
-----------------------------------------------------------------------------
(* load_policy: the defaults when the file is missing or does not parse.   *)
Load == IF file \in {None, Torn} THEN DEFAULT_POLICY ELSE file

Start ==
  /\ ~Running
  /\ pc' = "reading"
  /\ policy' = Load
  /\ forced' = FALSE
  /\ hotspot' = None
  /\ released' = None
  /\ UNCHANGED <<fan, reply, file, excuse, backendVars, faults>>

Read(h) ==
  /\ pc = "reading"
  /\ hotspot' = h
  /\ pc' = "deciding"
  /\ UNCHANGED <<fan, forced, policy, reply, file, released, excuse,
                 backendVars, faults>>

Hot == hotspot # None /\ hotspot >= policy.on

Cool == hotspot # None /\ ~Hot /\ hotspot <= policy.off

(* The branches of apply_policy that write: the fan is wanted at its       *)
(* maximum, or may be given back.                                          *)
WantsMaxAboveOn ==
  policy.enabled
    /\ (policy.mode = "max" \/ (hotspot # None /\ hotspot > policy.on))

WantsMax == policy.enabled /\ (policy.mode = "max" \/ Hot)

WantsAutoAboveOff ==
  policy.enabled /\ policy.mode = "auto" /\ forced /\ hotspot # None /\ ~Hot

WantsAuto == policy.enabled /\ policy.mode = "auto" /\ forced /\ Cool

Keep ==
  /\ pc = "deciding"
  /\ pc' = "pushing"
  /\ UNCHANGED <<fan, forced, hotspot, policy, reply, file, released, excuse,
                 backendVars, faults>>

(* No branch writes, or set_max finds the fan forced already.              *)
LeavesFan ==
  /\ WantsMax => forced
  /\ ~WantsAuto
  /\ Keep

(* The write to the driver raised: only logged, tried again next cycle.    *)
WriteFailsFlagged ==
  /\ pc = "deciding"
  /\ WantsMax /\ ~forced
  /\ pc' = "pushing"
  /\ forced' = TRUE
  /\ UNCHANGED <<fan, hotspot, policy, reply, file, released, excuse,
                 backendVars, faults>>

WriteFails ==
  /\ (WantsMax /\ ~forced) \/ WantsAuto
  /\ Keep

(* set_max: the write, and the flag that remembers it.                     *)
WritesMax ==
  /\ pc = "deciding"
  /\ WantsMax /\ ~forced
  /\ fan' = "max"
  /\ pc' = "flagging"
  /\ released' = None
  /\ excuse' = {}
  /\ UNCHANGED <<forced, hotspot, policy, reply, file, backendVars, faults>>

Flag ==
  /\ pc = "flagging"
  /\ forced' = TRUE
  /\ pc' = "pushing"
  /\ UNCHANGED <<fan, hotspot, policy, reply, file, released, excuse,
                 backendVars, faults>>

(* set_auto: the write and the flag; ending in between changes nothing, as *)
(* restore would only write the same again.                                *)
WritesAuto ==
  /\ pc = "deciding"
  /\ WantsAuto
  /\ fan' = "auto"
  /\ forced' = FALSE
  /\ pc' = "pushing"
  /\ released' = hotspot
  /\ excuse' = {}
  /\ UNCHANGED <<hotspot, policy, reply, file, backendVars, faults>>
-----------------------------------------------------------------------------
(* get_policy: the document if there is one, over the defaults; without    *)
(* a connection to MongoDB the defaults.                                   *)
GetPolicy == IF mongo /\ db # None THEN db ELSE DEFAULT_POLICY

Clamp(x, low, high) ==
  IF x < low THEN (IF low < high THEN low ELSE high)
  ELSE IF x < high THEN x ELSE high

(* sanitize_policy; an answer that is no policy leaves the old one.        *)
SanitizeKeepsMode(raw, fallback) ==
  IF raw \notin Thresholds THEN fallback
  ELSE LET on == Clamp(raw.on, OnLow, OnHigh) IN
       [raw EXCEPT !.mode = fallback.mode, !.on = on,
                   !.off = Clamp(raw.off, OffLow, on - Gap)]

Sanitize(raw, fallback) ==
  IF raw \notin Thresholds THEN fallback
  ELSE LET on == Clamp(raw.on, OnLow, OnHigh) IN
       [raw EXCEPT !.on = on, !.off = Clamp(raw.off, OffLow, on - Gap)]

(* The agent's POST was answered; until it goes on, the policy may change. *)
PushAnswered ==
  /\ pc = "pushing"
  /\ reply' = GetPolicy
  /\ pc' = "adopting"
  /\ UNCHANGED <<fan, forced, hotspot, policy, file, released, excuse,
                 backendVars, faults>>

(* No answer, or one with an error status: the local policy stays.         *)
PushFails ==
  /\ pc = "pushing"
  /\ pc' = "reading"
  /\ UNCHANGED <<fan, forced, hotspot, policy, reply, file, released, excuse,
                 backendVars, faults>>

(* A new policy is followed at once, and save_policy truncates the file    *)
(* before it writes. The sleep is over when the next cycle reads.          *)
Adopt ==
  /\ pc = "adopting"
  /\ LET new == Sanitize(reply, policy) IN
     \/ /\ new = policy
        /\ pc' = "reading"
        /\ UNCHANGED <<policy, file, released>>
     \/ /\ new # policy
        /\ policy' = new
        /\ file' \in {file, Torn}
        /\ pc' = "saving"
        /\ released' = None
  /\ UNCHANGED <<fan, forced, hotspot, reply, excuse, backendVars, faults>>

(* The save ends; an error while opening or writing is only logged.        *)
Save ==
  /\ pc = "saving"
  /\ file' \in {policy, file}
  /\ pc' = "reading"
  /\ UNCHANGED <<fan, forced, hotspot, policy, reply, released, excuse,
                 backendVars, faults>>
-----------------------------------------------------------------------------
(* The process ends by SIGTERM, SIGINT, an exception or --once: restore    *)
(* runs from the handler and atexit, and gives the fan back if it is       *)
(* flagged; a write that fails is not repeated.                            *)
RestoreSkipped ==
  /\ Running
  /\ faults < MaxFaults
  /\ faults' = faults + 1
  /\ pc' = "exited"
  /\ forced' = FALSE
  /\ UNCHANGED <<fan, excuse, hotspot, policy, reply, file, released,
                 backendVars>>

Exit ==
  /\ Running
  /\ faults < MaxFaults
  /\ faults' = faults + 1
  /\ pc' = "exited"
  /\ forced' = FALSE
  /\ \/ forced /\ fan' = "auto" /\ excuse' = {}
     \/ forced /\ excuse' = excuse \cup {"failed"} /\ UNCHANGED fan
     \/ /\ ~forced
        /\ excuse' = IF pc = "flagging" THEN excuse \cup {"unflagged"}
                     ELSE excuse
        /\ UNCHANGED fan
  /\ UNCHANGED <<hotspot, policy, reply, file, released, backendVars>>

(* SIGKILL runs no handler; a power loss hands the fan to the BIOS.        *)
Kill ==
  /\ Running
  /\ faults < MaxFaults
  /\ faults' = faults + 1
  /\ pc' = "killed"
  /\ forced' = FALSE
  /\ \/ fan' = fan /\ excuse' = excuse \cup {"killed"}
     \/ fan' = "auto" /\ excuse' = {}
  /\ UNCHANGED <<hotspot, policy, reply, file, released, backendVars>>

(* PUT /sensors/policy: the field ranges, then the distance.               *)
AcceptedByRangesOnly(p) ==
  /\ p.on \in OnLow .. OnHigh
  /\ p.off \in OffLow .. OffHigh

Accepted(p) ==
  /\ p.on \in OnLow .. OnHigh
  /\ p.off \in OffLow .. OffHigh
  /\ ~(p.off >= p.on - Gap)

WritePolicy(p) ==
  /\ mongo
  /\ Accepted(p)
  /\ writes < MaxWrites
  /\ writes' = writes + 1
  /\ db' = p
  /\ UNCHANGED <<agentVars, mongo, faults>>

(* The backend looks for MongoDB only when it starts.                      *)
BackendRestarts ==
  /\ faults < MaxFaults
  /\ faults' = faults + 1
  /\ mongo' \in BOOLEAN
  /\ UNCHANGED <<agentVars, db, writes>>
-----------------------------------------------------------------------------
Next ==
  \/ Start
  \/ \E h \in Temps \cup {None} : Read(h)
  \/ LeavesFan \/ WriteFails \/ WritesMax \/ Flag \/ WritesAuto
  \/ PushAnswered \/ PushFails \/ Adopt \/ Save
  \/ Exit \/ Kill
  \/ \E p \in Requests : WritePolicy(p)
  \/ BackendRestarts

(* The loop runs, systemd restarts the agent, and neither the driver nor   *)
(* the network refuses for ever.                                           *)
Fairness ==
  /\ WF_vars(Start)
  /\ WF_vars(\E h \in Temps \cup {None} : Read(h))
  /\ WF_vars(LeavesFan \/ WriteFails \/ WritesMax \/ WritesAuto)
  /\ SF_vars(WritesMax) /\ SF_vars(WritesAuto)
  /\ WF_vars(Flag)
  /\ WF_vars(PushAnswered \/ PushFails) /\ SF_vars(PushAnswered)
  /\ WF_vars(Adopt) /\ WF_vars(Save)

Spec == Init /\ [][Next]_vars /\ Fairness
-----------------------------------------------------------------------------
(* The loop's values. Every policy followed, sent or saved is safe, so the *)
(* thresholds keep their range and their distance through every path a     *)
(* policy takes: request, document, answer, file, restart.                 *)
TypeOK ==
  /\ fan \in {"auto", "max"}
  /\ pc \in {"reading", "deciding", "flagging", "pushing", "adopting",
             "saving", "exited", "killed"}
  /\ forced \in BOOLEAN
  /\ hotspot \in Temps \cup {None} /\ released \in Temps \cup {None}
  /\ Safe(policy) /\ Safe(reply)
  /\ file \in {None, Torn} \/ Safe(file)
  /\ db = None \/ Safe(db)
  /\ mongo \in BOOLEAN
  /\ writes \in 0 .. MaxWrites /\ faults \in 0 .. MaxFaults
  /\ excuse \subseteq {"failed", "unflagged", "killed"}

(* The agent's flag never claims cooling that is not there: otherwise      *)
(* set_max would return early while the machine overheats.                 *)
ForcedIsMax == forced => fan = "max" /\ Running

(* The fan is at its maximum without the agent knowing it only after a     *)
(* SIGKILL, a failed write of restore, or a signal between set_max's write *)
(* and its flag.                                                           *)
MaxIsKnown ==
  fan = "max" => forced \/ pc = "flagging" \/ excuse # {}

(* Hysteresis: under one policy the fan is forced again only when the CPU  *)
(* is at least Gap degrees hotter than when it was last let go.            *)
NoFlapping ==
  [][fan = "auto" /\ fan' = "max" /\ released # None /\ policy.mode = "auto"
       => hotspot >= released + Gap]_vars

(* An overheating machine gets its fan forced, whatever the backend does   *)
(* and however often a write fails, unless the agent ends, it cools down   *)
(* or the policy changes.                                                  *)
HotGetsCooled ==
  Running /\ policy.enabled /\ Hot
    ~> fan = "max" \/ ~Running \/ ~policy.enabled \/ ~Hot

(* Once requests and faults have ended, and unless the backend is left     *)
(* without MongoDB, the agent comes to follow what the administrator wrote *)
(* last and stays with it, unchanged by its own clamps, through lost and   *)
(* late answers and torn files; without a document, the defaults.          *)
PolicyArrives ==
  <>[](mongo => policy = IF db = None THEN DEFAULT_POLICY ELSE db)

(* What the agent's header and DEPLOYMENT.md say: every exit (stop,        *)
(* Ctrl-C, crash) gives the fan back to the BIOS.                          *)
ExitReleases == pc = "exited" => fan = "auto"
=============================================================================
