------------------------------- MODULE Swarm -------------------------------
(***************************************************************************)
(* A swarm leader (SwarmLeaderNode, DroneRegistry, TelemetryAggregator,    *)
(* FireTactics) and its drones.  The leader's paho thread handles the      *)
(* commander's commands, the drones' telemetry and their announcements;    *)
(* its analysis thread removes silent drones, reads the registry           *)
(* (reassess) and then sends what it decided (_dispatch_assignments): the  *)
(* other thread may act in between.                                        *)
(*                                                                         *)
(* A drone is the machine of module Drone with a tick as one step.  A      *)
(* command is obeyed when it is sent, unless the drone is disconnected:    *)
(* sessions are clean, so it is lost.  There is one fire position.         *)
(***************************************************************************)
EXTENDS Naturals, FiniteSets, FiniteSetsExt

CONSTANTS Scout, Fighter,  \* the drones
          Full, Urgent, LowCharge,   \* charge: fresh, emergency return, RTB_BATTERY_PCT
          Tank, LowLoad,             \* load: full, LOW_PAYLOAD_L
          MaxCommand, MaxFault       \* bounds on the commander's commands and on faults

ASSUME SwarmAssumption ==
  /\ Scout \cap Fighter = {} /\ IsFiniteSet(Scout \cup Fighter)
  /\ Urgent \in Nat /\ LowCharge \in Nat /\ Full \in Nat
  /\ Urgent < LowCharge /\ LowCharge < Full
  /\ LowLoad \in Nat /\ Tank \in Nat /\ LowLoad < Tank
  /\ MaxCommand \in Nat /\ MaxFault \in Nat

Drone == Scout \cup Fighter

VARIABLES
  \* the drones
  mode, charge, load,
  link,           \* "on", "off" (no connection), "hung" (no telemetry loop), "down"
  \* the broker
  retained,       \* the last announcement of each drone
  due,            \* drones whose announcement the leader has still to receive
  \* the leader
  fire,           \* _current_fire_pos is set
  reg,            \* _drone_reg: role of the record, and whether it has telemetry
  latest,         \* the last telemetry of each drone (also the aggregator's _latest)
  quiet,          \* how long a recorded drone has been silent (last_seen, _lost_tracker)
  plan,           \* assignments reassess decided, not yet dispatched
  commands, faults

drones == <<mode, charge, load>>
links == <<link, retained, due>>
bounds == <<commands, faults>>
vars == <<drones, links, fire, reg, latest, quiet, plan, bounds>>

Role == {"SCOUT", "FIREFIGHTING"}
Mode == {"IDLE", "TRANSIT", "WORK", "RETURNING"}
Task == {"IDLE", "SCOUTING", "SUPPRESSING", "RETURNING"}
Silence == {"heard", "stale", "tracked", "overdue"}

NoDrone == "none"
Unknown == [role |-> "NONE", tele |-> FALSE]
Record(role, tele) == [role |-> role, tele |-> tele]
NoReport == [task |-> "NONE", thermal |-> FALSE, load |-> 0, charge |-> 0]
Nothing == [d \in Drone |-> "NONE"]
Resting == [at |-> "rest", todo |-> Nothing]

TypeOK ==
  /\ mode \in [Drone -> Mode]
  /\ charge \in [Drone -> 0 .. Full] /\ load \in [Drone -> 0 .. Tank]
  /\ link \in [Drone -> {"on", "off", "hung", "down"}]
  /\ retained \in [Drone -> {"ONLINE", "OFFLINE"}] /\ due \subseteq Drone
  /\ fire \in BOOLEAN
  /\ \A d \in Drone : reg[d] = Unknown \/ reg[d] \in [role : Role, tele : BOOLEAN]
  /\ \A d \in Drone : reg[d].tele => latest[d].task \in Task
  /\ quiet \in [Drone -> Silence]
  /\ plan.at \in {"rest", "dispatch"} /\ plan.todo \in [Drone -> Task \cup {"NONE"}]
  /\ commands \in 0 .. MaxCommand /\ faults \in 0 .. MaxFault

RoleOf(d) == IF d \in Scout THEN "SCOUT" ELSE "FIREFIGHTING"

\* Every drone has announced itself and has not sent telemetry yet.
Init ==
  /\ mode = [d \in Drone |-> "IDLE"]
  /\ charge = [d \in Drone |-> Full]
  /\ load = [d \in Drone |-> IF d \in Scout THEN 0 ELSE Tank]
  /\ link = [d \in Drone |-> "on"]
  /\ retained = [d \in Drone |-> "ONLINE"] /\ due = {}
  /\ fire = FALSE
  /\ reg = [d \in Drone |-> Record(RoleOf(d), FALSE)]
  /\ latest = [d \in Drone |-> NoReport]
  /\ quiet = [d \in Drone |-> "heard"]
  /\ plan = Resting
  /\ commands = 0 /\ faults = 0

-----------------------------------------------------------------------------
(* Commands to drones                                                      *)

WorkTask(d) == IF d \in Scout THEN "SCOUTING" ELSE "SUPPRESSING"

\* RECALL_DRONE turns a drone home; UPDATE_TASK sends it to the fire when the
\* task is its own, and touches only its label when it is not.
Obeying(m, d, task) ==
  CASE task = "RETURNING" -> "RETURNING" [] task = WorkTask(d) -> "TRANSIT" [] OTHER -> m

\* _send_drone_command, for the drones of a plan.
Sent(todo) ==
  [d \in Drone |->
     IF link[d] \in {"off", "down"} THEN mode[d] ELSE Obeying(mode[d], d, todo[d])]

-----------------------------------------------------------------------------
(* What the leader reads                                                   *)

Known == {d \in Drone : reg[d] # Unknown}
ByRole(role) == {d \in Known : reg[d].role = role}
Reporting(role) == {d \in ByRole(role) : reg[d].tele}
Idle(role) == {d \in Reporting(role) : latest[d].task = "IDLE"}
HasPayload(d) == reg[d].tele => latest[d].load > LowLoad
Loaded(role) == {d \in Idle(role) : HasPayload(d)}

\* _fresh_idle and the search of _replace_lost_drone: a scout reports 0.0
\* litres, so no scout ever qualifies.
Fresh(role) == {d \in Loaded(role) : latest[d].charge > LowCharge}

\* `for d in ...: if fits: return d`: the first in the order of registration.
First(S) == IF S = {} THEN {NoDrone} ELSE S

-----------------------------------------------------------------------------
(* A tick of a drone, and its telemetry                                    *)

\* Mutation: nothing stops at zero.
Spend_NoFloor(c) == c - 1

Spend(c) == IF c > 0 THEN c - 1 ELSE 0

Report(task, thermal, l, c) == [task |-> task, thermal |-> thermal, load |-> l, charge |-> c]
Flown(m, report) == [mode |-> m, report |-> report]

\* A scout's battery drains in every state and nothing recharges it.  It has
\* readings (thermal) only while it orbits the fire.
ScoutTick(d) ==
  LET c == Spend(charge[d])
      m == CASE mode[d] = "TRANSIT" -> "WORK" [] mode[d] = "RETURNING" -> "IDLE"
             [] OTHER -> mode[d]
      task == CASE c <= Urgent -> "RETURNING" [] m = "IDLE" -> "IDLE" [] OTHER -> "SCOUTING"
  IN {Flown(IF c <= Urgent THEN "RETURNING" ELSE m, Report(task, m = "WORK", 0, c))}

\* A fighter drops its load; low on it between two passes, or empty, it turns
\* home, where it is serviced.  Between two passes it reports RETURNING.
FighterTick(d) ==
  LET c == IF mode[d] = "IDLE" THEN charge[d] ELSE Spend(charge[d])
      l == IF mode[d] = "WORK" THEN Spend(load[d]) ELSE load[d]
  IN CASE mode[d] = "IDLE" -> {Flown("IDLE", Report("IDLE", FALSE, l, c))}
       [] mode[d] = "RETURNING" -> {Flown("IDLE", Report("IDLE", FALSE, Tank, Full)) }
       [] mode[d] \in {"TRANSIT", "WORK"} /\ (c <= Urgent \/ (mode[d] = "WORK" /\ l = 0)) ->
            {Flown("RETURNING", Report("RETURNING", FALSE, l, c))}
       [] OTHER ->
            {Flown("WORK", Report(task, FALSE, l, c)) : task \in {"SUPPRESSING", "RETURNING"}}
              \cup {Flown("RETURNING", Report("RETURNING", FALSE, l, c)) : low \in {l} \cap 1 .. LowLoad}

Ticked(d) == IF d \in Scout THEN ScoutTick(d) ELSE FighterTick(d)

\* update_telemetry of a drone without a record: readings make it a scout,
\* litres (0.0 for a scout) a fighter.
Inferred(report) == IF report.thermal THEN "SCOUT" ELSE "FIREFIGHTING"

\* _on_telemetry: aggregator and registry.
Ingest(d, report) ==
  /\ latest' = [latest EXCEPT ![d] = report]
  /\ reg' = [reg EXCEPT ![d] = Record(IF d \in Known THEN @.role ELSE Inferred(report), TRUE)]
  /\ quiet' = [quiet EXCEPT ![d] = "heard"]

Fault == faults < MaxFault /\ faults' = faults + 1

\* _telemetry_loop: tick, report (QoS 0).
Tick(d) ==
  /\ link[d] \in {"on", "off"}
  /\ \E o \in Ticked(d) :
       /\ mode' = [mode EXCEPT ![d] = o.mode]
       /\ charge' = [charge EXCEPT ![d] = o.report.charge]
       /\ load' = [load EXCEPT ![d] = o.report.load]
       /\ \/ link[d] = "on" /\ Ingest(d, o.report) /\ UNCHANGED faults
          \/ link[d] = "off" /\ UNCHANGED <<latest, reg, quiet, faults>>
          \/ link[d] = "on" /\ Fault /\ UNCHANGED <<latest, reg, quiet>>
  /\ UNCHANGED <<links, fire, plan, commands>>

-----------------------------------------------------------------------------
(* Lost drones                                                             *)

Order(r, task) == [d \in Drone |-> IF d = r THEN task ELSE "NONE"]

\* unregister(d), then _replace_lost_drone if its last report was of work.
Remove(d) ==
  /\ reg' = [reg EXCEPT ![d] = Unknown]
  /\ quiet' = [quiet EXCEPT ![d] = "heard"]
  /\ IF reg[d].tele /\ latest[d].task \in {"SCOUTING", "SUPPRESSING"} /\ fire
     THEN \E r \in First(Fresh(reg[d].role) \ {d}) : mode' = Sent(Order(r, latest[d].task))
     ELSE UNCHANGED mode
  /\ UNCHANGED <<charge, load>>

\* Five seconds pass without telemetry, or fifteen since that was noticed.
Age(d) ==
  /\ d \in Known /\ link[d] # "on"
  /\ \/ quiet[d] = "heard" /\ quiet' = [quiet EXCEPT ![d] = "stale"]
     \/ quiet[d] = "tracked" /\ quiet' = [quiet EXCEPT ![d] = "overdue"]
  /\ UNCHANGED <<drones, links, fire, reg, latest, plan, bounds>>

\* Mutation: the grace period of a silent drone never ends.
Overdue_Never == {}

Overdue == {d \in Known : quiet[d] = "overdue"}

\* _check_lost_drones, one drone at a time.
RemoveLost(d) ==
  /\ plan.at = "rest" /\ d \in Overdue
  /\ Remove(d)
  /\ UNCHANGED <<links, fire, latest, plan, bounds>>

-----------------------------------------------------------------------------
(* reassess                                                                *)

Assignment(d, task, priority) == [drone |-> d, task |-> task, priority |-> priority]

\* _estimate_fire_centre: the scouts that report SCOUTING, whatever _current_fire_pos.
FireSeen == \E d \in Reporting("SCOUT") : latest[d].task = "SCOUTING"

Suppression == {"unknown", "below30", "below85", "below95", "done"}

\* TelemetryAggregator.snapshot() over the last report of every drone ever
\* heard: without readings the intensity is LOW and the suppression unknown.
Snapshots ==
  LET readings == \E d \in Drone : latest[d].thermal IN
    {s \in [intensity : {"LOW", "HIGH", "CRITICAL"}, suppression : Suppression, rapid : BOOLEAN] :
       ~readings => s.intensity = "LOW" /\ s.suppression = "unknown"}

\* Rule 1: without eyes on a CRITICAL fire idle fighters are held.
HoldBlind(s) ==
  IF s.intensity = "CRITICAL" /\ ~FireSeen
  THEN {Assignment(d, "IDLE", 6) : d \in Idle("FIREFIGHTING")} ELSE {}

\* Rule 2: two idle fighters to the hot flank.
HotFlank(s, two) ==
  IF s.rapid /\ s.suppression = "below30" /\ FireSeen
  THEN {Assignment(d, "SUPPRESSING", 10) : d \in two} ELSE {}

\* Rules 3 and 4: an exhausted or empty drone is recalled and another sent.
Swap(recalled, role, fresh, priority) ==
  {Assignment(d, "RETURNING", priority) : d \in recalled}
    \cup {Assignment(f, IF role = "SCOUT" THEN "SCOUTING" ELSE "SUPPRESSING", priority) :
            f \in IF recalled # {} /\ FireSeen THEN fresh \ {NoDrone} ELSE {}}

LowBattery(role) ==
  {d \in Reporting(role) : latest[d].task # "RETURNING" /\ latest[d].charge <= LowCharge}
LowPayload ==
  {d \in Reporting("FIREFIGHTING") : latest[d].task = "SUPPRESSING" /\ latest[d].load <= LowLoad}

\* Rule 6: an idle fighter to a fire that is not out.
SendIdle(s, one) ==
  IF s.suppression \in {"below30", "below85", "below95"} /\ FireSeen
  THEN {Assignment(d, "SUPPRESSING", 7) : d \in one \ {NoDrone}} ELSE {}

\* Rule 5: all but the first of the fighters at work are recalled.
RecallSurplus(s, first) ==
  IF s.suppression \in {"below95", "done"} /\ s.intensity = "LOW"
  THEN {Assignment(d, "RETURNING", 5) :
          d \in {f \in Reporting("FIREFIGHTING") : latest[f].task = "SUPPRESSING"} \ first}
  ELSE {}

\* _dispatch_assignments keeps the most urgent assignment of each drone.
Best(assignments) ==
  [d \in Drone |->
     LET mine == {a \in assignments : a.drone = d} IN
       IF mine = {} THEN "NONE"
       ELSE (CHOOSE a \in mine : \A b \in mine : a.priority >= b.priority).task]

Fullest(S) == {d \in S : \A e \in S : latest[e].load <= latest[d].load}

\* One pass of _analysis_loop up to reassess(); the choices are the order of
\* the registry.
Reassess ==
  /\ plan.at = "rest" /\ Overdue = {}
  /\ \E s \in Snapshots, one \in First(Fullest(Loaded("FIREFIGHTING"))),
        scout \in First(Fresh("SCOUT")), fighter \in First(Fresh("FIREFIGHTING")),
        first \in First({d \in Reporting("FIREFIGHTING") : latest[d].task = "SUPPRESSING"}) :
       \E two \in {S \in SUBSET Loaded("FIREFIGHTING") :
                     Cardinality(S) = 2 \/ (S = Loaded("FIREFIGHTING") /\ Cardinality(S) < 2)} :
         LET todo == Best(HoldBlind(s) \cup HotFlank(s, two)
                            \cup Swap(LowBattery("SCOUT"), "SCOUT", {scout}, 9)
                            \cup Swap(LowBattery("FIREFIGHTING"), "FIREFIGHTING", {fighter}, 9)
                            \cup Swap(LowPayload, "FIREFIGHTING", {fighter}, 8)
                            \cup SendIdle(s, {one}) \cup RecallSurplus(s, {first}))
         IN plan' = IF todo = Nothing THEN Resting ELSE [at |-> "dispatch", todo |-> todo]
  /\ quiet' = [d \in Drone |-> IF quiet[d] = "stale" THEN "tracked" ELSE quiet[d]]
  /\ UNCHANGED <<drones, links, fire, reg, latest, bounds>>

Dispatch ==
  /\ plan.at = "dispatch"
  /\ mode' = Sent(plan.todo)
  /\ plan' = Resting
  /\ UNCHANGED <<charge, load, links, fire, reg, latest, quiet, bounds>>

-----------------------------------------------------------------------------
(* Commands of the commander, on the paho thread                           *)

Commanded == commands < MaxCommand /\ commands' = commands + 1

\* RESPOND_TO_FIRE: every scout, every fighter that may have a load.
RespondToFire ==
  /\ Commanded /\ fire' = TRUE
  /\ mode' = Sent([d \in Drone |->
       CASE d \in ByRole("SCOUT") -> "SCOUTING"
         [] d \in ByRole("FIREFIGHTING") /\ HasPayload(d) -> "SUPPRESSING"
         [] OTHER -> "NONE"])
  /\ UNCHANGED <<charge, load, links, reg, latest, quiet, plan, faults>>

\* CONTAIN_FIRE: the same, and fighters without a load are recalled.
ContainFire ==
  /\ Commanded /\ fire' = TRUE
  /\ mode' = Sent([d \in Drone |->
       CASE d \in ByRole("SCOUT") -> "SCOUTING"
         [] d \in ByRole("FIREFIGHTING") /\ HasPayload(d) -> "SUPPRESSING"
         [] d \in ByRole("FIREFIGHTING") /\ ~HasPayload(d) -> "RETURNING"
         [] OTHER -> "NONE"])
  /\ UNCHANGED <<charge, load, links, reg, latest, quiet, plan, faults>>

\* REINFORCE_FIRE sets the position, then fails: assign_reinforce takes one
\* argument more than it is given.
ReinforceFire ==
  /\ Commanded /\ fire' = TRUE
  /\ UNCHANGED <<drones, links, reg, latest, quiet, plan, faults>>

\* STAND_DOWN, ABORT_MISSION: every drone with a record is recalled.
StandDown ==
  /\ Commanded /\ fire' = FALSE
  /\ mode' = Sent([d \in Drone |-> IF d \in Known THEN "RETURNING" ELSE "NONE"])
  /\ quiet' = [d \in Drone |-> IF quiet[d] \in {"tracked", "overdue"} THEN "stale" ELSE quiet[d]]
  /\ UNCHANGED <<charge, load, links, reg, latest, plan, faults>>

-----------------------------------------------------------------------------
(* Announcements                                                           *)

\* _on_registry_announce of a drone
Announced(d) ==
  /\ d \in due /\ due' = due \ {d}
  /\ \/ /\ retained[d] = "OFFLINE" /\ d \in Known
        /\ Remove(d)
     \/ /\ retained[d] = "OFFLINE" /\ d \notin Known
        /\ UNCHANGED <<drones, reg, quiet>>
     \/ /\ retained[d] = "ONLINE"
        /\ reg' = [reg EXCEPT ![d] = IF d \in Known THEN @ ELSE Record(RoleOf(d), FALSE)]
        /\ UNCHANGED <<drones, quiet>>
  /\ UNCHANGED <<link, retained, fire, latest, plan, bounds>>

\* The connection is lost, or the process dies; the broker publishes the will.
Disconnect(d, how) ==
  /\ Fault /\ how \in {"off", "down"} /\ link[d] \in {"on", "hung"}
  /\ link' = [link EXCEPT ![d] = how]
  /\ retained' = [retained EXCEPT ![d] = "OFFLINE"]
  /\ due' = due \cup {d}
  /\ UNCHANGED <<drones, fire, reg, latest, quiet, plan, commands>>

\* paho reconnects and subscribes again; nothing is announced again, and the
\* retained announcement stays OFFLINE.
Reconnect(d) ==
  /\ link[d] = "off" /\ d \notin due
  /\ link' = [link EXCEPT ![d] = "on"]
  /\ UNCHANGED <<drones, retained, due, fire, reg, latest, quiet, plan, bounds>>

\* A new process, at home, which announces itself.
Restart(d) ==
  /\ link[d] = "down" /\ d \notin due
  /\ link' = [link EXCEPT ![d] = "on"]
  /\ retained' = [retained EXCEPT ![d] = "ONLINE"] /\ due' = due \cup {d}
  /\ mode' = [mode EXCEPT ![d] = "IDLE"]
  /\ charge' = [charge EXCEPT ![d] = Full]
  /\ load' = [load EXCEPT ![d] = IF d \in Scout THEN 0 ELSE Tank]
  /\ UNCHANGED <<fire, reg, latest, quiet, plan, bounds>>

\* The telemetry loop stalls, and may go on.
Hang(d) ==
  /\ Fault /\ link[d] = "on"
  /\ link' = [link EXCEPT ![d] = "hung"]
  /\ UNCHANGED <<drones, retained, due, fire, reg, latest, quiet, plan, commands>>

Recover(d) ==
  /\ link[d] = "hung"
  /\ link' = [link EXCEPT ![d] = "on"]
  /\ UNCHANGED <<drones, retained, due, fire, reg, latest, quiet, plan, bounds>>

\* The leader's connection breaks and returns: subscribing again brings the
\* retained announcement of every drone again.
LeaderReconnects ==
  /\ Fault /\ due' = Drone
  /\ UNCHANGED <<drones, link, retained, fire, reg, latest, quiet, plan, commands>>

-----------------------------------------------------------------------------

Next ==
  \/ \E d \in Drone : Tick(d) \/ Age(d) \/ RemoveLost(d) \/ Announced(d)
  \/ Reassess \/ Dispatch
  \/ RespondToFire \/ ContainFire \/ ReinforceFire \/ StandDown
  \/ \E d \in Drone : \/ \E how \in {"off", "down"} : Disconnect(d, how)
                      \/ Reconnect(d) \/ Restart(d) \/ Hang(d) \/ Recover(d)
  \/ LeaderReconnects

Spec == Init /\ [][Next]_vars

\* Loops run, time passes, and the broker delivers.
Fairness ==
  /\ \A d \in Drone : WF_vars(Tick(d)) /\ WF_vars(Age(d)) /\ WF_vars(RemoveLost(d)) /\ WF_vars(Announced(d))
  /\ WF_vars(Reassess) /\ WF_vars(Dispatch)

FairSpec == Spec /\ Fairness

-----------------------------------------------------------------------------
(* Properties                                                              *)

Home(d) == mode[d] \in {"IDLE", "RETURNING"}

\* Once there is no fire every drone that flies comes home and is not sent out
\* again: a RECALL may not reach it, the leader may have forgotten it, and
\* reassess() goes on sending fighters where a scout still reports SCOUTING.
AllComeHome ==
  <>[](~fire) => \A d \in Drone : <>[](link[d] \in {"on", "off"} => Home(d))

\* _check_lost_drones: "After LOST_GRACE_PERIOD, unregister and dispatch
\* replacement."  When a drone at work is removed and another of its kind is
\* idle, charged, connected (and loaded, if it carries a load), one is sent.
Spare(d) ==
  {s \in Idle(reg[d].role) \ {d} :
     mode[s] = "IDLE" /\ latest[s].charge > LowCharge /\ (s \in Fighter => latest[s].load > LowLoad)}

LostIsReplaced ==
  [][\A d \in Drone :
       /\ d \in Known /\ reg'[d] = Unknown /\ fire
       /\ reg[d].tele /\ latest[d].task \in {"SCOUTING", "SUPPRESSING"}
       /\ Spare(d) # {} /\ \A s \in Spare(d) : link[s] = "on"
       => \E s \in Spare(d) : mode'[s] = "TRANSIT"]_vars
=============================================================================
