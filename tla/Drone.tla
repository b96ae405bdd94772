------------------------------- MODULE Drone -------------------------------
(***************************************************************************)
(* One drone: ScoutDroneNode or FirefightingDroneNode with its action      *)
(* engine, its movement and its resources.  Two threads work on them       *)
(* without a lock: paho's, which carries out the leader's orders, and      *)
(* _telemetry_loop, which ticks the engine every two seconds.  Each        *)
(* assignment to a field both threads use is a step of its own: a thread   *)
(* is the list of assignments it has still to make, and the telemetry      *)
(* thread decides on the next ones at the points where the code reads.     *)
(*                                                                         *)
(* Places stand for positions (any leg takes three ticks), units of charge   *)
(* for Wh (a tick in flight costs one), units of load for the litres one   *)
(* tick of the pump drops.  A grid sweep is never started by any caller.   *)
(***************************************************************************)
EXTENDS Integers, Sequences

CONSTANTS Full,          \* charge of a fresh battery
          Urgent,        \* should_return_to_base at or below this charge
          Tank,          \* loads of a full tank (TANK_CAPACITY_L)
          Low,           \* low_payload at or below this load
          MaxOrder       \* bound on the leader's orders

ASSUME DroneAssumption ==
  /\ Full \in Nat /\ Urgent \in Nat /\ Urgent < Full
  /\ Tank \in Nat /\ Low \in Nat /\ Low < Tank
  /\ MaxOrder \in Nat

VARIABLES role,          \* which class of drone this is; never changes
          engine,        \* _action._state
          label,         \* _task
          wp,            \* _movement._wp_ned
          pos,           \* where it is
          pump,          \* _action._pump_active
          charge, load,  \* _resources
          phantom,       \* litres were added to _litres_delivered that no tank held
          dry,           \* it was sent out with an empty tank
          paho,          \* assignments the paho thread has still to make
          tel,           \* the telemetry thread: the point it reads at, and its assignments
          told, heard,   \* the last order carried out, and that at the start of this tick
          orders

body == <<engine, label, wp, pos, pump>>
resources == <<charge, load, phantom, dry>>
history == <<told, heard, orders>>
vars == <<role, body, resources, paho, tel, history>>

Role == {"SCOUT", "FIREFIGHTING"}
State == {"IDLE", "TRANSITING", "ORBITING", "APPROACH", "DROPPING", "EGRESS", "RETURNING"}
Task == {"IDLE", "SCOUTING", "SUPPRESSING", "RETURNING"}
Target == {"home", "start", "fire", "egress", "ring"}    \* where a waypoint may be
NoTarget == "none"
Order == {"NONE", "DISPATCH", "RECALL", "RELABEL"}

\* An assignment: the field, and the value.
Set(field, value) == [field |-> field, value |-> value]
Field == {"engine", "label", "wp", "snap", "pump", "drop", "service", "done"}
Point == {"rest", "engine", "passed", "label", "battery", "sent"}

TypeOK ==
  /\ role \in Role /\ engine \in State /\ label \in Task
  /\ wp \in Target \cup {NoTarget} /\ pos \in Target \cup {"far", "air"}
  /\ pump \in BOOLEAN /\ phantom \in BOOLEAN /\ dry \in BOOLEAN
  /\ charge \in 0 .. Full /\ load \in 0 .. Tank
  /\ \A i \in DOMAIN paho : paho[i].field \in Field
  /\ tel.at \in Point /\ \A i \in DOMAIN tel.todo : tel.todo[i].field \in Field
  /\ told \in Order /\ heard \in Order /\ orders \in 0 .. MaxOrder

\* A scout's tank is always empty.
Init ==
  /\ role \in Role
  /\ engine = "IDLE" /\ label = "IDLE" /\ wp = NoTarget /\ pos = "home" /\ pump = FALSE
  /\ charge = Full /\ load = (IF role = "SCOUT" THEN 0 ELSE Tank) /\ phantom = FALSE /\ dry = FALSE
  /\ paho = <<>> /\ tel = [at |-> "rest", todo |-> <<>>]
  /\ told = "NONE" /\ heard = "NONE" /\ orders = 0

Scout == role = "SCOUT"
\* Mutation: nothing stops at zero.
Spend_NoFloor(c) == c - 1

Spend(c) == IF c > 0 THEN c - 1 ELSE 0
AtWaypoint == wp = NoTarget \/ pos = wp

-----------------------------------------------------------------------------
(* The orders of the leader, on the paho thread                            *)

WorkTask == IF Scout THEN "SCOUTING" ELSE "SUPPRESSING"

\* recall(); the scout has no pump.
Recall ==
  (IF Scout THEN <<>> ELSE <<Set("pump", FALSE)>>)
    \o <<Set("engine", "RETURNING"), Set("wp", "home")>>

\* dispatch_to(): a scout heads for the fire, a fighter for its approach.
DispatchTo ==
  <<Set("engine", "TRANSITING")>>
    \o (IF Scout THEN <<Set("wp", "fire")>> ELSE <<Set("pump", FALSE), Set("wp", "start")>>)

\* The order is carried out, and acknowledged, when all is assigned.
Obey(order, writes) ==
  /\ paho = <<>> /\ orders < MaxOrder
  /\ orders' = orders + 1
  /\ paho' = writes \o <<Set("done", order)>>
  /\ UNCHANGED <<role, body, resources, tel, told, heard>>

\* DISPATCH_DRONE, or UPDATE_TASK with the drone's own task and a target
ObeyDispatch == Obey("DISPATCH", <<Set("label", WorkTask)>> \o DispatchTo)
\* RECALL_DRONE, or UPDATE_TASK RETURNING
ObeyRecall == Obey("RECALL", <<Set("label", "RETURNING")>> \o Recall)
\* UPDATE_TASK IDLE, which the leader sends to hold a fighter, sets the label only
ObeyRelabel == ~Scout /\ Obey("RELABEL", <<Set("label", "IDLE")>>)

-----------------------------------------------------------------------------
(* An assignment of either thread                                          *)

Assign(w) ==
  /\ engine' = IF w.field = "engine" THEN w.value ELSE engine
  /\ label' = IF w.field = "label" THEN w.value ELSE label
  /\ pos' = IF w.field = "snap" /\ wp # NoTarget THEN wp ELSE pos
  /\ wp' = IF w.field = "wp" THEN w.value ELSE wp
  /\ pump' = IF w.field = "pump" THEN w.value ELSE pump
  /\ told' = IF w.field = "done" THEN w.value ELSE told

\* service_at_base(): full charge, full tank, wherever the drone is.
PahoWrites ==
  /\ paho # <<>>
  /\ Assign(Head(paho))
  /\ paho' = Tail(paho)
  /\ dry' = (dry \/ (Head(paho) = Set("engine", "TRANSITING") /\ load = 0))
  /\ UNCHANGED <<role, charge, load, phantom, tel, heard, orders>>

\* Pumping for a tick adds the tick's litres to _litres_delivered whether or
\* not the tank held them: the code's `payload_litres >= 0` is always true.
TelWrites ==
  /\ tel.todo # <<>>
  /\ LET w == Head(tel.todo) IN
       /\ Assign(w)
       /\ charge' = CASE w.field = "service" -> Full
                      [] w.field = "drop" /\ pump -> Spend(charge)
                      [] OTHER -> charge
       /\ load' = CASE w.field = "service" -> Tank
                    [] w.field = "drop" /\ pump -> Spend(load)
                    [] OTHER -> load
       /\ phantom' = (phantom \/ (w.field = "drop" /\ pump /\ load = 0))
  /\ tel' = [tel EXCEPT !.todo = Tail(@)]
  /\ UNCHANGED <<role, dry, paho, heard, orders>>

-----------------------------------------------------------------------------
(* A tick of the telemetry loop                                            *)

At(point) == tel.at = point /\ tel.todo = <<>>
Go(point, writes) == tel' = [at |-> point, todo |-> writes]

\* movement.tick(): one leg nearer, or snap to the waypoint and hover.
Move ==
  /\ At("rest")
  /\ heard' = told
  /\ IF wp # NoTarget /\ ~AtWaypoint
     THEN /\ pos' = IF pos = "air" THEN wp ELSE "air"
          /\ Go("engine", <<>>)
     ELSE /\ UNCHANGED pos
          /\ Go("engine", IF wp = NoTarget THEN <<>> ELSE <<Set("snap", 0), Set("wp", NoTarget)>>)
  /\ UNCHANGED <<role, engine, label, wp, pump, resources, paho, told, orders>>

\* ScoutActionEngine.tick(); the scout's battery drains in every state.
ScoutTick ==
  /\ Scout /\ At("engine")
  /\ charge' = Spend(charge)
  /\ Go("label",
        CASE ~AtWaypoint -> <<>>
          [] engine = "TRANSITING" -> <<Set("engine", "ORBITING"), Set("wp", "ring")>>
          [] engine = "ORBITING" -> <<Set("wp", "ring")>>
          [] engine = "RETURNING" -> <<Set("engine", "IDLE")>>
          [] OTHER -> <<>>)
  /\ UNCHANGED <<role, body, load, phantom, dry, paho, history>>

\* SuppressionActionEngine.tick(), all states but DROPPING: IDLE costs nothing.
FighterTick ==
  /\ ~Scout /\ At("engine") /\ engine # "DROPPING"
  /\ charge' = IF engine = "IDLE" THEN charge ELSE Spend(charge)
  /\ Go("label",
        CASE engine = "IDLE" \/ ~AtWaypoint -> <<>>
          [] engine = "TRANSITING" -> <<Set("wp", "start"), Set("engine", "APPROACH")>>
          [] engine = "APPROACH" -> <<Set("wp", "fire"), Set("engine", "DROPPING")>>
          [] engine = "EGRESS" /\ load <= Low -> <<Set("engine", "RETURNING"), Set("wp", "home")>>
          [] engine = "EGRESS" /\ load > Low -> <<Set("wp", "start"), Set("engine", "APPROACH")>>
          [] OTHER -> <<Set("engine", "IDLE"), Set("service", 0)>>)
  /\ UNCHANGED <<role, body, load, phantom, dry, paho, history>>

\* DROPPING: the pump starts within reach of the fire; how far that is
\* depends on the load, so anywhere near it may.
MayPump == pos # "home"
MustPump == pos = "fire"

DropTick ==
  /\ ~Scout /\ At("engine") /\ engine = "DROPPING"
  /\ \/ /\ ~pump /\ MayPump
        /\ Go("passed", <<Set("pump", TRUE), Set("drop", 0)>>)
     \/ /\ ~pump /\ ~MustPump
        /\ Go("passed", <<Set("drop", 0)>>)
     \/ /\ pump
        /\ Go("passed", <<Set("drop", 0)>>)
  /\ UNCHANGED <<role, body, resources, paho, history>>

\* Mutation: an empty tank does not end the mission.
PassEnds_Overhead ==
  CASE AtWaypoint -> <<Set("pump", FALSE), Set("engine", "EGRESS"), Set("wp", "egress")>>
    [] OTHER -> <<>>

\* The pass ends over the fire, the mission when the tank is empty.
PassEnds ==
  CASE AtWaypoint -> <<Set("pump", FALSE), Set("engine", "EGRESS"), Set("wp", "egress")>>
    [] ~AtWaypoint /\ load = 0 -> <<Set("pump", FALSE)>> \o Tail(Recall)
    [] OTHER -> <<>>

EndPass ==
  /\ At("passed")
  /\ Go("label", PassEnds)
  /\ UNCHANGED <<role, body, resources, paho, history>>

\* state_map: EGRESS is reported as RETURNING.
TaskOf(s) ==
  CASE s = "IDLE" -> "IDLE"
    [] s \in {"EGRESS", "RETURNING"} -> "RETURNING"
    [] OTHER -> WorkTask

Relabel ==
  /\ At("label")
  /\ Go("battery", <<Set("label", TaskOf(engine))>>)
  /\ UNCHANGED <<role, body, resources, paho, history>>

\* Mutation: the check of the fighter, which waits at home without charge.
Exhausted_NotIdle ==
  charge <= Urgent /\ label \notin {"RETURNING", "IDLE", "SCOUTING"}

\* Emergency return; then the telemetry is sent.
Exhausted ==
  charge <= Urgent /\ label # "RETURNING" /\ (Scout \/ label # "IDLE")

CheckBattery ==
  /\ At("battery")
  /\ Go("sent", IF Exhausted THEN <<Set("label", "RETURNING")>> \o Recall ELSE <<>>)
  /\ UNCHANGED <<role, body, resources, paho, history>>

\* The loop sleeps two seconds: an order begun before is carried out by then.
Sleep ==
  /\ At("sent") /\ paho = <<>>
  /\ Go("rest", <<>>)
  /\ UNCHANGED <<role, body, resources, paho, history>>

Tick ==
  \/ TelWrites \/ Move \/ ScoutTick \/ FighterTick \/ DropTick
  \/ EndPass \/ Relabel \/ CheckBattery \/ Sleep

Next == ObeyDispatch \/ ObeyRecall \/ ObeyRelabel \/ PahoWrites \/ Tick

Spec == Init /\ [][Next]_vars

\* Both threads run; nothing makes the leader give an order.
FairSpec == Spec /\ WF_vars(PahoWrites) /\ WF_vars(Tick)

-----------------------------------------------------------------------------
(* Properties                                                              *)

\* What is reported as delivered was in a tank: litres_delivered, from which
\* the leader computes how far the fire is suppressed, never counts a tick of
\* the pump on an empty tank, however orders and ticks interleave, unless the
\* drone was sent out with an empty tank.
DeliveredWasCarried == phantom => dry

\* The same of every drone ("litres_delivered: total litres dropped on fire").
OnlyCarriedIsDelivered == ~phantom

\* When orders cease a drone comes to rest, even if an order was lost between
\* two assignments of a tick: a fighter in the engine's IDLE (its load and its
\* charge are finite), a scout at home (its battery is never recharged).
ComesToRest ==
  /\ role = "FIREFIGHTING" => <>[](engine = "IDLE" /\ label = "IDLE")
  /\ role = "SCOUT" => <>[](pos = "home")

\* recall(): "Leader recalled drone. Stop pump and return home."  A drone that
\* acknowledged a recall before a tick began drops nothing in that tick.
RecallStopsPump == [][load' < load => heard # "RECALL"]_vars

\* service_at_base() "simulates landing at base station".
ServicedAtBase == [][load' > load => pos = "home"]_vars
=============================================================================
