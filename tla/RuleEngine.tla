----------------------------- MODULE RuleEngine -----------------------------
(***************************************************************************)
(* The commander's decisions as functions on its state: the stores of      *)
(* fires, missions and nodes, and the rules that RuleEngine.evaluate runs  *)
(* in order, each one seeing what the ones before it have done.            *)
(***************************************************************************)
EXTENDS Naturals, SequencesExt

CONSTANTS Fire,
          Leader,               \* nodes with the capability SWARM_LEAD
          Backup,               \* nodes with the capability LEADER_BACKUP
          Zone,                 \* Zone[n] : the zone a node announced
          Distance,             \* Distance[f][n] : from the fire to the leader
          Severity, High,       \* severities, and the least that is escalated
          NoFire                \* the job of an idle node

Node == Leader \cup Backup

ASSUME RuleAssumption ==
  /\ Leader \cap Backup = {}
  /\ Distance \in [Fire -> [Leader -> Nat]]
  /\ Severity \subseteq Nat /\ High \in Nat
  /\ NoFire \notin Fire

\* The commands to leaders.  The first three types have a trace_id derived from
\* type, fire and node; of the others, which draw a new one each time, the first
\* command of a fire and node is followed.
Trace ==
  ({"RESPOND_TO_FIRE", "CONTAIN_FIRE", "STAND_DOWN"} \X Fire \X Node)
    \cup ({"REINFORCE_FIRE", "CONFIRM_LEADERSHIP"} \X Fire \X Leader)

\* The rows of the table for the states that the commander ever sets; nothing
\* makes a fire SPREADING or EXTINGUISHED.
FIRE_TRANSITIONS ==
  { <<"IGNITED", "ACTIVE">>, <<"IGNITED", "SUPPRESSED">>,
    <<"ACTIVE", "CONTAINED">>, <<"ACTIVE", "SUPPRESSED">>,
    <<"CONTAINED", "SUPPRESSED">>, <<"CONTAINED", "ACTIVE">>,
    <<"SUPPRESSED", "ACTIVE">> }

\* Likewise: nothing makes a mission REINFORCING or FAILED.
MISSION_TRANSITIONS ==
  { <<"CREATED", "ASSIGNED">>, <<"ASSIGNED", "RUNNING">>, <<"ASSIGNED", "PAUSED">>,
    <<"RUNNING", "PAUSED">>, <<"RUNNING", "COMPLETED">>, <<"PAUSED", "ASSIGNED">> }

TERMINAL_MISSION_STATES == {"COMPLETED"}

-----------------------------------------------------------------------------
(* The stores.  w is the state of all of them, a record.                   *)

\* FireStateStore.transition
Turn(w, f, to) ==
  IF <<w.state[f], to>> \in FIRE_TRANSITIONS THEN [w EXCEPT !.state[f] = to] ELSE w

\* FireStateStore.assign_node: append, or clear.
Assign(w, f, n) ==
  IF n \in ToSet(w.nodes[f]) THEN w ELSE [w EXCEPT !.nodes[f] = Append(@, n)]
Clear(w, f) == [w EXCEPT !.nodes[f] = <<>>]

\* FireStateStore.remove_assigned_node; a node is in the list once at most.
Unassign(w, f, n) ==
  IF n \in ToSet(w.nodes[f])
  THEN [w EXCEPT !.nodes[f] = RemoveAt(@, CHOOSE i \in DOMAIN @ : @[i] = n)] ELSE w

\* NodeRegistry.release_job
Release(w, n) == [w EXCEPT !.job[n] = NoFire]

\* Mutation: a busy leader counts as available.
Available_Busy(w) == { l \in Leader : w.status[l] = "ACTIVE" }

\* NodeRegistry.get_available(SWARM_LEAD)
Available(w) == { l \in Leader : w.status[l] = "ACTIVE" /\ w.job[l] = NoFire }

\* MissionStore.get_for_fire and transition, on the fire's current mission.
HasMission(w, f) == w.current[f] # 0
MoveMission(w, f, to) ==
  IF HasMission(w, f) /\ <<w.mission[f][w.current[f]], to>> \in MISSION_TRANSITIONS
  THEN [w EXCEPT !.mission[f][w.current[f]] = to] ELSE w

\* Mutation: a finished mission is taken for an open one.
CreateMission_AnyState(w, f) ==
  IF HasMission(w, f) THEN w
  ELSE [w EXCEPT !.mission[f] = Append(@, "CREATED"), !.current[f] = Len(w.mission[f]) + 1]

\* MissionStore.create: an open mission is kept.
CreateMission(w, f) ==
  IF HasMission(w, f) /\ w.mission[f][w.current[f]] \notin TERMINAL_MISSION_STATES THEN w
  ELSE [w EXCEPT !.mission[f] = Append(@, "CREATED"), !.current[f] = Len(w.mission[f]) + 1]

\* CommandDispatcher.send: registered once, published every time.
Send(w, t) == IF w.ledger[t] = "NONE" THEN [w EXCEPT !.ledger[t] = "ISSUED"] ELSE w

-----------------------------------------------------------------------------
(* The rules, in the engine's order                                        *)

\* RESPOND_TO_FIRE as the engine submits it: the node is booked whatever it did.
Respond(w, f, n) ==
  LET sent == Send(w, <<"RESPOND_TO_FIRE", f, n>>)
  IN Assign([sent EXCEPT !.job[n] = f], f, n)

Unassigned(w, f) == w.state[f] = "ACTIVE" /\ w.nodes[f] = <<>>

FireDispatch(w, f) ==
  IF Unassigned(w, f) /\ Available(w) # {}
  THEN Respond(w, f, CHOOSE l \in Available(w) :
                       \A m \in Available(w) : Distance[f][l] <= Distance[f][m])
  ELSE w

\* ESCALATE_FIRE waits for the operator, who is asked once per fire: after an
\* ESCALATION_REQUESTED event of the fire, whoever asked, nothing more is sent.
Escalate(w, f) == [w EXCEPT !.asked = @ \cup {f}]

\* The two rules that escalate to get_by_capability(DISPATCH_COMMANDS) ask
\* nobody while no commander is ACTIVE in the registry.
EscalateToCommanders(w, f) == IF w.target THEN Escalate(w, f) ELSE w

HighSeverity(w, f) ==
  IF w.state[f] \in {"IGNITED", "ACTIVE"} /\ w.severity[f] >= High
  THEN EscalateToCommanders(w, f) ELSE w

NoResponders(w, f) ==
  IF Unassigned(w, f) /\ Available(w) = {} THEN EscalateToCommanders(w, f) ELSE w

Order(w, type, f) ==
  IF w.nodes[f] # <<>> THEN Send(w, <<type, f, Head(w.nodes[f])>>) ELSE w

FireContained(w, f) == IF w.state[f] = "CONTAINED" THEN Order(w, "CONTAIN_FIRE", f) ELSE w
FireSuppressed(w, f) == IF w.state[f] = "SUPPRESSED" THEN Order(w, "STAND_DOWN", f) ELSE w

Lost(w, f) == { i \in DOMAIN w.nodes[f] : w.status[w.nodes[f][i]] # "ACTIVE" }

ContainmentFailure(w, f) ==
  IF w.state[f] = "CONTAINED" /\ (w.nodes[f] = <<>> \/ Lost(w, f) # {})
  THEN Clear(Turn(w, f, "ACTIVE"), f) ELSE w

\* A backup in the zone takes over, busy or not.  Without one the command
\* REASSIGN_LEADER goes to "SYSTEM", where nobody listens.
LeaderLost(w, f) ==
  LET backups == { b \in Backup : w.status[b] = "ACTIVE" /\ Zone[b] = Zone[Head(w.nodes[f])] }
  IN IF w.nodes[f] = <<>> \/ Lost(w, f) # DOMAIN w.nodes[f] THEN w
     ELSE IF backups # {} THEN Respond(w, f, CHOOSE b \in backups : TRUE)
     ELSE [w EXCEPT !.unheard = @ \cup {f}]

\* Preempted from the least severe fire that has a leader, in any state but
\* EXTINGUISHED; the leader taken is the first of that fire's list.
Priority(w, f) ==
  LET led == { g \in Fire \ {f} : w.state[g] # "UNKNOWN" /\ w.nodes[g] # <<>> }
      lowest == CHOOSE g \in led : \A h \in led : w.severity[g] <= w.severity[h]
      stolen == Head(w.nodes[lowest])
  IN IF Available(w) = {} /\ w.nodes[f] = <<>> /\ led # {} /\ w.severity[lowest] < w.severity[f]
     THEN Unassign(Respond(Send(w, <<"STAND_DOWN", lowest, stolen>>), f, stolen), lowest, stolen)
     ELSE w

-----------------------------------------------------------------------------
(* The rules that read what swarm leaders report (SwarmStatusSnapshot).    *)

\* The worst of what the leaders of a fire report.
Telemetry == [spread : {"SLOW", "MODERATE", "RAPID"}, attrition : BOOLEAN, exhausted : BOOLEAN]

\* Active leaders that are not at the fire, booked elsewhere or not.
Fresh(w, f) ==
  { l \in Leader : w.status[l] = "ACTIVE" /\ \A i \in DOMAIN w.nodes[f] : w.nodes[f][i] # l }

\* A reinforcement is neither booked nor assigned.
Reinforce(w, f) == Send(w, <<"REINFORCE_FIRE", f, CHOOSE l \in Fresh(w, f) : TRUE>>)

FireExpansion(w, f, report) ==
  IF Len(w.nodes[f]) < 2 /\ report.spread = "RAPID" /\ Fresh(w, f) # {} THEN Reinforce(w, f) ELSE w

\* The fire goes on burning with the leaders it has.
ContainmentSlips(w, f, report) ==
  LET held == ContainmentFailure(w, f)
  IN IF held.state[f] = "CONTAINED" /\ report.spread # "SLOW" THEN Turn(held, f, "ACTIVE") ELSE held

\* These two escalate to "SYSTEM", commander or not.
ReinforceOrEscalate(w, f) == IF Fresh(w, f) # {} THEN Reinforce(w, f) ELSE Escalate(w, f)

SwarmAttrition(w, f, report) == IF report.attrition THEN ReinforceOrEscalate(w, f) ELSE w

ResourceExhaustion(w, f, report) ==
  LET stood == [w EXCEPT !.ledger = [t \in Trace |->
                  IF w.ledger[t] = "NONE" /\ t[1] = "STAND_DOWN" /\ t[2] = f
                     /\ \E i \in DOMAIN w.nodes[f] : w.nodes[f][i] = t[3]
                  THEN "ISSUED" ELSE w.ledger[t]]]
  IN IF report.exhausted THEN ReinforceOrEscalate(stood, f) ELSE w

\* RuleEngine.evaluate with the filter of _handle_swarm_status.
EvaluateTelemetry(w, f, report) ==
  LET a == ContainmentSlips(FireExpansion(w, f, report), f, report)
  IN ResourceExhaustion(SwarmAttrition(a, f, report), f, report)

\* CONFIRM_LEADERSHIP, the only rule that an election runs.
ElectedLeader(w, f, n) == Send(w, <<"CONFIRM_LEADERSHIP", f, n>>)

-----------------------------------------------------------------------------
\* RuleEngine.evaluate without a filter.
Evaluate(w, f) ==
  LET a == NoResponders(HighSeverity(FireDispatch(w, f), f), f)
      b == FireSuppressed(FireContained(a, f), f)
  IN LeaderLost(ContainmentFailure(b, f), f)

\* For a new fire PriorityRule runs too, last.
EvaluateNew(w, f) == Priority(Evaluate(w, f), f)

\* Mutation: the second pass over a fire that became active is left out.
Redispatch_OnePass(w, f) ==
  IF w.state[f] = "SUPPRESSED" THEN w
  ELSE LET first == Evaluate(Clear(w, f), f)
       IN IF first.nodes[f] # <<>> THEN MoveMission(first, f, "ASSIGNED") ELSE first

\* CommanderCore.redispatch_fire
Redispatch(w, f) ==
  IF w.state[f] = "SUPPRESSED" THEN w
  ELSE LET first == Evaluate(Clear(w, f), f)
           after == IF Unassigned(first, f) THEN Evaluate(first, f) ELSE first
       IN IF after.nodes[f] # <<>> THEN MoveMission(after, f, "ASSIGNED") ELSE after
=============================================================================
