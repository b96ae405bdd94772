--------------------------- MODULE FireCommander ---------------------------
(***************************************************************************)
(* An active commander (CommanderCore in CentralNode): every message and   *)
(* timer that makes it decide, over the stores and rules of RuleEngine.    *)
(* A handler is one step.  The swarm behind it is free: leaders fall       *)
(* silent, come back, answer late, out of order or never, and events come  *)
(* more than once.                                                         *)
(***************************************************************************)
EXTENDS RuleEngine

CONSTANTS MaxEvent,             \* bound on what happens to the commander
          MaxReport,            \* bound on reports of leaders and elections among them
          MaxMission            \* bound on the missions of one fire

ASSUME BoundAssumption == MaxEvent \in Nat /\ MaxReport \in Nat /\ MaxMission \in Nat

VARIABLES state, severity, nodes,       \* FireRecord: state, severity, assigned_nodes
          mission,              \* mission[f] : the states of f's missions, oldest first
          current,              \* _fire_index: the place of f's mission, or 0
          status, job,          \* NodeRecord: status, current_job
          dead,                 \* HeartbeatMonitor._dead_nodes
          target,               \* a node with DISPATCH_COMMANDS is ACTIVE
          ledger,               \* status of the commands to leaders
          unheard,              \* fires with a command that nobody will acknowledge
          asked,                \* fires with an ESCALATION_REQUESTED event
          rekindled,            \* fires that flared up after their last mission
          again,                \* fires a leader's heartbeat has still to look at
          events, reports       \* bounds

fireVars == <<state, severity, nodes>>
missionVars == <<mission, current>>
nodeVars == <<status, job, dead, target>>
vars == <<fireVars, missionVars, nodeVars, ledger, unheard, asked, rekindled, again, events,
          reports>>

LedgerStatus == {"ISSUED", "RECEIVED", "EXECUTED", "FAILED"}
MissionState == {"CREATED", "ASSIGNED", "RUNNING", "PAUSED", "COMPLETED", "EVICTED"}
Unfinished == {"CREATED", "ASSIGNED", "RUNNING", "PAUSED"}

\* The ledger's table is the tracker's.
Tracker == INSTANCE CommandTracker
             WITH status <- ledger, seen <- {}, history <- {}, dated <- {}

TypeOK ==
  /\ state \in [Fire -> {"UNKNOWN", "ACTIVE", "CONTAINED", "SUPPRESSED"}]
  /\ severity \in [Fire -> Severity]
  /\ nodes \in [Fire -> Seq(Node)]
  /\ mission \in [Fire -> Seq(MissionState)]
  /\ current \in [Fire -> Nat]
  /\ \A f \in Fire : current[f] <= Len(mission[f]) /\ IsInjective(nodes[f])
  /\ status \in [Node -> {"REGISTERED", "ACTIVE", "OFFLINE"}]
  /\ job \in [Node -> Fire \cup {NoFire}]
  /\ dead \subseteq Node /\ target \in BOOLEAN
  /\ ledger \in [Trace -> {"NONE"} \cup LedgerStatus]
  /\ unheard \subseteq Fire /\ asked \subseteq Fire /\ rekindled \subseteq Fire
  /\ again \subseteq Fire
  /\ events \in Nat /\ reports \in Nat

Init ==
  /\ state = [f \in Fire |-> "UNKNOWN"]
  /\ severity \in [Fire -> Severity]
  /\ nodes = [f \in Fire |-> <<>>]
  /\ mission = [f \in Fire |-> <<>>] /\ current = [f \in Fire |-> 0]
  /\ status = [n \in Node |-> "REGISTERED"]
  /\ job = [n \in Node |-> NoFire]
  /\ dead = {} /\ target = FALSE
  /\ ledger = [t \in Trace |-> "NONE"]
  /\ unheard = {} /\ asked = {} /\ rekindled = {} /\ again = {}
  /\ events = 0 /\ reports = 0

\* The stores as the rules see them, and what a handler leaves in them.
World == [state |-> state, severity |-> severity, nodes |-> nodes, mission |-> mission,
          current |-> current, status |-> status, job |-> job, target |-> target,
          ledger |-> ledger, unheard |-> unheard, asked |-> asked]

Become(w) ==
  /\ state' = w.state /\ severity' = w.severity /\ nodes' = w.nodes
  /\ mission' = w.mission /\ current' = w.current
  /\ status' = w.status /\ job' = w.job /\ target' = w.target
  /\ ledger' = w.ledger /\ unheard' = w.unheard /\ asked' = w.asked

Event == events < MaxEvent /\ events' = events + 1 /\ UNCHANGED reports
Report == events < MaxEvent /\ events' = events + 1 /\ reports < MaxReport /\ reports' = reports + 1
NoEvent == UNCHANGED <<events, reports>>

-----------------------------------------------------------------------------
(* Fire events                                                             *)

Known(f) == state[f] # "UNKNOWN"

\* ignite() keeps a known fire; an unknown one is IGNITED, then ACTIVE.
FireDetected(f) ==
  /\ Event
  /\ Len(mission[f]) < MaxMission \/ (HasMission(World, f) /\ mission[f][current[f]] # "COMPLETED")
  /\ LET lit == IF Known(f) THEN World ELSE [World EXCEPT !.state[f] = "IGNITED"]
         opened == CreateMission(Turn(lit, f, "ACTIVE"), f)
         after == EvaluateNew(opened, f)
     IN /\ Become(IF Available(after) # {} THEN MoveMission(after, f, "ASSIGNED") ELSE after)
        /\ rekindled' = IF opened.mission[f] # mission[f] THEN rekindled \ {f} ELSE rekindled
  /\ UNCHANGED <<dead, again>>

FireContainedEvent(f) ==
  /\ Event
  /\ Known(f)
  /\ Become(Evaluate(Turn(World, f, "CONTAINED"), f))
  /\ UNCHANGED <<dead, rekindled, again>>

\* The first assigned node is released, whatever it is working on.
FireSuppressedEvent(f) ==
  /\ Event
  /\ Known(f)
  /\ LET freed == IF nodes[f] # <<>> THEN Release(World, Head(nodes[f])) ELSE World
         out == Evaluate(Turn(freed, f, "SUPPRESSED"), f)
     IN Become(MoveMission(out, f, "COMPLETED"))
  /\ UNCHANGED <<dead, rekindled, again>>

\* The DomainEvent that follows has a type the model does not allow: it raises,
\* and the rules are never asked.
FireRekindled(f) ==
  /\ Event
  /\ state[f] = "SUPPRESSED"
  /\ Become(Turn(World, f, "ACTIVE"))
  /\ rekindled' = rekindled \cup {f}
  /\ UNCHANGED <<dead, again>>

FireIntensity(f, s) ==
  /\ Report
  /\ Known(f) /\ s # severity[f]
  /\ Become(HighSeverity([World EXCEPT !.severity[f] = s], f))
  /\ UNCHANGED <<dead, rekindled, again>>

\* _handle_swarm_status; what no rule reacts to is not an event here.
SwarmStatus(f, report) ==
  /\ Report
  /\ Known(f)
  /\ LET after == EvaluateTelemetry(World, f, report) IN after # World /\ Become(after)
  /\ UNCHANGED <<dead, rekindled, again>>

\* _handle_swarm_election with a term above the fire's (others change nothing):
\* the winner is added to the leaders of the fire, and not booked.
SwarmElection(f, n) ==
  /\ Report
  /\ Known(f)
  /\ Become(ElectedLeader(Assign(World, f, n), f, n))
  /\ UNCHANGED <<dead, rekindled, again>>

-----------------------------------------------------------------------------
(* Nodes                                                                   *)

\* HeartbeatMonitor.update, NodeRegistry.heartbeat, _on_node_became_available:
\* a leader that becomes ACTIVE has the waiting fires looked at again.  (A
\* heartbeat of an ACTIVE node changes only its last_seen.)
Heartbeat(n) ==
  /\ again = {}
  /\ status[n] # "ACTIVE"
  /\ status' = [status EXCEPT ![n] = "ACTIVE"]
  /\ dead' = dead \ {n}
  /\ again' = IF n \in Leader THEN { f \in Fire : Known(f) /\ nodes[f] = <<>> } ELSE {}
  /\ UNCHANGED <<fireVars, missionVars, job, target, ledger, unheard, asked, rekindled>> /\ NoEvent

\* One after the other, in the order of the dictionary, before anything else.
LookAgain(f) ==
  /\ f \in again /\ again' = again \ {f}
  /\ Become(NoResponders(FireDispatch(World, f), f))
  /\ UNCHANGED <<dead, rekindled>> /\ NoEvent

\* The node's last will, or the commander's own OFFLINE announcement.
AnnounceOffline(n) ==
  /\ Event
  /\ status[n] # "OFFLINE"
  /\ status' = [status EXCEPT ![n] = "OFFLINE"]
  /\ UNCHANGED <<fireVars, missionVars, job, target, dead, ledger, unheard, asked, rekindled, again>>

\* A node announces itself again: only an OFFLINE one loses its job.
Announce(n) ==
  /\ Event
  /\ status[n] = "OFFLINE" /\ job[n] # NoFire
  /\ Become(Release(World, n))
  /\ UNCHANGED <<dead, rekindled, again>>

\* The commanders are nodes of the registry themselves: REGISTERED until a
\* heartbeat of theirs comes in, the commander's own included, and OFFLINE when
\* the other one's last will comes or it is declared dead.
CommanderHeard ==
  /\ ~target /\ target' = TRUE
  /\ UNCHANGED <<fireVars, missionVars, status, job, dead, ledger, unheard, asked, rekindled,
                 again>> /\ NoEvent

CommanderLost ==
  /\ Event
  /\ target /\ target' = FALSE
  /\ UNCHANGED <<fireVars, missionVars, status, job, dead, ledger, unheard, asked, rekindled,
                 again>>

\* HeartbeatMonitor._declare_dead and CentralNode._on_node_failed
NodeFailed(n) ==
  /\ Event
  /\ status[n] # "REGISTERED" /\ n \notin dead
  /\ dead' = dead \cup {n}
  /\ LET down == [World EXCEPT !.status[n] = "OFFLINE"]
         f == job[n]
     IN Become(IF n \in Leader /\ f # NoFire
               THEN Redispatch(MoveMission(Release(down, n), f, "PAUSED"), f)
               ELSE down)
  /\ UNCHANGED <<rekindled, again>>

-----------------------------------------------------------------------------
(* Commands                                                                *)

\* What _handle_ack does once the tracker has accepted the acknowledgement.
AckEffects(w, n, ack) ==
  CASE ack = "FAILED" -> Release(w, n)
    [] ack = "RECEIVED" /\ w.job[n] # NoFire -> MoveMission(w, w.job[n], "RUNNING")
    [] OTHER -> w

\* Mutation: the acknowledgement has its effects and is not recorded.
Ack_Unrecorded(t, ack) ==
  /\ <<ledger[t], ack>> \in Tracker!VALID_TRANSITIONS
  /\ Become(AckEffects(World, t[3], ack))
  /\ IF ack = "RECEIVED" THEN NoEvent ELSE Event
  /\ UNCHANGED <<dead, rekindled, again>>

Ack(t, ack) ==
  /\ <<ledger[t], ack>> \in Tracker!VALID_TRANSITIONS
  /\ Become(AckEffects([World EXCEPT !.ledger[t] = ack], t[3], ack))
  /\ IF ack = "RECEIVED" THEN NoEvent ELSE Event
  /\ UNCHANGED <<dead, rekindled, again>>

\* _check_command_timeouts; the command stays ISSUED.
AckTimeout(t) ==
  /\ Event
  /\ ledger[t] = "ISSUED"
  /\ Become(Redispatch(Release(World, t[3]), t[2]))
  /\ UNCHANGED <<dead, rekindled, again>>

UnheardTimeout(f) ==
  /\ Event
  /\ f \in unheard
  /\ Become(Redispatch(World, f))
  /\ UNCHANGED <<dead, rekindled, again>>

\* The operator approves the escalation: ESCALATE_FIRE goes to a commander,
\* which acknowledges nothing.
ApproveEscalation(f) ==
  /\ f \in asked
  /\ unheard' = unheard \cup {f}
  /\ UNCHANGED <<fireVars, missionVars, nodeVars, ledger, asked, rekindled, again, events,
                 reports>>

\* Mutation: the mission goes, and its index entry stays.
EvictMission_KeepIndex(f) ==
  /\ \E i \in DOMAIN mission[f] :
       /\ mission[f][i] = "COMPLETED"
       /\ mission' = [mission EXCEPT ![f] = RemoveAt(@, i)]
  /\ UNCHANGED <<current, fireVars, nodeVars, ledger, unheard, asked, rekindled, again, events,
                 reports>>

\* MissionStore.evict_terminal, an hour later: the index entry of the fire
\* goes too, whichever mission it names.
EvictMission(f) ==
  /\ \E i \in DOMAIN mission[f] :
       /\ mission[f][i] = "COMPLETED"
       /\ mission' = [mission EXCEPT ![f][i] = "EVICTED"]
  /\ current' = [current EXCEPT ![f] = 0]
  /\ UNCHANGED <<fireVars, nodeVars, ledger, unheard, asked, rekindled, again, events,
                 reports>>

Handler ==
  \/ \E f \in Fire :
       \/ FireDetected(f) \/ FireContainedEvent(f) \/ FireSuppressedEvent(f) \/ FireRekindled(f)
       \/ \E s \in Severity : FireIntensity(f, s)
       \/ \E report \in Telemetry : SwarmStatus(f, report)
       \/ \E n \in Leader : SwarmElection(f, n)
       \/ UnheardTimeout(f) \/ ApproveEscalation(f) \/ EvictMission(f)
  \/ \E n \in Node : AnnounceOffline(n) \/ Announce(n) \/ NodeFailed(n)
  \/ CommanderHeard \/ CommanderLost
  \/ \E t \in Trace : AckTimeout(t) \/ \E ack \in {"RECEIVED", "EXECUTED", "FAILED"} : Ack(t, ack)

Next ==
  \/ again = {} /\ Handler
  \/ \E n \in Node : Heartbeat(n)
  \/ \E f \in again : LookAgain(f)

Spec == Init /\ [][Next]_vars

\* A node that runs publishes its heartbeats, whatever the commander does, and
\* a handler comes to its end.
FairSpec ==
  /\ Spec
  /\ \A n \in Node : WF_vars(Heartbeat(n))
  /\ \A f \in Fire : WF_vars(LookAgain(f))

-----------------------------------------------------------------------------
(* Properties                                                              *)

\* A running mission was acknowledged: a leader that was sent to its fire has
\* answered a command ("RUNNING: target ACKed RECEIVED").
RunningWasAnswered ==
  \A f \in Fire : "RUNNING" \in ToSet(mission[f]) =>
    \E n \in Node : /\ ledger[<<"RESPOND_TO_FIRE", f, n>>] # "NONE"
                    /\ \E t \in Trace : t[3] = n /\ ledger[t] \in LedgerStatus \ {"ISSUED"}

\* A fire that burns has an unfinished mission, however its events are
\* repeated and old missions evicted, unless it flared up again after the
\* mission was over.
BurningHasMission ==
  \A f \in Fire : state[f] \in {"ACTIVE", "CONTAINED"} /\ f \notin rekindled =>
    ToSet(mission[f]) \cap Unfinished # {}

\* A new fire, and a fire whose leader is declared dead, has an active leader
\* after the same step; or nobody is free, and the operator has been asked about
\* it, now or when something else escalated it, or no commander was there to ask.
HelpIsSought ==
  [][ LET helped(f) ==
            \/ \E i \in DOMAIN nodes'[f] : status'[nodes'[f][i]] = "ACTIVE"
            \/ Available(World)' = {} /\ (target' => f \in asked')
      IN \A f \in Fire :
           \/ state[f] = "UNKNOWN" /\ state'[f] # "UNKNOWN"
           \/ \E l \in Leader : l \in dead' \ dead /\ job[l] = f /\ state[f] # "SUPPRESSED"
           => helped(f) ]_vars

\* A leader at work changes fires only if no other is free, unless a command
\* of its own was left unanswered.
BusyLeaderKept ==
  [][ \A l \in Leader :
        job[l] # NoFire /\ job'[l] \notin {job[l], NoFire} =>
          \/ Available(World) = {}
          \/ \E t \in Trace : t[3] = l /\ ledger[t] = "ISSUED" ]_vars

\* _handle_fire_rekindled: "Re-evaluate to trigger dispatch".  A fire that
\* flares up without a leader is given one when one is free.
RekindledIsDispatched ==
  [][ \A f \in Fire :
        state[f] = "SUPPRESSED" /\ state'[f] = "ACTIVE" /\ nodes[f] = <<>> /\ Available(World) # {} =>
          nodes'[f] # <<>> ]_vars

\* NoRespondersRule: "Triggers on FIRE_DETECTED only when no SWARM_LEAD nodes are
\* available.  Escalates to DISPATCH_COMMANDS nodes ... so a human is notified
\* immediately."
HumanIsNotified ==
  [][ \A f \in Fire :
        state[f] = "UNKNOWN" /\ state'[f] = "ACTIVE" /\ nodes'[f] = <<>> /\ Available(World) = {} =>
          f \in asked' ]_vars

\* PAUSED: "awaiting reassignment (assigned node failed)".  redispatch_fire
\* moves the mission back "instead of leaving it permanently stuck".
PausedAwaitsLeader ==
  \A f \in Fire : HasMission(World, f) /\ mission[f][current[f]] = "PAUSED" => nodes[f] = <<>>

\* PriorityRule: "Preempts leader from lowest-priority fire when a
\* higher-priority fire has no available leader".
PreemptsLessSevere ==
  [][ \A l \in Leader, f, g \in Fire :
        job[l] = f /\ job'[l] = g /\ state[g] = "UNKNOWN" => severity[f] < severity[g] ]_vars
=============================================================================
