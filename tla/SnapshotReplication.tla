------------------------ MODULE SnapshotReplication ------------------------
(***************************************************************************)
(* How the two commanders keep one picture of a fire.  The active one      *)
(* publishes its stores with the domain events of the last interval; each  *)
(* commander, its sender included, merges a snapshot record by record, the *)
(* later write winning, and replays the events through FireProjector.      *)
(* Nothing is locked: the snapshot loop, the MQTT thread, the monitor's    *)
(* thread and the replay at start go through their statements side by      *)
(* side, and a commander may crash between any two of them.                *)
(* What the rules decide is left open here (see FireCommander).            *)
(***************************************************************************)
EXTENDS Naturals, Sequences, SequencesExt

CONSTANTS Central, Backup,
          Leader,
          NoLeader,
          MaxClock,             \* bound on the writes of all stores
          MaxMission,           \* bound on the missions ever created
          MaxBusy,              \* bound on a commander's threads under way at once
          Together,             \* whether both commanders may be at work at once
          MaxEvent              \* bound on what is handled, crashes and losses

Commander == {Central, Backup}
Mission == 1 .. MaxMission
Thread == {"mqtt", "monitor", "main", "loop"}

\* The last write of a fire that Central fights at the start.
Fought == 4

ASSUME ReplicationAssumption ==
  /\ Central # Backup /\ NoLeader \notin Leader
  /\ MaxClock \in Nat /\ MaxClock >= Fought /\ MaxMission \in Nat \ {0}
  /\ MaxBusy \in Nat /\ Together \in BOOLEAN /\ MaxEvent \in Nat

VARIABLES clock,                \* time.time(): advances with every time taken
          fire,                 \* c's FireRecord (ver is updated_at)
          mission, index,       \* MissionStore._missions and _fire_index
          saved,                \* the table missions on c's disk
          events,               \* c's table domain_events, in order of id
          minted,               \* missions created so far, by anybody
          up, active,           \* running, _active
          work,                 \* work[c][t] : what thread t of c has still to do
          lastAt,               \* _last_snapshot_at
          inbox,                \* snapshots on their way to c
          happened              \* events so far, for the bound

storeVars == <<fire, mission, index, saved, events, minted>>
roleVars == <<up, active>>
netVars == <<lastAt, inbox>>
vars == <<clock, storeVars, roleVars, work, netVars, happened>>

FireState == {"UNKNOWN", "IGNITED", "ACTIVE", "CONTAINED", "SUPPRESSED"}
MissionState == {"NONE", "CREATED", "ASSIGNED", "RUNNING", "PAUSED", "COMPLETED"}
Time == 0 .. MaxClock

FIRE_TRANSITIONS ==
  { <<"IGNITED", "ACTIVE">>, <<"IGNITED", "SUPPRESSED">>,
    <<"ACTIVE", "CONTAINED">>, <<"ACTIVE", "SUPPRESSED">>,
    <<"CONTAINED", "SUPPRESSED">>, <<"CONTAINED", "ACTIVE">>,
    <<"SUPPRESSED", "ACTIVE">> }
MISSION_TRANSITIONS ==
  { <<"CREATED", "ASSIGNED">>, <<"ASSIGNED", "RUNNING">>, <<"ASSIGNED", "PAUSED">>,
    <<"RUNNING", "PAUSED">>, <<"RUNNING", "COMPLETED">>, <<"PAUSED", "ASSIGNED">> }
Open == {"CREATED", "ASSIGNED", "RUNNING", "PAUSED"}

NoFire == [state |-> "UNKNOWN", nodes |-> <<>>, ver |-> 0]
NoMission == [state |-> "NONE", ver |-> 0]
NoMissions == [m \in Mission |-> NoMission]

\* A fire that is fought, as Central has it.
Burning(l) ==
  [fire |-> [state |-> "ACTIVE", nodes |-> <<l>>, ver |-> 2],
   mission |-> [NoMissions EXCEPT ![1] = [state |-> "RUNNING", ver |-> Fought]],
   events |-> << [type |-> "DETECTED", node |-> NoLeader, at |-> 1],
                 [type |-> "DISPATCHED", node |-> l, at |-> 3] >>]

\* Central's x, Backup's y.
Each(x, y) == [c \in Commander |-> IF c = Central THEN x ELSE y]

\* Backup has just come up; Central too, or it has a fire already.
Init ==
  /\ happened = 0
  /\ \/ /\ clock = 0 /\ minted = 0
        /\ fire = Each(NoFire, NoFire) /\ mission = Each(NoMissions, NoMissions)
        /\ index = Each(0, 0) /\ events = Each(<<>>, <<>>)
     \/ /\ clock = Fought /\ minted = 1
        /\ \E l \in Leader :
             /\ fire = Each(Burning(l).fire, NoFire)
             /\ mission = Each(Burning(l).mission, NoMissions)
             /\ events = Each(Burning(l).events, <<>>)
        /\ index = Each(1, 0)
  /\ saved = mission
  /\ up = Each(TRUE, TRUE) /\ active = Each(TRUE, FALSE)
  /\ work = [c \in Commander |-> [t \in Thread |-> <<>>]]
  /\ lastAt = Each(0, 0) /\ inbox = Each(<<>>, <<>>)

-----------------------------------------------------------------------------
(* What a thread has still to do is a list of statements; one that comes   *)
(* to a decision puts in its place what it decided on.                     *)

Do(what, arg) == <<what, arg>>

At(c, t, what) == up[c] /\ work[c][t] # <<>> /\ Head(work[c][t])[1] = what
Arg(c, t) == Head(work[c][t])[2]

\* The first statement of a thread becomes these.
Goes(c, t, ops) == work' = [work EXCEPT ![c][t] = ops \o Tail(@)]
Done(c, t) == Goes(c, t, <<>>)

\* A statement that calls time.time().
Ticks == clock < MaxClock /\ clock' = clock + 1

\* What v becomes when every element of es has been worked off.
Through(step(_, _), v, es) ==
  LET after[i \in 0 .. Len(es)] == IF i = 0 THEN v ELSE step(after[i - 1], es[i])
  IN after[Len(es)]

\* Mutation: what is there is added again.
Add_Again(s, x) == Append(s, x)

\* An element that is there already is not added.
Add(s, x) == IF x \in ToSet(s) THEN s ELSE Append(s, x)

\* s, followed by the elements of es that are in X and that it lacks.
Joined(s, es, X) == Through(LAMBDA t, x : IF x \in X THEN Add(t, x) ELSE t, s, es)

-----------------------------------------------------------------------------
(* FireStateStore: a method copies the record with some fields changed,    *)
(* and then puts the copy in the place of whatever is there by now.        *)

\* Mutation: updated_at is not bumped.
Turned_Unstamped(f, to, now) ==
  IF <<f.state, to>> \in FIRE_TRANSITIONS THEN [f EXCEPT !.state = to] ELSE f

\* transition
Turned(f, to, now) ==
  IF <<f.state, to>> \in FIRE_TRANSITIONS THEN [f EXCEPT !.state = to, !.ver = now] ELSE f

\* ignite, transition, assign_node (append or clear), remove_assigned_node
Copied(f, op, now) ==
  CASE op[1] = "ignite" ->
         IF f.state = "UNKNOWN" THEN [state |-> "IGNITED", nodes |-> <<>>, ver |-> now] ELSE f
    [] op[1] = "turn" -> Turned(f, op[2], now)
    [] op[1] = "assign" ->
         [f EXCEPT !.nodes = IF op[2] = NoLeader THEN <<>> ELSE Add(@, op[2]), !.ver = now]
    [] op[1] = "unassign" ->
         IF op[2] \in ToSet(f.nodes)
         THEN [f EXCEPT !.nodes = Joined(<<>>, @, Leader \ {op[2]}), !.ver = now] ELSE f

\* What is left to do for a copy of the record.
Put(old, copy) == IF copy = old THEN <<>> ELSE << Do("store", copy) >>

WriteFire(c, t) ==
  /\ \E what \in {"ignite", "turn", "assign", "unassign"} : At(c, t, what)
  /\ LET copy == Copied(fire[c], Head(work[c][t]), clock + 1)
     IN Goes(c, t, Put(fire[c], copy)) /\ IF copy = fire[c] THEN UNCHANGED clock ELSE Ticks
  /\ UNCHANGED <<storeVars, roleVars, netVars, happened>>

\* Mutation: a fire that is known already is left as it is.
MergeFire_OnlyNew(own, f) == IF f.state = "UNKNOWN" \/ own.state # "UNKNOWN" THEN own ELSE f

\* apply_snapshot_record: last write wins, and the leaders of both are kept.
MergeFire(own, f) ==
  IF f.state = "UNKNOWN" \/ own.ver >= f.ver THEN own
  ELSE [f EXCEPT !.nodes = Joined(own.nodes, @, Leader)]

\* The record in memory and its row.
StoreFire(c, t) ==
  /\ At(c, t, "store") /\ Done(c, t)
  /\ fire' = [fire EXCEPT ![c] = Arg(c, t)]
  /\ UNCHANGED <<clock, mission, index, saved, events, minted, roleVars, netVars, happened>>

-----------------------------------------------------------------------------
(* MissionStore: a record is changed in place, field by field.             *)

HasOpen(c) == index[c] # 0 /\ mission[c][index[c]].state \in Open

\* create: an open mission that the index names is kept.
CreateMission(c, t) ==
  /\ At(c, t, "create") /\ Done(c, t)
  /\ LET m == minted + 1
         rec == [state |-> "CREATED", ver |-> clock + 1]
     IN IF HasOpen(c) THEN UNCHANGED <<clock, mission, index, saved, minted>>
        ELSE /\ minted < MaxMission /\ minted' = m /\ Ticks
             /\ mission' = [mission EXCEPT ![c][m] = rec]
             /\ saved' = [saved EXCEPT ![c][m] = rec]
             /\ index' = [index EXCEPT ![c] = m]
  /\ UNCHANGED <<fire, events, roleVars, netVars, happened>>

\* get_for_fire, and transition up to the state; a mission is PAUSED for a
\* REDISPATCHED event unless it is ASSIGNED again.
Moves(c, op) ==
  /\ index[c] # 0
  /\ \/ op[1] = "move" /\ <<mission[c][index[c]].state, op[2]>> \in MISSION_TRANSITIONS
     \/ op[1] = "pause" /\ mission[c][index[c]].state = "RUNNING" /\ op[2] = "PAUSED"

SetState(c, t) ==
  /\ At(c, t, "move") \/ At(c, t, "pause")
  /\ IF Moves(c, Head(work[c][t]))
     THEN /\ mission' = [mission EXCEPT ![c][index[c]].state = Arg(c, t)]
          /\ Goes(c, t, << Do("stamp", index[c]) >>)
     ELSE Done(c, t) /\ UNCHANGED mission
  /\ UNCHANGED <<clock, fire, index, saved, events, minted, roleVars, netVars, happened>>

\* The rest of it: the version, and the row.
Stamp(c, t) ==
  /\ At(c, t, "stamp") /\ Done(c, t) /\ Ticks
  /\ mission' = [mission EXCEPT ![c][Arg(c, t)].ver = clock + 1]
  /\ saved' = [saved EXCEPT ![c][Arg(c, t)] = mission'[c][Arg(c, t)]]
  /\ UNCHANGED <<fire, index, events, minted, roleVars, netVars, happened>>

\* The missions of a snapshot that are newer than the commander's own.
Newer(own, ms) == { m \in Mission : ms[m].state # "NONE" /\ own[m].ver < ms[m].ver }

\* A thread is inside transition with the record of m.
InHand(c, m) == \E t \in Thread : At(c, t, "stamp") /\ Arg(c, t) = m

\* Mutation: the index is not repaired.
Repaired_Not(i, m) == i

\* What the index names once m was merged.
Repaired(i, m) == m

\* apply_snapshot_record for every mission: in memory only, and the index names
\* the one that is merged last.
MergeMissions(c, t) ==
  /\ At(c, t, "missions") /\ Done(c, t)
  /\ LET newer == Newer(mission[c], Arg(c, t))
     IN /\ \A m \in newer : ~InHand(c, m)
        /\ mission' = [mission EXCEPT ![c] =
                         [m \in Mission |-> IF m \in newer THEN Arg(c, t)[m] ELSE @[m]]]
        /\ \/ newer = {} /\ UNCHANGED index
           \/ \E last \in newer : index' = [index EXCEPT ![c] = Repaired(@, last)]
  /\ UNCHANGED <<clock, fire, saved, events, minted, roleVars, netVars, happened>>

-----------------------------------------------------------------------------
(* The event log                                                           *)

Log(type, l) == Do("log", [type |-> type, node |-> l])

LogEvent(c, t) ==
  /\ At(c, t, "log") /\ Done(c, t) /\ Ticks
  /\ events' = [events EXCEPT ![c] = Add(@, [type |-> Arg(c, t).type, node |-> Arg(c, t).node,
                                             at |-> clock + 1])]
  /\ UNCHANGED <<fire, mission, index, saved, minted, roleVars, netVars, happened>>

\* DomainEventLog.append: an event that is there already is ignored.
AppendEvent(c, t) ==
  /\ At(c, t, "append") /\ Done(c, t)
  /\ events' = [events EXCEPT ![c] = Add(@, Arg(c, t))]
  /\ UNCHANGED <<clock, fire, mission, index, saved, minted, roleVars, netVars, happened>>

-----------------------------------------------------------------------------
(* Decisions: what a statement that only looks at the stores leads to.     *)

Dispatch(l) == << Do("assign", l), Log("DISPATCHED", l) >>
Relapse == << Do("turn", "ACTIVE"), Do("assign", NoLeader) >>

\* RuleEngine.evaluate: FireDispatchRule for a fire nobody is sent to,
\* LeaderLostRule when all its leaders are lost, ContainmentFailureRule.
Decisions(f) ==
  {<<>>}
  \cup { Dispatch(l) : l \in { n \in Leader \ ToSet(f.nodes) : f.state = "ACTIVE" \/ f.nodes # <<>> } }
  \cup IF f.state = "CONTAINED" THEN {Relapse} ELSE {}

\* FireProjector.apply, with the F8 guard.
Stale(f, e) == f.state # "UNKNOWN" /\ e.at <= f.ver
Projects(f, e) ==
  IF Stale(f, e) THEN <<>>
  ELSE CASE e.type = "DETECTED" ->
              IF f.state = "UNKNOWN" THEN << Do("ignite", NoLeader), Do("turn", "ACTIVE") >> ELSE <<>>
         [] e.type = "CONTAINED" ->
              IF f.state \in {"CONTAINED", "SUPPRESSED"} THEN <<>> ELSE << Do("turn", "CONTAINED") >>
         [] e.type = "SUPPRESSED" -> << Do("turn", "SUPPRESSED") >>
         [] e.type = "DISPATCHED" ->
              (IF f.state = "UNKNOWN" \/ e.node \in ToSet(f.nodes) THEN <<>>
               ELSE << Do("assign", e.node) >>) \o << Do("move", "ASSIGNED") >>
         [] e.type = "REDISPATCHED" ->
              (IF f.state = "UNKNOWN" THEN <<>> ELSE << Do("unassign", e.node) >>)
                \o << Do("pause", "PAUSED") >>

Leads(c, op) ==
  CASE op[1] = "reassigned" -> {IF fire[c].nodes # <<>> THEN << Do("move", "ASSIGNED") >> ELSE <<>>}
    [] op[1] = "rules" -> Decisions(fire[c])
    [] op[1] = "again" ->
         IF fire[c].state = "ACTIVE" /\ fire[c].nodes = <<>> THEN Decisions(fire[c]) ELSE {<<>>}
    [] op[1] = "redispatch" ->
         {IF fire[c].state \in {"UNKNOWN", "SUPPRESSED"} THEN <<>>
          ELSE << Log("REDISPATCHED", op[2]), Do("assign", NoLeader), Do("rules", NoLeader),
                  Do("again", NoLeader), Do("reassigned", NoLeader) >>}
    [] op[1] = "project" -> {Projects(fire[c], op[2])}

Decide(c, t) ==
  /\ \E what \in {"reassigned", "rules", "again", "redispatch", "project"} :
       At(c, t, what)
  /\ \E ops \in Leads(c, Head(work[c][t])) : Goes(c, t, ops)
  /\ UNCHANGED <<clock, storeVars, roleVars, netVars, happened>>

-----------------------------------------------------------------------------
(* Handlers                                                                *)

Idle(c, t) == up[c] /\ work[c][t] = <<>>
Busy(c) == { t \in Thread : work[c][t] # <<>> }

\* A thread may begin, within the bounds.
Alone(c) == Together \/ \A d \in Commander \ {c} : Busy(d) = {}
Begins(c, t, ops) ==
  /\ Idle(c, t) /\ Cardinality(Busy(c)) < MaxBusy /\ Alone(c)
  /\ work' = [work EXCEPT ![c][t] = ops]

Happens == happened < MaxEvent /\ happened' = happened + 1
Apart == Together \/ \E c \in Commander : ~active[c]

Handle(c, t, ops) ==
  /\ Apart /\ Happens /\ Begins(c, t, ops)
  /\ UNCHANGED <<clock, storeVars, roleVars, netVars>>

Rules == Do("rules", NoLeader)

\* _handle_fire_event.  The mission is ASSIGNED if yet another leader is free.
FireDetected(c) ==
  /\ active[c] /\ (minted < MaxMission \/ HasOpen(c))
  /\ \E free \in {<<>>, << Do("move", "ASSIGNED") >>} :
       Handle(c, "mqtt",
              << Do("ignite", NoLeader), Do("turn", "ACTIVE"), Do("create", NoLeader),
                 Log("DETECTED", NoLeader), Rules >> \o free)

FireContained(c) ==
  /\ active[c] /\ fire[c].state # "UNKNOWN"
  /\ Handle(c, "mqtt", << Do("turn", "CONTAINED"), Log("CONTAINED", NoLeader), Rules >>)

FireSuppressed(c) ==
  /\ active[c] /\ fire[c].state # "UNKNOWN"
  /\ Handle(c, "mqtt", << Do("turn", "SUPPRESSED"), Log("SUPPRESSED", NoLeader), Rules,
                          Do("move", "COMPLETED") >>)

\* _handle_fire_rekindled: no such event type, so nothing more is done.
FireRekindled(c) ==
  /\ active[c] /\ fire[c].state = "SUPPRESSED"
  /\ Handle(c, "mqtt", << Do("turn", "ACTIVE") >>)

\* _handle_ack
AckReceived(c) ==
  /\ active[c] /\ index[c] # 0 /\ mission[c][index[c]].state = "ASSIGNED"
  /\ Handle(c, "mqtt", << Do("move", "RUNNING") >>)

\* _on_node_failed and redispatch_fire, in the thread of the heartbeat monitor
LeaderFailed(c, l) ==
  /\ active[c] /\ l \in ToSet(fire[c].nodes)
  /\ Handle(c, "monitor", << Do("move", "PAUSED"), Do("redispatch", l) >>)

\* _on_node_became_available, active or not
LeaderAvailable(c, l) ==
  /\ fire[c].state = "ACTIVE" /\ fire[c].nodes = <<>>
  /\ Handle(c, "mqtt", Dispatch(l))

-----------------------------------------------------------------------------
(* Snapshots                                                               *)

Blank == [fire |-> NoFire, missions |-> NoMissions, events |-> <<>>]

\* DomainEventRepository.get_since: in the order of the log
Since(c) == Joined(<<>>, events[c], { e \in ToSet(events[c]) : e.at > lastAt[c] })

SnapshotLoop(c) ==
  /\ active[c] /\ Apart /\ Idle(c, "main")
  /\ \A d \in Commander : inbox[d] = <<>>
  /\ Begins(c, "loop", << Do("fires", Blank) >>)
  /\ UNCHANGED <<clock, storeVars, roleVars, netVars, happened>>

\* It reads the fires, of each open mission first the state and then the
\* version, and the events.
Reads(c, op) ==
  LET open == { m \in Mission : mission[c][m].state \in Open }
      seen == { m \in Mission : op[2].missions[m].state # "NONE" }
  IN CASE op[1] = "fires" -> Do("states", [op[2] EXCEPT !.fire = fire[c]])
       [] op[1] = "states" ->
            Do("versions", [op[2] EXCEPT !.missions = [m \in Mission |->
                              IF m \in open THEN mission[c][m] ELSE NoMission]])
       [] op[1] = "versions" ->
            Do("events", [op[2] EXCEPT !.missions = [m \in Mission |->
                            IF m \in seen THEN [@[m] EXCEPT !.ver = mission[c][m].ver] ELSE NoMission]])
       [] op[1] = "events" -> Do("publish", [op[2] EXCEPT !.events = Since(c)])

Read(c, t) ==
  /\ \E what \in {"fires", "states", "versions", "events"} : At(c, t, what)
  /\ Goes(c, t, << Reads(c, Head(work[c][t])) >>)
  /\ UNCHANGED <<clock, storeVars, roleVars, netVars, happened>>

\* The clock is read last.  QoS 0, and one on its way to each commander: the
\* others are lost.
Publish(c, t) ==
  /\ At(c, t, "publish") /\ Done(c, t)
  /\ \E lost \in SUBSET Commander :
       /\ inbox' = [d \in Commander |->
                      IF up[d] /\ inbox[d] = <<>> /\ d \notin lost THEN <<Arg(c, t)>> ELSE inbox[d]]
       /\ IF lost = {} THEN UNCHANGED happened ELSE Happens
  /\ lastAt' = [lastAt EXCEPT ![c] = clock]
  /\ UNCHANGED <<clock, storeVars, roleVars>>

\* _apply_snapshot: an event is replayed whether or not it was there before.
ApplySnapshot(c) ==
  /\ inbox[c] # <<>>
  /\ LET snap == Head(inbox[c])
     IN Begins(c, "mqtt",
               Put(fire[c], MergeFire(fire[c], snap.fire)) \o << Do("missions", snap.missions) >>
                 \o [i \in 1 .. 2 * Len(snap.events) |->
                       IF i % 2 = 1 THEN Do("append", snap.events[(i + 1) \div 2])
                       ELSE Do("project", snap.events[i \div 2])])
  /\ inbox' = [inbox EXCEPT ![c] = Tail(@)]
  /\ UNCHANGED <<clock, storeVars, roleVars, lastAt, happened>>

-----------------------------------------------------------------------------
(* Roles and crashes                                                       *)

Crash(c) ==
  /\ up[c] /\ Happens
  /\ up' = [up EXCEPT ![c] = FALSE]
  /\ active' = [active EXCEPT ![c] = FALSE]
  /\ work' = [work EXCEPT ![c] = [t \in Thread |-> <<>>]]
  /\ inbox' = [inbox EXCEPT ![c] = <<>>]
  /\ lastAt' = [lastAt EXCEPT ![c] = 0]
  /\ UNCHANGED <<clock, storeVars>>

\* The events of a log in the order of their time.
NoEvent == [type |-> "NONE", node |-> NoLeader, at |-> 0]
EventAt(es, t) ==
  IF \E e \in ToSet(es) : e.at = t THEN CHOOSE e \in ToSet(es) : e.at = t ELSE NoEvent
ByTime(es) == Joined(<<>>, [t \in 1 .. MaxClock |-> EventAt(es, t)], ToSet(es))

\* A fire's row keeps the first of its leaders.
Row(f) == [f EXCEPT !.nodes = IF f.nodes = <<>> THEN <<>> ELSE <<Head(f.nodes)>>]

\* CommanderCore.start: the fire comes back from its row, a mission only if it
\* was written here, and the log is replayed by time.
Restart(c) ==
  /\ ~up[c] /\ Alone(c) /\ up' = [up EXCEPT ![c] = TRUE]
  /\ active' = [active EXCEPT ![c] = c = Central]
  /\ fire' = [fire EXCEPT ![c] = Row(fire[c])]
  /\ mission' = [mission EXCEPT ![c] = saved[c]]
  /\ LET rows == { m \in Mission : saved[c][m].state # "NONE" }
     IN \E last \in IF rows = {} THEN {0} ELSE rows : index' = [index EXCEPT ![c] = last]
  /\ work' = [work EXCEPT ![c]["main"] =
                [i \in 1 .. Len(ByTime(events[c])) |-> Do("project", ByTime(events[c])[i])]]
  /\ UNCHANGED <<clock, saved, events, minted, netVars, happened>>

\* activate(); when, is for the lease (CommanderFailover).
Promote ==
  /\ up[Backup] /\ ~active[Backup] /\ ~up[Central]
  /\ active' = [active EXCEPT ![Backup] = TRUE]
  /\ UNCHANGED <<clock, storeVars, up, work, netVars, happened>>

\* deactivate(), when Central's lease is seen: a last snapshot.  (The copies of
\* the grace period after it are left out.)
StandDown ==
  /\ active[Backup] /\ up[Central]
  /\ Begins(Backup, "mqtt", << Do("fires", Blank), Do("deactivate", NoLeader) >>)
  /\ UNCHANGED <<clock, storeVars, roleVars, netVars, happened>>

Deactivate(c, t) ==
  /\ At(c, t, "deactivate") /\ Done(c, t)
  /\ active' = [active EXCEPT ![c] = FALSE]
  /\ UNCHANGED <<clock, storeVars, up, netVars, happened>>

ThreadStep(c, t) ==
  \/ WriteFire(c, t) \/ StoreFire(c, t)
  \/ CreateMission(c, t) \/ SetState(c, t) \/ Stamp(c, t) \/ MergeMissions(c, t)
  \/ LogEvent(c, t) \/ AppendEvent(c, t)
  \/ Decide(c, t) \/ Read(c, t) \/ Publish(c, t) \/ Deactivate(c, t)

Next ==
  \/ \E c \in Commander :
       \/ FireDetected(c) \/ FireContained(c) \/ FireSuppressed(c) \/ FireRekindled(c)
       \/ AckReceived(c)
       \/ \E l \in Leader : LeaderFailed(c, l) \/ LeaderAvailable(c, l)
       \/ SnapshotLoop(c) \/ ApplySnapshot(c)
       \/ Crash(c) \/ Restart(c)
       \/ \E t \in Thread : ThreadStep(c, t)
  \/ Promote \/ StandDown

Spec == Init /\ [][Next]_vars

\* Threads run: what they have begun comes to an end, what has arrived is handled
\* (both are stated by what they bring about), and the snapshot loop goes round.
FairSpec ==
  /\ Spec
  /\ \A c \in Commander :
       /\ \A t \in Thread : []<>(work[c][t] = <<>>)
       /\ []<>(inbox[c] = <<>>)
       /\ WF_vars(SnapshotLoop(c))

-----------------------------------------------------------------------------
(* Properties                                                              *)

TypeOK ==
  /\ clock \in Time /\ minted \in 0 .. MaxMission /\ happened \in 0 .. MaxEvent
  /\ \A c \in Commander :
       /\ fire[c].state \in FireState /\ fire[c].ver \in Time
       /\ fire[c].nodes \in Seq(Leader) /\ IsInjective(fire[c].nodes)
       /\ mission[c] \in [Mission -> [state : MissionState, ver : Time]]
       /\ saved[c] \in [Mission -> [state : MissionState, ver : Time]]
       /\ index[c] \in 0 .. MaxMission
       /\ index[c] # 0 => mission[c][index[c]].state # "NONE"
       /\ lastAt[c] \in Time
       /\ IsInjective(events[c])
       /\ \A d \in Commander : \A e \in ToSet(events[c]), o \in ToSet(events[d]) :
            e.at = o.at => e = o
  /\ up \in [Commander -> BOOLEAN] /\ active \in [Commander -> BOOLEAN]

Snapshots == { inbox[c][1] : c \in { d \in Commander : inbox[d] # <<>> } }

\* The versions that last-write-wins compares tell the truth: two copies of a fire,
\* in either commander's store or on their way, that carry the same updated_at are
\* in the same state, whichever threads wrote and read them and wherever one of
\* the commanders crashed.
SameVersionSameFire ==
  LET fires == { fire[c] : c \in Commander } \cup { s.fire : s \in Snapshots }
  IN \A f, g \in fires : f.ver = g.ver => f.state = g.state

\* A commander that holds one mission of the fire, open and its own or merged
\* from the other, opens no second one ("a promoted backup ... could create a
\* SECOND mission").
NoSecondMission ==
  [][ \A c \in Commander, m \in Mission :
        /\ mission[c][m].state \in Open
        /\ \A n \in Mission \ {m} : mission[c][n].state = "NONE"
        => minted' = minted \/ mission'[c] = mission[c] ]_vars

\* A standby that stays one ends up with no older a record of the fire, and of each
\* open mission, than the active commander, whichever snapshot was lost and
\* wherever a write fell between the reads of the snapshot loop ("periodic and
\* self-healing").
NeverBehind ==
  <>[](active[Central] /\ ~active[Backup] /\ up[Backup]) =>
    <>[](/\ fire[Backup].ver >= fire[Central].ver
         /\ \A m \in Mission : mission[Central][m].state \in Open =>
              mission[Backup][m].ver >= mission[Central][m].ver)

\* The same of the missions, once no transition is under way: a snapshot loop that
\* has read the state before it and reads the version after it shows the old state
\* with the new version.
SameVersionSameMission ==
  LET known == { mission[c] : c \in { d \in Commander : up[d] } }
                 \cup { s.missions : s \in Snapshots }
  IN (\A c \in Commander, t \in Thread : ~At(c, t, "stamp")) =>
       \A r, s \in known : \A m \in Mission : r[m].ver = s[m].ver => r[m].state = s[m].state

\* The replay at start, "idempotent", leaves the state of the fire alone.
ReplayKeepsState ==
  [][ \A c \in Commander : StoreFire(c, "main") => fire'[c].state = fire[c].state ]_vars

\* The standby "does not run rules": its log grows by what it merges.
StandbyDecidesNothing ==
  [][ \A c \in Commander : ~active[c] /\ events'[c] # events[c] => AppendEvent(c, "mqtt") ]_vars

\* All is quiet, and the standby has the record of the active commander.
Mirrored ==
  /\ active[Central] /\ up[Backup] /\ ~active[Backup] /\ fire[Backup].ver >= fire[Central].ver
  /\ \A c \in Commander : Busy(c) = {} /\ inbox[c] = <<>>

\* "The backup replays these ... to stay in sync even if a fire decision
\* happened between two snapshot intervals."
MirrorInSync == Mirrored => fire[Backup].state = fire[Central].state

\* "Clearing assigned_node goes through FireStateStore.assign_node() to bump
\* updated_at, so the backup's LWW merge accepts the change."
ClearReachesMirror == Mirrored /\ fire[Central].nodes = <<>> => fire[Backup].nodes = <<>>
=============================================================================
