---------------------------- MODULE NodeRegistry ----------------------------
(***************************************************************************)
(* The commander's record of the swarm leaders: NodeRegistry               *)
(* (registry.py) and its table, the HeartbeatMonitor (monitor.py), the     *)
(* announcements (registry_bridge.py, base_node.py) and the bookings that  *)
(* the rules make and undo.  Three threads work on the records without a   *)
(* lock: the paho thread, the monitor and the timeout sweep.  Each of them *)
(* reads a record, and later stores a copy of it with one field changed:   *)
(* two steps here.  The record is saved as it is in memory with the second *)
(* step (a crash in between loses the step), but mark_offline saves its    *)
(* own copy later, in a third.                                             *)
(***************************************************************************)
EXTENDS Integers, Sequences, FiniteSets, SequencesExt

CONSTANTS Node,                 \* swarm leaders
          Fire,
          NoFire,               \* current_job of an idle node
          Nobody,               \* no node
          Unlit, Out,           \* in the place of a leader: the fire is not reported yet, is suppressed
          Unknown,              \* the record of a node that never registered
          MaxInbox,             \* bound on messages under way to the commander
          MaxFault              \* bound on hangs, losses of connection, delays, restarts, sweeps

Record == [status : {"REGISTERED", "ACTIVE", "OFFLINE"}, job : Fire \cup {NoFire}]

ASSUME RegistryAssumption ==
  /\ IsFiniteSet(Node) /\ Unknown \notin Record
  /\ NoFire \notin Fire
  /\ {Nobody, Unlit, Out} \cap Node = {} /\ Nobody # Unlit /\ Nobody # Out /\ Unlit # Out
  /\ MaxInbox \in Nat /\ MaxFault \in Nat

Thread == {"paho", "monitor", "sweep"}

VARIABLES nodes,                \* NodeRegistry._nodes
          row,                  \* the table nodes
          lastSeen,             \* HeartbeatMonitor._last_seen: absent, fresh, or late (over the timeout)
          dead,                 \* HeartbeatMonitor._dead_nodes
          work,                 \* what each thread is doing
          beat, wasDead,        \* update's node and its was_dead
          lead,                 \* assigned_nodes of each fire, its first node
          up,                   \* nodes whose heartbeats go out
          inbox,                \* messages to the paho thread, in order
          announced,            \* the announcement the broker retains of each node
          reports,              \* NODE_FAILED callbacks less NODE_RECOVERED callbacks
          zombie,               \* nodes stored ACTIVE after their death, by a thread that
                                \* did not see it: a copy of the record from before it, or a
                                \* heartbeat that looked at _dead_nodes before it
          orphaned,             \* nodes whose OFFLINE announcement nobody takes back
          faults

registry == <<nodes, row>>
watch == <<lastSeen, dead>>
ghosts == <<reports, zombie, orphaned>>
vars == <<registry, watch, work, beat, wasDead, lead, up, inbox, announced, ghosts, faults>>

Stage == {"idle", "seen", "beat", "beatStore", "available", "after", "register",
          "off", "offStore", "offSave", "decided", "failed",
          "release", "releaseStore", "choose", "book", "bookStore", "booked"}
Activity == [at : Stage, node : Node \cup {Nobody}, copy : Record \cup {Unknown}, fire : Fire \cup {NoFire}]
Message == [kind : {"heartbeat", "ONLINE", "OFFLINE"}, node : Node]

TypeOK ==
  /\ nodes \in [Node -> Record \cup {Unknown}] /\ row \in [Node -> Record \cup {Unknown}]
  /\ lastSeen \in [Node -> {"absent", "fresh", "late"}] /\ dead \subseteq Node
  /\ work \in [Thread -> Activity]
  /\ beat \in Node \cup {Nobody} /\ wasDead \in BOOLEAN
  /\ lead \in [Fire -> Node \cup {Nobody, Unlit, Out}]
  /\ up \subseteq Node
  /\ inbox \in Seq(Message)
  /\ announced \in [Node -> {"none", "ONLINE", "OFFLINE"}]
  /\ reports \in [Node -> Int] /\ zombie \subseteq Node /\ orphaned \subseteq Node
  /\ faults \in 0 .. MaxFault

Idle == [at |-> "idle", node |-> Nobody, copy |-> Unknown, fire |-> NoFire]

Init ==
  /\ nodes = [n \in Node |-> Unknown] /\ row = [n \in Node |-> Unknown]
  /\ lastSeen = [n \in Node |-> "absent"] /\ dead = {}
  /\ work = [t \in Thread |-> Idle] /\ beat = Nobody /\ wasDead = FALSE
  /\ lead = [f \in Fire |-> Unlit]
  /\ up = {} /\ inbox = <<>> /\ announced = [n \in Node |-> "none"]
  /\ reports = [n \in Node |-> 0] /\ zombie = {} /\ orphaned = {}
  /\ faults = 0

-----------------------------------------------------------------------------
(* Threads and records. *)

At(t, stage) == work[t].at = stage
Do(t, stage, n, copy, f) ==
  work' = [work EXCEPT ![t] = [at |-> stage, node |-> n, copy |-> copy, fire |-> f]]
Goto(t, stage) == Do(t, stage, work[t].node, work[t].copy, work[t].fire)
Drop(t, stage) == Do(t, stage, work[t].node, Unknown, work[t].fire)
Return(t) == Do(t, "idle", Nobody, Unknown, NoFire)
Known(n) == nodes[n] # Unknown

\* A record is read, to be stored later with one field changed.
Read(t, stage) ==
  /\ Do(t, stage, work[t].node, nodes[work[t].node], work[t].fire)
  /\ UNCHANGED <<registry, watch, beat, wasDead, lead, up, inbox, announced, ghosts, faults>>

\* A node that was declared dead since its record was read is ACTIVE again.
Revived(n, record) == IF n \in dead /\ record.status = "ACTIVE" THEN zombie \cup {n} ELSE zombie

\* Only a heartbeat that saw the node dead, and so reports its recovery, may
\* make it ACTIVE again.
Store(t, record, recovery) ==
  LET n == work[t].node IN
  /\ nodes' = [nodes EXCEPT ![n] = record]
  /\ zombie' = IF recovery THEN zombie ELSE Revived(n, record)
  /\ UNCHANGED <<watch, beat, wasDead, lead, up, inbox, announced, reports, orphaned, faults>>

\* upsert(self._nodes[node_id])
Save(t) == row' = [row EXCEPT ![work[t].node] = nodes'[work[t].node]]

-----------------------------------------------------------------------------
(* HeartbeatMonitor.update and NodeRegistry.heartbeat, in the paho thread. *)

NextIs(kind, n) == inbox # <<>> /\ Head(inbox) = [kind |-> kind, node |-> n]

Hear(n) ==
  /\ At("paho", "idle") /\ NextIs("heartbeat", n)
  /\ inbox' = Tail(inbox)
  /\ Do("paho", "seen", n, Unknown, NoFire)
  /\ beat' = n /\ wasDead' = (n \in dead)
  /\ zombie' = zombie \ {n}
  /\ UNCHANGED <<registry, watch, lead, up, announced, reports, orphaned, faults>>

Seen ==
  /\ At("paho", "seen")
  /\ lastSeen' = [lastSeen EXCEPT ![beat] = "fresh"]
  /\ Goto("paho", IF Known(beat) THEN "beat" ELSE "after")
  /\ UNCHANGED <<registry, dead, beat, wasDead, lead, up, inbox, announced, ghosts, faults>>

BeatRead == At("paho", "beat") /\ Read("paho", "beatStore")

\* Mutation: the word of the announcements is stored as the status.
Beaten_Online(record) == [record EXCEPT !.status = "ONLINE"]

Beaten(record) == [record EXCEPT !.status = "ACTIVE"]

\* The callback comes last, and only if the node was not ACTIVE before.
BeatStore ==
  LET copy == work["paho"].copy IN
  /\ At("paho", "beatStore")
  /\ Store("paho", Beaten(copy), wasDead) /\ Save("paho")
  /\ Drop("paho", IF copy.status = "ACTIVE" THEN "after" ELSE "available")

\* CommanderCore._on_node_became_available: each fire without a leader in turn.
Available ==
  /\ At("paho", "available")
  /\ IF \E f \in Fire : lead[f] = Nobody
       THEN \E f \in Fire : /\ lead[f] = Nobody
                            /\ Do("paho", "choose", beat, Unknown, f)
       ELSE Goto("paho", "after")
  /\ UNCHANGED <<registry, watch, beat, wasDead, lead, up, inbox, announced, ghosts, faults>>

\* _announce_node_status: a retained message that comes back to its sender too.
Publish(n, status) ==
  /\ announced' = [announced EXCEPT ![n] = status]
  /\ inbox' = Append(inbox, [kind |-> status, node |-> n])

\* Mutation: every heartbeat counts as a recovery.
RecoveredNow_Always == TRUE

\* Mutation: a recovery is only reported for a node that is stored as OFFLINE.
RecoveredNow_StillOffline == wasDead /\ nodes[beat] # Unknown /\ nodes[beat].status = "OFFLINE"

RecoveredNow == wasDead

\* The rest of update: NODE_RECOVERED, which CentralNode announces.
After ==
  /\ At("paho", "after")
  /\ IF RecoveredNow
       THEN /\ dead' = dead \ {beat}
            /\ reports' = [reports EXCEPT ![beat] = @ - 1]
            /\ IF Known(beat) THEN Publish(beat, "ONLINE") ELSE UNCHANGED <<announced, inbox>>
       ELSE UNCHANGED <<dead, reports, announced, inbox>>
  /\ Return("paho") /\ beat' = Nobody /\ wasDead' = FALSE
  /\ UNCHANGED <<registry, lastSeen, lead, up, zombie, orphaned, faults>>

-----------------------------------------------------------------------------
(* RegistryBridge, in the paho thread. *)

\* register: a new record, or a copy of the known one, without the job if it
\* was OFFLINE.
Registered(record) ==
  IF record = Unknown THEN [status |-> "REGISTERED", job |-> NoFire]
  ELSE IF record.status = "OFFLINE" THEN [record EXCEPT !.job = NoFire] ELSE record

HearOnline(n) ==
  /\ At("paho", "idle") /\ NextIs("ONLINE", n)
  /\ inbox' = Tail(inbox)
  /\ Do("paho", "register", n, nodes[n], NoFire)
  /\ UNCHANGED <<registry, watch, beat, wasDead, lead, up, announced, ghosts, faults>>

Register ==
  /\ At("paho", "register")
  /\ Store("paho", Registered(work["paho"].copy), FALSE) /\ Save("paho")
  /\ Return("paho")

HearOffline(n) ==
  /\ At("paho", "idle") /\ NextIs("OFFLINE", n)
  /\ inbox' = Tail(inbox)
  /\ IF Known(n) THEN Do("paho", "off", n, Unknown, NoFire) ELSE UNCHANGED work
  /\ UNCHANGED <<registry, watch, beat, wasDead, lead, up, announced, ghosts, faults>>

-----------------------------------------------------------------------------
(* mark_offline, called by the paho thread and by the monitor. *)

OffRead(t) == At(t, "off") /\ Known(work[t].node) /\ Read(t, "offStore")

OffStore(t) ==
  /\ At(t, "offStore")
  /\ Store(t, [work[t].copy EXCEPT !.status = "OFFLINE"], FALSE) /\ UNCHANGED row
  /\ Goto(t, "offSave")

\* It saves its own copy, not the record as it is by then.
OffSave(t) ==
  /\ At(t, "offSave")
  /\ row' = [row EXCEPT ![work[t].node] = [work[t].copy EXCEPT !.status = "OFFLINE"]]
  /\ IF t = "monitor" THEN Drop(t, "failed") ELSE Return(t)
  /\ UNCHANGED <<nodes, watch, beat, wasDead, lead, up, inbox, announced, ghosts, faults>>

-----------------------------------------------------------------------------
(* HeartbeatMonitor.tick and _declare_dead, in the monitor's thread. *)

\* Mutation: only nodes with a job are looked at.
Stale_Booked(n) == lastSeen[n] = "late" /\ Known(n) /\ nodes[n].job # NoFire

Stale(n) == lastSeen[n] = "late"

\* tick compares the stamps of a list it made: it acts on what it saw.
Overdue(n) ==
  /\ At("monitor", "idle") /\ Stale(n)
  /\ Do("monitor", "decided", n, Unknown, NoFire)
  /\ UNCHANGED <<registry, watch, beat, wasDead, lead, up, inbox, announced, ghosts, faults>>

Undeclared(n) == n \notin dead

Declare ==
  LET n == work["monitor"].node IN
  /\ At("monitor", "decided")
  /\ IF Undeclared(n)
       THEN /\ dead' = dead \cup {n}
            /\ lastSeen' = [lastSeen EXCEPT ![n] = "absent"]
            /\ Goto("monitor", IF Known(n) THEN "off" ELSE "failed")
       ELSE Return("monitor") /\ UNCHANGED watch
  /\ UNCHANGED <<registry, beat, wasDead, lead, up, inbox, announced, ghosts, faults>>

\* CentralNode._on_node_failed: announce, and free the leader of a fire.  A
\* heartbeat that recovered the node since Declare has announced it already.
Failed ==
  LET n == work["monitor"].node IN
  /\ At("monitor", "failed")
  /\ reports' = [reports EXCEPT ![n] = @ + 1]
  /\ IF Known(n) THEN Publish(n, "OFFLINE") ELSE UNCHANGED <<announced, inbox>>
  /\ IF Known(n) /\ nodes[n].job # NoFire
       THEN Do("monitor", "release", n, Unknown, nodes[n].job)
       ELSE Return("monitor")
  /\ orphaned' = IF n \in dead THEN orphaned ELSE orphaned \cup {n}
  /\ UNCHANGED <<registry, watch, beat, wasDead, lead, up, zombie, faults>>

-----------------------------------------------------------------------------
(* release_job, assign_job and what the rules do between them. *)

ReleaseRead(t) == At(t, "release") /\ Read(t, "releaseStore")

\* ... and redispatch_fire takes the node from the fire, unless the fire is out.
ReleaseStore(t) ==
  LET f == work[t].fire  n == work[t].node IN
  /\ At(t, "releaseStore")
  /\ nodes' = [nodes EXCEPT ![n] = [work[t].copy EXCEPT !.job = NoFire]] /\ Save(t)
  /\ zombie' = Revived(n, work[t].copy)
  /\ lead' = IF lead[f] = n THEN [lead EXCEPT ![f] = Nobody] ELSE lead
  /\ IF lead[f] = Out THEN Return(t) ELSE Drop(t, "choose")
  /\ UNCHANGED <<watch, beat, wasDead, up, inbox, announced, reports, orphaned, faults>>

Free(n) == Known(n) /\ nodes[n].status = "ACTIVE" /\ nodes[n].job = NoFire

\* FireDispatchRule: the paho thread goes on with update if it came from there.
Done(t) == IF t = "paho" /\ beat # Nobody THEN Goto(t, "after") ELSE Return(t)

Choose(t) ==
  LET f == work[t].fire IN
  /\ At(t, "choose")
  /\ IF lead[f] = Nobody /\ \E n \in Node : Free(n)
       THEN \E n \in Node : /\ Free(n)
                            /\ Do(t, "book", n, Unknown, f)
       ELSE Done(t)
  /\ UNCHANGED <<registry, watch, beat, wasDead, lead, up, inbox, announced, ghosts, faults>>

BookRead(t) == At(t, "book") /\ Read(t, "bookStore")

BookStore(t) ==
  /\ At(t, "bookStore")
  /\ Store(t, [work[t].copy EXCEPT !.job = work[t].fire], FALSE) /\ Save(t)
  /\ Drop(t, "booked")

\* add_assigned_node, in another store.
Booked(t) ==
  LET f == work[t].fire IN
  /\ At(t, "booked")
  /\ lead' = IF lead[f] = Nobody THEN [lead EXCEPT ![f] = work[t].node] ELSE lead
  /\ Done(t)
  /\ UNCHANGED <<registry, watch, beat, wasDead, up, inbox, announced, ghosts, faults>>

-----------------------------------------------------------------------------
(* What the threads are asked to do. *)

Begin(t, stage, n, f) ==
  /\ At(t, "idle") /\ Do(t, stage, n, Unknown, f)

FireDetected(f) ==
  /\ lead[f] = Unlit
  /\ lead' = [lead EXCEPT ![f] = Nobody]
  /\ Begin("paho", "choose", Nobody, f)
  /\ UNCHANGED <<registry, watch, beat, wasDead, up, inbox, announced, ghosts, faults>>

FireSuppressed(f) ==
  /\ lead[f] \in Node
  /\ lead' = [lead EXCEPT ![f] = Out]
  /\ Begin("paho", "release", lead[f], f)
  /\ UNCHANGED <<registry, watch, beat, wasDead, up, inbox, announced, ghosts, faults>>

Fault == faults < MaxFault /\ faults' = faults + 1

\* _check_command_timeouts: the command to the fire's leader was not answered.
SweepTimeout(f) ==
  /\ Fault /\ lead[f] \in Node
  /\ Begin("sweep", "release", lead[f], f)
  /\ UNCHANGED <<registry, watch, beat, wasDead, lead, up, inbox, announced, ghosts>>

-----------------------------------------------------------------------------
(* The nodes, the broker and time. *)

Room == Len(inbox) < MaxInbox

\* BaseNode.start of a node: announced, and heartbeats from then on.
NodeStart(n) ==
  /\ n \notin up /\ Room /\ announced[n] # "ONLINE"
  /\ up' = up \cup {n}
  /\ Publish(n, "ONLINE") /\ orphaned' = orphaned \ {n}
  /\ UNCHANGED <<registry, watch, work, beat, wasDead, lead, reports, zombie, faults>>

NodeBeats(n) ==
  /\ n \in up /\ Room
  /\ [kind |-> "heartbeat", node |-> n] \notin Range(inbox)
  /\ inbox' = Append(inbox, [kind |-> "heartbeat", node |-> n])
  /\ UNCHANGED <<registry, watch, work, beat, wasDead, lead, up, announced, ghosts, faults>>

\* A node hangs without losing its connection, and goes on.
Hang(n) ==
  /\ n \in up /\ Fault
  /\ up' = up \ {n}
  /\ UNCHANGED <<registry, watch, work, beat, wasDead, lead, inbox, announced, ghosts>>

Resume(n) ==
  /\ n \notin up /\ announced[n] # "none"
  /\ up' = up \cup {n}
  /\ UNCHANGED <<registry, watch, work, beat, wasDead, lead, inbox, announced, ghosts, faults>>

\* The connection of a node breaks and the broker publishes its will.  The
\* process starts anew, or connects again and does not announce itself (Resume).
ConnectionLost(n) ==
  /\ n \in up /\ Room /\ Fault
  /\ Publish(n, "OFFLINE")
  /\ orphaned' = orphaned \cup {n}
  /\ up' = up \ {n}
  /\ UNCHANGED <<registry, watch, work, beat, wasDead, lead, reports, zombie>>

\* Ten seconds pass since the last heartbeat of a node was processed; of a node
\* whose heartbeats go out or are under way only by a delay.
Late(n) ==
  /\ lastSeen[n] = "fresh"
  /\ IF n \in up \/ beat = n \/ [kind |-> "heartbeat", node |-> n] \in Range(inbox)
       THEN Fault ELSE UNCHANGED faults
  /\ lastSeen' = [lastSeen EXCEPT ![n] = "late"]
  /\ UNCHANGED <<registry, dead, work, beat, wasDead, lead, up, inbox, announced, ghosts>>

Seeded(n) == row[n] # Unknown /\ row[n].status = "ACTIVE"

\* The commander restarts: records from the table, HeartbeatMonitor.start, the
\* retained announcements once more.
Restart ==
  /\ Fault
  /\ nodes' = row
  /\ lastSeen' = [n \in Node |-> IF Seeded(n) THEN "fresh" ELSE "absent"] /\ dead' = {}
  /\ work' = [t \in Thread |-> Idle] /\ beat' = Nobody /\ wasDead' = FALSE
  /\ inbox' \in SetToSeqs({ [kind |-> announced[n], node |-> n] : n \in { m \in Node : announced[m] # "none" } })
  /\ reports' = [n \in Node |-> 0] /\ zombie' = {}
  /\ orphaned' = orphaned \cup { n \in Node : announced[n] = "OFFLINE" }
  /\ UNCHANGED <<row, lead, up, announced>>

-----------------------------------------------------------------------------
TakeMessage == \E n \in Node : Hear(n) \/ HearOnline(n) \/ HearOffline(n)

PahoStep ==
  \/ TakeMessage
  \/ Seen \/ BeatRead \/ BeatStore \/ Available \/ After \/ Register

SharedStep(t) ==
  \/ OffRead(t) \/ OffStore(t) \/ OffSave(t)
  \/ ReleaseRead(t) \/ ReleaseStore(t)
  \/ Choose(t) \/ BookRead(t) \/ BookStore(t) \/ Booked(t)

MonitorStep == Declare \/ Failed \/ \E n \in Node : Overdue(n)

Next ==
  \/ PahoStep \/ MonitorStep \/ \E t \in Thread : SharedStep(t)
  \/ \E f \in Fire : FireDetected(f) \/ FireSuppressed(f) \/ SweepTimeout(f)
  \/ \E n \in Node :
       NodeStart(n) \/ NodeBeats(n) \/ Hang(n) \/ Resume(n) \/ ConnectionLost(n) \/ Late(n)
  \/ Restart

Spec == Init /\ [][Next]_vars

\* Every thread goes on, a node that runs sends its heartbeats, time passes.
\* Strong fairness of TakeMessage: fire events come through the same queue, in
\* order, so they cannot keep the paho thread from the messages before them.
Fairness ==
  /\ WF_vars(PahoStep) /\ SF_vars(TakeMessage) /\ WF_vars(MonitorStep)
  /\ \A t \in Thread : WF_vars(SharedStep(t))
  /\ \A n \in Node : WF_vars(NodeBeats(n)) /\ WF_vars(Late(n) /\ UNCHANGED faults)

FairSpec == Spec /\ Fairness

-----------------------------------------------------------------------------
(* Properties                                                              *)

\* HeartbeatMonitor._dead_nodes: a node's death is not reported twice without
\* its recovery in between, nor its recovery without a death, though the two
\* callbacks come from two threads and the recovery may overtake the death.
ReportsAlternate == \A n \in Node : reports[n] \in -1 .. 1

\* A node that has stopped sending does not stay ACTIVE, so that no rule counts
\* on it, unless a thread that did not see its death stored it as ACTIVE after it:
\* from a copy of its record, or for a heartbeat that saw the node alive.
SilentGoesOffline ==
  \A n \in Node :
    <>[](n \notin up) =>
      <>[](~Known(n) \/ nodes[n].status # "ACTIVE" \/ n \in zombie)

\* A node that goes on sending is announced as ONLINE in the end, unless its own
\* will or a restart of the commander left an OFFLINE that nobody takes back.
AliveIsAnnounced ==
  \A n \in Node :
    <>[](n \in up) => <>[](announced[n] = "ONLINE" \/ n \in orphaned)

\* NodeRegistry.heartbeat: "heartbeat() only ever touches liveness/status,
\* never job assignment".
HeartbeatLeavesJob ==
  [][At("paho", "beatStore") /\ work'["paho"].at \in {"after", "available"}
       => nodes'[beat].job = nodes[beat].job]_vars
=============================================================================
