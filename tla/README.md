# WFC in TLA+

WFC is a command system for wildfires. A commander decides which swarm leader
goes to which fire and sends it commands; leaders fly drones. A second
commander stands by. Everything talks over one MQTT broker. This directory
holds TLA+ models of the parts of the program that keep state and decide,
the TLC runs that check them on small instances, and proofs that hold for
every instance. `PROJECT.json` is the index: components, runs, mutants (a
plausible bug for every checked property), the source lines each definition
stands for, findings, hazards and theorems. Paths below are relative to `src/`.

## The system

| Part | State | Operations | Correct when |
|---|---|---|---|
| `CommandTracker` (ledger) | status per command, seen event ids; tables `commands`, `command_history` | `create`, `update`, hydrate | it never says of a command what did not happen; an outcome is final |
| `CommandDispatcher`, `FieldNode` | trace ids; `_handled_trace_ids`, the command in hand | `send`, `_handle_command`, `_send_ack` | a command runs once; its outcome comes back |
| `ApprovalGate`, `PendingCommandStore`, `ApprovalHandler` | pending entries in memory and table | `submit`, `approve`, `reject`, `expire_stale` | nothing risky goes out unapproved; each approval goes out once; nothing waits for ever |
| `RuleEngine` and 15 rules | none of its own | `evaluate` | a fire gets the help that is available |
| `FireStateStore`, `MissionStore` | fire records, missions, `_fire_index` | `transition`, `assign_node`, `create`, `evict_terminal`, ... | a burning fire has one open mission, its leaders are booked |
| `NodeRegistry`, `HeartbeatMonitor`, `RegistryBridge` | status and job of a node, dead nodes | `heartbeat`, `register`, `mark_offline`, `assign_job`, `release_job`, `tick` | status follows the node, no update is lost |
| `CommanderCore`, `CentralNode` | the wiring, `_active`, the lease | message handlers, `redispatch_fire`, timeout sweep, snapshots | every event is followed through |
| `BackupCommander` and the lease | `_primary_alive`, owner and term | `_become_active`, `_stand_down`, renew loop | one commander commands |
| Snapshots, `DomainEventLog`, `FireProjector` | updated_at per record, events | `_apply_snapshot`, `replay` | the standby converges to the primary |
| `LeaderElection`, `ElectionState` | term, in_election, received_ok | bully messages, timer | one leader per term, eventually one leader |
| `SwarmLeaderNode`, `DroneRegistry`, drones | fire, drones, lost drones, task machines | commands, telemetry, replacement | a lost drone is replaced, a recalled one returns |
| Aggregator, tactics, action engines | numbers | pure computations | ranges and hysteresis |
| Dashboard | a mirror of what is published | - | shows what was said |

Interaction: commands and acknowledgements are QoS 1 messages, one topic per
node for commands and one for all acknowledgements; heartbeats and snapshots
are QoS 0; announcements and the lease are retained. Each process has a paho
thread that runs `handle_message` to the end of each message, and background
threads (heartbeat monitor, expire loop, snapshot loop, lease loop, election
timer) that work on the same dictionaries, mostly without locks. Stores are
written through to SQLite, one commit per call.

What is hard: messages lost, repeated or out of order, crashes between two
commits, the expire thread between two statements of the paho thread, events
that come again after their fire moved on, leaders that die, return and answer
late. `PROJECT.json` "hazards" lists each at its line.

## Modules

| Module | Models |
|---|---|
| `CommandOutcome` | the promise of the command pipeline, abstractly: what a client of it may rely on |
| `CommandTracker` | `command_tracker.py`, `lifecycle_rules.py`, `command_repo.py`: the ledger and its two tables |
| `AckProtocol` | extends the ledger with `CommandDispatcher.send`, the broker, `FieldNode`, `_handle_ack` and the timeout sweep; refines `CommandOutcome` |
| `ApprovalGate` | `core/approval/*.py` with the operator and two threads |
| `RuleEngine` | the stores and twelve rules as functions from a state of the stores to the next |
| `FireCommander` | the handlers of an active commander over `RuleEngine`; takes the transition table of the ledger from `CommandTracker` |
| `NodeRegistry` | records of the nodes, their table, heartbeat monitor, announcements and bookings under three threads without a lock |
| `SnapshotReplication` | both commanders' stores of one fire under their threads, statement by statement: handlers, redispatch, the snapshot loop, the merge, the event log and its replay |
| `CommanderFailover` | the retained lease, the primary's start and reconnection, the backup's heartbeat monitor, takeover thread and stand-down, in time |
| `BullyElection` | the swarm leaders' election: state, timer and monitor of each backup, announces and wills |
| `Swarm` | a swarm leader, its drone registry and tactics, its drones and what the broker retains of them |
| `Drone` | one drone: action engine, movement, resources, under its two threads |
| `MC*` | instances for TLC |
| `AckProtocolProofs`, `ApprovalGateProofs`, `NodeRegistryProofs`, `CommanderFailoverProofs`, `BullyElectionProofs`, `DroneProofs`, `FireCommanderProofs`, `SnapshotReplicationProofs` | lemmas and theorems |

How they fit together: `FireCommander` composes `RuleEngine` with the table of
`CommandTracker`; `AckProtocol` composes `CommandTracker` with the field. The
others are views of one system at different grain. `FireCommander` takes a
handler as one step and is exact about what the rules decide; `NodeRegistry`
opens the steps inside its handlers and keeps of the rules only who is booked;
`SnapshotReplication` opens them down to the statements that read or write a
store, and leaves open what is decided (its `Decisions`). `CommanderFailover` says
when a role changes,
`SnapshotReplication` what is known by then. `Swarm` takes a tick of `Drone` as
one step.

### CommandTracker and AckProtocol

`status`, `history` and `dated` are rows (table `commands`, applied events in
`command_history`, and whether the COMMAND_ISSUED row of a command exists);
`seen` is `_seen_event_ids`, which a restart rebuilds from the rows (`Hydrate`).
`update()` makes its checks in the order of the code: unknown command, event
without an id, id already seen, transition not allowed; an id is remembered
before the transition is checked, so `Update` remembers the ids of refused
events too. A field node derives the id of an acknowledgement from trace and
status, so the pair is the id. `UpdateThenDie` and `CreateThenDie` stop
between the two commits.

`cmdq[n]` and `ackq[n]` are what the broker carries to and from node `n`: in
order per publisher (one MQTT connection), but any message may be lost, and a
reconnecting publisher repeats unconfirmed ones. Clients use clean sessions, so
a restarted node or commander misses what was sent to it meanwhile. `busy` is
the command that `_execute_command` works on; a node runs one at a time
because its paho thread does. `did` and `runs` record what the field really
did; nothing in the code reads them, they are what the ledger is compared with.
`Idempotent` commands have a trace id derived from type, fire and node, so a
rule that decides again sends the same trace; the others are sent once.

Left out: after a restart the first entry of a command's history may be that of a
refused event, if the COMMAND_ISSUED row was never written; the sweep then takes
its age for the command's. `Overdue` lets such a command wait for ever.

### ApprovalGate

Statements of `approve`, `reject` and `expire_stale` that another thread or a
crash can separate are separate steps: send, store, save, tell for the paho
thread (`op`), list, then per entry expire, save, tell for the expire thread
(`sweep`). `mem` and `row` are the entry in memory and in its table. The
operator answers what the dashboard showed, each answer once (a bound), both
ways and as late as he likes. A crash is possible at every step; `ChangeRole`
is activation and deactivation.

### RuleEngine and FireCommander

`w` is a record of all stores; a rule is a function on it, and `Evaluate` is the
composition in the order of `RuleEngine.__init__`, each rule seeing what the
earlier ones did, as the loop in `evaluate` refreshes the record. Rules that
filter on `telemetry_rules` appear as the rules a handler names. `FireCommander`
has one action per handler; each handler runs to its end in one step, so
interleavings inside a handler are not explored here but in `NodeRegistry` and
`SnapshotReplication`. The exception is a leader's heartbeat, whose callback
goes over the waiting fires: `Heartbeat` notes them in `again`, and `LookAgain`
evaluates them one by one, in any order (Python takes that of the dictionary),
before any other handler runs. `ledger` is the tracker's status of the commands;
of those that draw a new trace every time, the first per fire and node.
Acknowledgements are taken from it in any order the table allows, at any time
after the command, or never: what the broker and the field do is explored in
`AckProtocol`. `unheard` stands for commands to `SYSTEM` or to commanders, which
nobody acknowledges. Severities are numbers, zones and distances constants. A
leader is in the list of a fire once at most (a part of `TypeOK`), so `Unassign`
takes out one place. `FireDispatchRule`'s choice of the nearest leader, and the
choice of the least severe fire, break ties by a fixed choice where Python takes
the first of a dictionary.

`SwarmStatus(f, report)` is a status message after which the worst of what the
fire's leaders reported is `report`: the store keeps every leader's last report
for ever and the rules read them all, so any combination can be there.
`SwarmElection` is a winner announced with a term above the fire's; one with a
lower term changes nothing. The winner joins the leaders of the fire without
being booked.

`target` says whether a node with DISPATCH_COMMANDS is ACTIVE in the registry:
the commanders register like any node (REGISTERED until a heartbeat of theirs
comes in, `CommanderHeard`) and go OFFLINE like any other (`CommanderLost`). Two
rules escalate to these nodes and ask nobody when there is none
(`EscalateToCommanders`); two others escalate to `SYSTEM` whether there is one or
not (`Escalate`). The engine asks the operator once per fire: after an
ESCALATION_REQUESTED event nothing more is sent (engine.py:143-151), so `asked`
stays set, and `HelpIsSought` says that the operator has been asked, now or when
something else escalated the fire.

Left out: `FireVerificationRule`, which sends a scout to a new fire of low
severity (its command goes to a drone), a restart of the commander (see
`SnapshotReplication` and `NodeRegistry`), alerts and the audit log.
`SeverityIncreaseRule` asks for a state SPREADING under a key the engine does
not read and repeats a severity that is stored already, so it changes nothing;
`RekindleDetectionRule` is never among the rules its own trigger runs.

### NodeRegistry

`work[t]` is where thread `t` is: the paho thread in `HeartbeatMonitor.update`
and the callbacks under it, the monitor's thread in `_declare_dead` and
`CentralNode._on_node_failed`, the sweep in `redispatch_fire`. Every method of
`NodeRegistry` reads the record, copies it with one field changed and stores
the copy: `Read` and `Store` are two steps, and `mark_offline` saves its copy
in a third. `beat` and `wasDead` are `update`'s locals; `wasDead` is read before
`_last_seen` is written and used at its end. `inbox` is the order in which the
paho thread gets heartbeats and announcements, `announced` what the broker
retains. Of fires only the leader is kept (`lead`): `Nobody`, a node, `Unlit`
or `Out`.

Three ghosts: `reports` counts NODE_FAILED minus NODE_RECOVERED of a node,
`zombie` are nodes whose death a thread overwrote by storing an older copy,
`orphaned` are nodes with an OFFLINE announcement that no code path takes back
(a reconnecting node does not announce itself again, a restarted commander
forgets `_dead_nodes`, and `_on_node_failed` announces OFFLINE even if a
heartbeat recovered the node since it was declared dead). The two liveness
properties name them as exceptions: they are races of the code. (`zombie` has also
the nodes that a heartbeat, which looked at `_dead_nodes` before the death, makes
ACTIVE again.) Position and capabilities of nodes do not change.

One step here, two in the code: the record in memory and its row, except in
`mark_offline`. A leader that becomes available is offered one waiting fire
(`Available`), where the code goes over all of them.

### SnapshotReplication

Per commander: the `FireRecord` with `updated_at` (`ver`), the missions and
`_fire_index`, the tables `missions` (`saved`) and `domain_events` (`events`).
`clock` is `time.time()`; it advances with every time that is written, so
versions differ. A commander has four threads: `mqtt` (handlers and merges),
`monitor` (`_on_node_failed` and `redispatch_fire`), `main` (the replay at start)
and `loop` (`_snapshot_loop`). `work[c][t]` is the list of statements thread `t`
has still to make; any thread may make its next one at any time, and a crash may
come between any two.

A handler (`FireDetected`, ..., `LeaderAvailable`) puts its statements on the
list. `Decide` is a statement that looks at a store and replaces itself by what
it leads to: the rules, a second pass, the steps of a redispatch, what the
projector does for an event. The stores differ in how they write, and the model
keeps that. `FireStateStore` copies the record (`WriteFire`) and puts the copy in
its place later (`StoreFire`), so one write can undo another. `MissionStore`
changes the shared record in place, first the state (`SetState`), then the
version and the row (`Stamp`). The snapshot loop reads the fires, the states of
the open missions, their versions and the events one after the other (`Read`) and
the clock last (`Publish`): an event that is logged before the clock is read and
after the events were is in no delta. A snapshot goes to both commanders, its
sender included, and each may miss it. `ApplySnapshot` is the list of
`_apply_snapshot`: the merged fire (last write wins, union of
`assigned_nodes`), the missions, then for each event its append (if new) and its
projection (always), a projected write being stamped with the time of the
replay. `Restart` hydrates (first leader only, missions of its own table) and
leaves the replay of the log to the thread `main`. Who is active follows
`CommanderFailover` in outline: `Promote` when the other is down, `StandDown`
with a last snapshot when it is up.

What the code does for one element of a list after another is `Through`; a list
without the elements a filter drops, or a log with the events it lacks, is
`Joined`. `ByTime` is the order of `FireProjector.replay`: no two events have one
time (`TypeOK`). At the start both commanders are new, or Central fights a fire
whose last write was at `Fought`, hence the assumption that `MaxClock` is no
less. `MaxBusy` bounds the threads of a commander that are under way at once, and
`Together` says whether both commanders may be at work at once, and be handling
events while both are active; the proofs are for any value of both.

One step here, several in the code: a record in memory and its row; a mission
with its index entry and its row when it is created; the version of a mission and
its row; an event's time and its insertion; the merge of all missions of a
snapshot, which also waits while a thread is inside `transition` of one of them
(`InHand`); the states of all missions, and their versions, in the snapshot loop.
Left out: `leader_term`, the redispatch by the timeout sweep (a third caller of
what `monitor` does), the copies the former backup publishes in its grace period,
and more than one snapshot on its way to a commander (further ones are lost).

### Drone

A thread is the list of assignments it has still to make. The paho thread
(`paho`) gets the list of an order, `dispatch_to` or `recall`; the telemetry
thread (`tel`) walks through a tick, from one point where the code reads
(`at`) to the next, and at each decides on the assignments up to the next. So
an order may fall between any two assignments of a tick, which is what two
threads on the same fields do. Places stand for positions, a leg takes three
ticks; charge and load are counted in ticks. `phantom` says that litres were
added to `_litres_delivered` that no tank held, `dry` that the drone was sent
out with an empty tank; nothing reads them.

A tick of the pump takes one unit, so a tank is a multiple of one tick's drop, as
the default and the deployed tanks are: of any other tank the last tick would empty
less than the drop that `suppression.py` counts, and `DeliveredWasCarried` would be
off by that rest.

Left out: kinematics, wind, the battery curve, the grid sweep (no caller starts
it), `_litres_delivered` as a number.

### Swarm

`reg` is `_drone_reg`, `latest` the last telemetry of each drone (the
aggregator keeps it after the drone is unregistered), `quiet` joins `last_seen`
and `_lost_tracker`: heard, stale (5 s), tracked (noticed by the loop), overdue
(15 s more). The analysis loop is `RemoveLost`, `Reassess`, `Dispatch`: what it
decided is sent in a step of its own, and the paho thread may handle a command
in between. `Reassess` has the six rules of `FireTactics.reassess` with their
priorities; what the aggregator computes from readings (`Snapshots`) is free
within its ranges. A drone is the machine of `Drone` with a tick as a step; a
command is obeyed when sent, or lost when the drone has no connection.

Left out: a restart of the leader, `REASSIGN_LEADER` and `CONFIRM_LEADERSHIP`,
drones of other zones (the leader registers them all the same), and the label
that holding an idle fighter sets. One step here, several in the code: the recall
of all drones and the end of the fire (`StandDown`), and `get_lost` with the
unregistration of what it returned (`RemoveLost`), between which telemetry may
arrive. A scout reports what it sees from the tick it leaves on, as the way out
is one tick, so a scout that was unregistered on its way is not mistaken for a
fighter here.

### CommanderFailover

Two processes and a broker that retains one lease. `phase` is the life of a
process; the primary is active from the first statement of `start` but claims
its lease only a second later (`Claim`), and the retained lease may not have
arrived by then. `inbox[n]` holds the leases the broker has sent to `n`, in one
order for both; every commander also receives what it published itself. While
the primary's connection is cut, its heartbeats (QoS 0) are lost and its leases
(QoS 1) are `held` by the client and go out late.

The backup has three threads: paho's (`Heartbeat`, `LeaseMessage`), the monitor
(`DeclareDead`, then `NodeFailed`, its callback) and the takeover
(`CheckLease`, `WakeUp`, `Activate`). `dead` is membership of `_dead_nodes`,
`alive` is `_primary_alive`; the two are written at different moments, which is
where the hazards are. `silence` and `leaseAge` are the ages of `_last_seen` and
`_last_lease_seen_at`. `record`, the stored status of the primary, decides after
a restart of the backup whether its monitor watches the primary at all.

Time passes in ticks of five seconds (heartbeat and renewal period; timeouts of
10, 15 and 10 seconds are 2, 3 and 2 ticks). `Prompt` lets a tick pass only
when every live thread that is due has run and every message on a working
connection has arrived, so that delays longer than a tick come from crashes and
cuts only; within a tick everything interleaves. The takeover polls once a tick
where the code polls every second. `overtaken` is not read by any action: it
records that a heartbeat came between two steps of a takeover.

### BullyElection

`election[n]` is the `ElectionState` with the term of the armed timer, `leader[n]`
is `_current_leader_id`, `lead` the nodes that have SWARM_LEAD. The first leader
(`first`, the node without IS_BACKUP) has no engine: it takes no part, but it
is a peer of the others, who ask it and wait in vain. Ids are numbers; the code
compares strings. A handler of the MQTT thread is one step; the monitor
and the timer are two each, because other threads run between their check
and their act: `suspecting` and `firing` are the threads past their check.
What `start_election` does (raise the term, send, re-arm) is one step.

A message keeps its order per pair of nodes. A will is published any time after
the crash: the first leader's says SWARM_LEAD, which every backup takes for a
new leader, OFFLINE or not. Heartbeats are not messages here: `Suspect` is
enabled when the followed node is down, and, as a fault, when it is not.
`Timely` states the assumption behind ELECTION_TIMEOUT: what a node asked, and
what was sent to it, is processed before its timer runs out, and a thread past
its check acts before any clock runs out. Without it one term can have two
winners, as in every bully election. A higher peer that is in a later term drops
a question as stale and never answers, so a node may well win by time-out over a
peer that runs; `TimeoutOverridesNobody` says that this is the only way. (A
stronger form, that the node never got an OK from such a peer, holds with three
leaders and not with five.) Broker outages and a leader that reconnects without
restarting are not modelled.

## Runs

| Run | Instance | Shows |
|---|---|---|
| `ack_protocol` | one node, an idempotent command sent up to twice and one of unknown type, 2 faults, fair | type, truth of the ledger, one run per life, audit rows, refinement of `CommandOutcome`; without faults every command gets its outcome |
| `approval_gate` | a risky and a safe command, 3 faults, fair | approval before dispatch, one dispatch per approval, announcements are true, nothing waits for ever |
| `approval_race` | two risky commands, no fault | finding: expiry overwrites a decision |
| `fire_commander` | 2 fires, 2 leaders, 1 backup, 2 severities, 3 events of which 1 a report or an election, 2 missions per fire | missions follow acknowledgements; a burning fire has a mission; a new fire and one that loses its leader get an active leader, or none is free and the operator was asked, unless no commander was there to ask; a leader at work is not taken while another is free |
| `node_registry` | 1 node, 1 fire, 2 messages under way, 1 fault, fair | deaths and recoveries are reported in turn; a silent node does not stay ACTIVE, a living one is announced, but for the named races |
| `snapshot_replication` | 2 commanders, 1 fire, 2 events, crashes or losses, 2 threads of one commander at a time, 7 writes, fair | two copies of a fire with one version agree; no second mission; a standby catches up |
| `commander_failover` | the timings of the code, 2 crashes or cuts, at most 1 of the backup, fair | a takeover needs a declared death and outbids the lease; a primary that stays away is replaced; one that returns has the command alone unless the backup was overtaken |
| `failover_dual` | the same, 2 faults | finding: two commanders for ever |
| `bully_election` | three leaders, the lowest or the highest of them first, 2 crashes, restarts or false time-outs, timely, fair | one winner per term among nodes that did not restart; a time-out overrides nobody in the same election; backups end up leading or following, except `Misled` and `Stranded` |
| `drone` | a scout or a fighter, 3 orders, battery 24, tank 3, fair | litres counted were carried, unless it was sent out empty; without orders a drone comes to rest |
| `swarm` | a scout and a fighter, 2 commands, 1 fault, battery and tank 2, fair | once there is no fire every drone comes home and stays |
| `swarm_lost` | 2 scouts, 1 command, 2 faults | finding: a lost scout is never replaced |

Bounds. Every run ends within about a minute on a desktop, so that it can be
repeated at each change. Two faults are the least with a crash after a loss or a
repetition, which is what the mutants of `ack_protocol` need at most;
`approval_gate` has three. Two sends are the least that repeat a trace. Three
events (an event is anything but a heartbeat, a RECEIVED, an approval or an
eviction, which are bounded by what they change) reach: a fire assigned, its
leader lost, the fire redispatched; or assigned, suppressed and detected again;
or two fires and the loss of a leader. What more events could bring is proved
(see Proofs). Two missions per fire are the least with an old and a new one. The
fires of `fire_commander` are symmetric and declared so; leaders are not (`l1`
is nearer). In `bully_election` with the first leader the highest, both backups
wait for a dead peer; with it the lowest, the higher backup wins at once, as in
the deployment. In `node_registry` two messages under way are the least that can
overtake a decision of the monitor one after the other; the one fault is a hang,
a broken connection, a delay, a timeout or a restart. In `snapshot_replication`
half of the initial states have a fire that is fought already, so that two
events reach its containment with a loss of its leader side by side, a
lost snapshot, or a takeover (a crash) and a handler of the new commander; seven
writes leave three to a fire that is fought, and a whole detection to a new one.
In the run one commander is at work at a time, and handles events
only while the other is not active; in the first of its larger instances both are.
What more writes, threads and crashes could bring is proved. In `drone` a battery
of 24 lasts for a second trip. Deadlock is not checked: with its bounds spent,
or with no message on its way, each of these systems may stop.

Larger instances were run by hand, too long for a run of every day, and hold
the same properties:

| Run, with | Distinct states |
|---|---|
| `ack_protocol`, three faults | 1.1 million |
| `fire_commander`, four events | 4.6 million |
| `bully_election`, three faults | 1.4 million |
| `commander_failover`, three faults | 0.6 million |
| `node_registry`, two faults and one message under way | 1.0 million |
| `node_registry`, any number of faults, safety only | 11 million |
| `snapshot_replication`, both commanders at work at once, 3 threads each, one event | 0.6 million |
| `snapshot_replication`, a clock of 8, safety only | 0.9 million |
| `swarm`, a battery of 3 | 0.1 million |

Fairness. `AckProtocol!Fairness`: the paho thread of a process that runs
handles what arrived. `ApprovalGate!Fairness`: both threads run and time
passes; the operator owes no answer, and no fault is fair.
`NodeRegistry!Fairness`: each thread goes on, a node that runs heartbeats, time
passes; the paho thread is strongly fair to its messages, because events of
fires come through the same queue, in order, and cannot overtake them for ever.
`SnapshotReplication!FairSpec`: the snapshot loop goes round, and what a thread
has begun comes to an end and what has arrived is handled. These two are stated by
what they bring about (a list is empty again and again), which also excludes the
behaviours that only the bound on the clock cuts short in the middle of a handler.
`CommanderFailover!FairSpec`: all threads, deliveries and time go on,
and a backup that stopped is started again; a primary need not be started and a
cut need not heal. `BullyElection!FairSpec`: some owed step is taken as long as
there is one. `Drone!FairSpec`: both threads run, the leader owes no order.
`Swarm!Fairness`: drones tick, the analysis loop runs, announcements arrive;
no fault, command, reconnection or restart is fair. Each is fairness of threads
that nothing in the code blocks.

## Proofs

For every set of commands, nodes, fires and entries and for every bound:

* `AckProtocolProofs`: `TypeCorrect`; `LedgerIsTrue`, from the invariant that
  every acknowledgement on its way, and every applied event, tells what its
  node did (a status alone is not inductive: it comes from a queue);
  `AuditAgrees`, whose invariant adds that a status other than a receipt or an
  outcome has no row; `RunAtMostOnce`, from: a command in hand is not
  remembered as handled, a remembered one ran at most once, and only the
  node a command is for ever runs it; `ImplementsOutcome`, a step of the
  protocol is a step of `CommandOutcome` or a stutter.
* `ApprovalGateProofs`: `TypeCorrect`; `ApprovedBeforeSent`, from: a decision in
  the inbox or in the paho thread was made by the operator; `ApprovedMeansSent`;
  `OneDispatchPerApproval`, which counts: a command that is still to be sent was
  sent no more often than there were crashes; `DashboardIsToldTheTruth`, from:
  what the paho thread is about to tell was decided by the operator and, if
  approved, sent, whatever became of the entry since; and the expire thread
  works only on what is due (`SweepIsDue`).
* `NodeRegistryProofs`: `TypeCorrect`, which needs that the place of a thread
  fixes what it holds (`Placed`: whose record, whether a copy, which fire) and
  that no thread forgets a record another one is about to read;
  `DeathsAreReportedOnce`, from an account: the reports of a node are one if it
  is in `_dead_nodes` and none otherwise, less one while the monitor is between
  its declaration and its report. Inside `update` the account only holds
  because a heartbeat that saw the node dead is the only one to take it out.
* `CommanderFailoverProofs`: `TypeCorrect`, which needs that a thread that
  sleeps has not used up its wait; `CommandsForTheDead`, from: the backup doubts
  the primary (`~alive`) only while it counts as dead or a heartbeat overtook
  the takeover; `TakeoverOutbids`, from: the backup has adopted the retained
  lease or a higher one, or the retained lease is the last on its way to it.
* `BullyElectionProofs`: `TypeCorrect`, with or without `Timely`. That no backup
  follows itself needs that nobody has mail from himself, which a restart keeps
  only because the broker replaces a dead backup's retained announce by its will
  before it lets the backup in again. With `Timely`, `OneWinner` and
  `NobodyOverridden`, from `ElectInv`: to each higher peer that never restarted,
  the question of a running election is on its way, or its answer is, or the
  peer is in a later term (`AskedOK`); so a time-out that has run, which under
  `Timely` finds no mail, has all of them in later terms (`RefusedOK`), and
  whoever wins a term is its only winner, now and later (`AloneOK`). The proof
  takes six facts about a step (`Grow`, `Begins`, `Effect`, ...) from the
  actions and everything else from the six facts.
* `DroneProofs`: `TypeCorrect`; `DeliveredLitresWereCarried`, from: a tick of
  the pump is decided on at one point of the tick only (`Drops`), and there
  never with an empty tank, because a fighter that is empty and was not sent
  out so has its engine on the way home, or the tick that emptied it is about
  to turn it (`Spent`). The check that turns it is the line after the one that
  drops, and `payload_litres >= 0`, meant to guard the count, is always true.
* `FireCommanderProofs`: `TypeCorrect`, `RunningMeansAnswered`,
  `BurningIsServed`, `HelpSought`, `BusyLeadersStay`, for any leaders,
  backups, fires, zones, distances and bounds. Rules are functions on a record
  of all stores, so the proof starts with records: a record is `Good` if it is
  typed, an unknown fire has no leader (`FiresOK`), the index names a mission
  that is there (`MissionsOK`) and a node at work was sent to a fire that is
  known (`JobsOK`). Each store operation and each rule keeps `Good`; what a rule
  does besides is one of three statements, which compose: it books only idle
  leaders and forgets no command (`Follows`), it touches neither fires nor nodes
  (`Notes`), it starts no fire and no mission (`Advances`). `EvaluateFollows`
  joins the rules: a fire without a leader is `Helped`, which includes the case that
  no commander is there to ask. `FireInv` is `Good` of
  the state with the two state properties (TLC checks it on the instance of the
  run); each action has a lemma, which also gives the step's share of the two
  action properties (`Attended`, `BusyKept`). The nearest leader and the least
  severe fire exist by `MinimumExists`, a first-order consequence of the
  well-foundedness of the order on the numbers.
* `SnapshotReplicationProofs`: `TypesHold`, `VersionsTellTheTruth`, `OneMission`.
  The lists of `Joined` are recursive functions; that they have values follows from
  `MinimumExists` (a first turn without a value cannot be), and what every turn
  keeps holds at the end (`Turns`). The invariant `IInv` has three parts. `Typed`
  says what a thread may have still to do (`Statement`). `Dated` counts every copy
  of the fire or of an event, in a store, in a log, in the hands of a thread or on
  its way, as a mark with the time it was made: none is later than the clock, and
  two marks of one time are of one state. A property of the two stores alone is not
  inductive, as the next `store` or merge comes from what was copied before. Each
  action is shown to add at most one mark, with a time the clock has just reached
  (`MarksAfter`); most add none (`QuietStep`). `Indexed` (the index names a mission
  whenever there is one), which hydration and merge restore, is what `OneMission`
  needs. Missions are not among the marks: their versions do not tell the truth, as
  `MCMissionCopies` shows.

The proofs assume only the named assumptions of the constants, and two of the
election's theorems assume `Timely` as the run does.

Only model-checked, because liveness is out of the prover's reach:
`EveryCommandSettles`, `NoneWaitsForEver`, `SilentGoesOffline`,
`AliveIsAnnounced`, `NeverBehind`, `Takeover`, `StandsDown`, `Settles`,
`ComesToRest`, `AllComeHome`. The type invariant of `Swarm` is only
model-checked: no theorem rests on it, and what is worth saying of a swarm is
liveness. Every other invariant and action property that a passing run checks
is a theorem.

## Findings

1. `approval_race`: `expire_stale` overwrites a decision made after it listed.
2. `failover_dual`: a heartbeat between `_declare_dead` and `_on_node_failed`, or
   between the last look at `_primary_alive` and `activate()`, is forgotten; both
   commanders stay active until the primary fails again.
3. `swarm_lost`: the search for a replacement asks for more than 1.5 litres, and
   a scout reports 0.0: no lost scout is ever replaced.

### Formulas that do not hold

The modules state some more sentences of the code's documents, and TLC refutes
them. They have a configuration and no entry among the runs; run
`tlc -config <cfg> <module>` to see the behaviour.

| Configuration, module | Formula | What happens |
|---|---|---|
| `MCAckSweep`, `MCAckProtocol` | `GivenUpStopsAppearing` | the timeout sweep reports `COMMAND_ACK_FAILED` without an event id, the tracker refuses it, the fire is redispatched at every sweep |
| `MCFirePaused`, `MCFireCommander` | `PausedAwaitsLeader` | a recovered leader is given a fire whose mission stays PAUSED |
| `MCFirePreempt`, `MCFireCommander` | `PreemptsLessSevere` | a suppressed fire still owns its old leader's name, and `PriorityRule` takes that leader from a fire as severe |
| `MCFireNotified`, `MCFireCommander` | `HumanIsNotified` | a fire without a free leader is escalated to active commanders; before the commander's own first heartbeat there is none, nobody is asked until something else has the fire evaluated again |
| `MCFireRekindle`, `MCFireCommander` | `RekindledIsDispatched` | the event of a rekindled fire has a type the schema forbids; it raises before any rule runs |
| `MCRegistryHeartbeat`, `MCNodeRegistry` | `HeartbeatLeavesJob` | the record a heartbeat stores is a copy from before the job was given or taken |
| `MCFailoverAbsent`, `MCCommanderFailover` | `SomebodyCommands` | a backup that restarts after the primary was marked offline never watches it |
| `MCMissionCopies`, `MCSnapshotReplication` | `SameVersionSameMission` | the snapshot loop reads the state of a mission, a handler sets state and version, the loop reads the version: the copy has the old state and the new version, and last-write-wins keeps it |
| `MCReplayState`, `MCSnapshotReplication` | `ReplayKeepsState` | a snapshot carries a detection that came after its fires were read; the standby crashes between the append of the event and its projection, and its replay at start changes the state |
| `MCMirrorClear`, `MCSnapshotReplication` | `ClearReachesMirror` | the merge takes the union of `assigned_nodes`: a leader taken off a fire stays with it in the standby |
| `MCMirrorSync`, `MCSnapshotReplication` | `MirrorInSync` | replay applies the first event of a delta and takes the others for old, as the first was stamped with the time of the replay |
| `MCStandbyDecides`, `MCSnapshotReplication` | `StandbyDecidesNothing` | `_on_node_became_available` runs rules in a standby too |
| `MCDroneRecall`, `MCDrone` | `RecallStopsPump` | a recall between two assignments of a tick is overwritten: the drone goes on dropping |
| `MCDroneService`, `MCDrone` | `ServicedAtBase` | a recall sets the engine to RETURNING before the waypoint to home: a tick in between finds the fighter at its old waypoint, takes it for landed and fills it there |
| `MCDroneDelivered`, `MCDrone` | `OnlyCarriedIsDelivered` | a drone sent out with an empty tank counts litres it never had |

### Other weaknesses the models show

No document of the repository denies these; properties name them as exceptions
or are stated so that they are not violated.

* Escalation. Without an active commander in the registry `NoRespondersRule` and
  `HighSeverityRule` ask nobody, and a fire that was escalated once, for whatever
  reason, is never escalated again.
* Election. `Stranded`: a backup obeys the OK of a peer that then dies, has no
  leader left to watch and never starts an election again. (The exception is a little
  wider: any backup that restarted and knows no leader.) `Misled`: an elected
  leader that restarts in time is a backup again, but its heartbeats keep its
  followers content. A restart resets the term to 1.
* Replication. A merged mirror carries the version of its replay, so it can be
  newer than the write it mirrors, and after a takeover it wins over the primary's
  own record. An event logged between the two last reads of the snapshot loop is in
  no delta; the record heals the fire, nothing heals the log. Two threads that write
  the fire at once can undo each other's write, as each stores a copy it made
  earlier. Completed missions are never sent; merged missions are not written to the
  standby's table; only the first leader of a fire is.
* Registry. The exceptions `zombie` and `orphaned`, described with the module.
* Swarm. A recall for an empty battery (priority 9) loses to the hot flank (10).
  Between 85 and 95 per cent suppression one rule sends idle fighters and another
  recalls those at work. A leader that subscribes again unregisters a living drone
  whose retained announcement is still OFFLINE. `REINFORCE_FIRE` sets the fire's
  position and then fails. Drones recalled between `reassess` and its dispatch
  are sent out again, and again while a scout reports SCOUTING; batteries and
  tanks bring them home in the end.
* Drones. A scout is never recharged; once low it reports RETURNING for ever.

## Not modelled

Sensors, wind and GPS simulation: numbers without control state. The dashboard
shows what is published and keeps nothing anybody else reads; the decisions it
sends are an action of `ApprovalGate`. The integration-test orchestrator drives
the system from outside. `database.py` and the MQTT clients are input and
output: their guarantees (one commit per call, QoS, retained messages, wills,
clean sessions) are assumed where a module needs them. Alerts, the audit log and
raw events are written and never read by a decision.

## Plan

Done: all modules above, with proofs about eight of them. Next:

1. Proofs: the type invariant of `Swarm`.
2. `Swarm`: the leader's restart, `REASSIGN_LEADER`, drones of other zones.
3. `FireVerificationRule`, and a scout between commander and swarm.
