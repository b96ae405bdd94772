------------------------- MODULE CommanderFailover -------------------------
(***************************************************************************)
(* Who commands: the lease of CommanderCore (commander_core.py), the       *)
(* HeartbeatMonitor by which the backup watches the primary, and the       *)
(* backup's takeover and stand-down (backup_commander.py).                 *)
(*                                                                         *)
(* Time passes in ticks of five seconds, the period of the heartbeats and  *)
(* of the lease renewals.  A tick waits for every live thread that is due  *)
(* and for every message on a working connection; only a crash or a cut    *)
(* connection delays them.  Within a tick the threads and the deliveries   *)
(* interleave freely.                                                      *)
(***************************************************************************)
EXTENDS Naturals, Sequences, SequencesExt

CONSTANTS Central, Backup,      \* CentralNode and BackupCommander
          None,                 \* no owner
          Timeout,              \* HeartbeatMonitor.timeout, in ticks
          LeaseTTL,             \* LEASE_TTL_SECONDS, in ticks
          MaxWait,              \* LEASE_CONFIRM_MAX_WAIT_SECONDS, in ticks
          MaxFault,             \* bound on crashes and cut connections
          MaxBackupCrash        \* bound on crashes of the backup, which are faults too

Node == {Central, Backup}

ASSUME FailoverAssumption ==
  /\ Central # Backup /\ None \notin Node
  /\ Timeout \in Nat \ {0} /\ LeaseTTL \in Nat \ {0} /\ MaxWait \in Nat
  /\ MaxFault \in Nat /\ MaxBackupCrash \in Nat

VARIABLES phase,                \* phase[n] : the process: down, starting (before its claim), running
          active,               \* CommanderCore._active
          owner, term,          \* CommanderCore._lease_owner, _lease_term
          retained,             \* the lease the broker retains
          inbox,                \* leases on their way from the broker
          link,                 \* the primary's connection to the broker works
          held,                 \* leases the primary's client holds until it is connected again
          due,                  \* messages each commander has still to publish in this tick
          silence,              \* age of _last_seen[Central] at the backup, or Unseen
          dead,                 \* Central is in _dead_nodes
          alive,                \* BackupCommander._primary_alive
          record,               \* the stored status of Central in the backup's registry
          monitor,              \* the monitor's thread: watching, or before its callback
          leaseAge,             \* age of the backup's _last_lease_seen_at, or Unseen
          attempts,             \* the threads in _become_active; equal ones behave as one
          faults, backupCrashes,
          overtaken             \* the backup was overtaken by a heartbeat while it took over

broker == <<retained, inbox, link, held>>
watch == <<silence, dead, alive, record, monitor>>
cores == <<active, owner, term>>
vars == <<phase, cores, broker, due, watch, leaseAge, attempts, faults, backupCrashes, overtaken>>

Unseen == 99
Lease == [owner : Node \cup {None}, term : Nat]
At(at, waited) == [at |-> at, waited |-> waited]

TypeOK ==
  /\ phase \in [Node -> {"down", "starting", "running"}]
  /\ active \in [Node -> BOOLEAN]
  /\ owner \in [Node -> Node \cup {None}] /\ term \in [Node -> Nat]
  /\ retained \in Lease /\ inbox \in [Node -> Seq(Lease)]
  /\ link \in BOOLEAN /\ held \in Seq(Lease)
  /\ due \in [Node -> SUBSET {"heartbeat", "lease"}]
  /\ silence \in (0 .. Timeout) \cup {Unseen}
  /\ dead \in BOOLEAN /\ alive \in BOOLEAN
  /\ record \in {"ACTIVE", "OFFLINE"}
  /\ monitor \in {"watching", "declaring"}
  /\ leaseAge \in (0 .. LeaseTTL) \cup {Unseen}
  /\ attempts \subseteq [at : {"check", "sleep", "awake", "promote"}, waited : 0 .. MaxWait]
  /\ faults \in Nat /\ backupCrashes \in Nat
  /\ overtaken \in BOOLEAN

\* Both processes are up, the primary has claimed its first lease.
Init ==
  /\ phase = [n \in Node |-> "running"]
  /\ active = [n \in Node |-> n = Central]
  /\ owner = [n \in Node |-> Central] /\ term = [n \in Node |-> 1]
  /\ retained = [owner |-> Central, term |-> 1] /\ inbox = [n \in Node |-> <<>>]
  /\ link = TRUE /\ held = <<>>
  /\ due = [n \in Node |-> {}]
  /\ silence = 0 /\ dead = FALSE /\ alive = TRUE /\ record = "ACTIVE" /\ monitor = "watching"
  /\ leaseAge = 0 /\ attempts = {}
  /\ faults = 0 /\ backupCrashes = 0 /\ overtaken = FALSE

-----------------------------------------------------------------------------
(* The broker. *)

Connected(n) == phase[n] # "down" /\ (n = Central => link)

\* publish_retained at QoS 1; a client without a connection keeps the message,
\* here once for renewals that differ only in their date.
Publish(n, lease) ==
  IF Connected(n)
    THEN /\ retained' = lease
         /\ inbox' = [m \in Node |-> IF Connected(m) THEN Append(inbox[m], lease) ELSE inbox[m]]
         /\ UNCHANGED <<link, held>>
    ELSE /\ held' = IF held # <<>> /\ Last(held) = lease THEN held ELSE Append(held, lease)
         /\ UNCHANGED <<retained, inbox, link>>

-----------------------------------------------------------------------------
(* CommanderCore's lease. *)

\* _on_lease_message: an equal term is adopted too, whoever owns it.
LeaseMessage(n) ==
  /\ inbox[n] # <<>>
  /\ inbox' = [inbox EXCEPT ![n] = Tail(@)]
  /\ LET lease == Head(inbox[n])
     IN IF lease.term >= term[n]
          THEN /\ term' = [term EXCEPT ![n] = lease.term]
               /\ owner' = [owner EXCEPT ![n] = lease.owner]
          ELSE UNCHANGED <<term, owner>>
  /\ leaseAge' = IF n = Backup THEN 0 ELSE leaseAge
  /\ UNCHANGED <<phase, active, retained, link, held, due, watch, attempts,
                 faults, backupCrashes, overtaken>>

\* _claim_or_reclaim_lease: a fresh lease, its own once more, or one above the backup's.
ClaimTerm ==
  IF owner[Central] = None THEN 1
  ELSE IF owner[Central] = Central THEN term[Central] ELSE term[Central] + 1

\* The claim comes one second after start(active=True): the retained lease may
\* or may not have arrived by then.
Claim ==
  /\ phase[Central] = "starting"
  /\ phase' = [phase EXCEPT ![Central] = "running"]
  /\ term' = [term EXCEPT ![Central] = ClaimTerm]
  /\ owner' = [owner EXCEPT ![Central] = Central]
  /\ Publish(Central, [owner |-> Central, term |-> ClaimTerm])
  /\ UNCHANGED <<active, due, watch, leaseAge, attempts, faults, backupCrashes, overtaken>>

\* One turn of _lease_renew_loop: it publishes what was last adopted.
Renew(n) ==
  /\ active[n] /\ phase[n] = "running" /\ "lease" \in due[n]
  /\ due' = [due EXCEPT ![n] = @ \ {"lease"}]
  /\ Publish(n, [owner |-> owner[n], term |-> term[n]])
  /\ UNCHANGED <<phase, cores, watch, leaseAge, attempts, faults, backupCrashes, overtaken>>

-----------------------------------------------------------------------------
(* The backup watches the primary. *)

\* Mutation: a recovered primary does not make the backup stand down.
CommandAfterHeartbeat_Kept == active[Backup]

\* Mutation: the backup stands down only for a lease of somebody else.
CommandAfterHeartbeat_ByLease == active[Backup] /\ (dead => owner[Backup] = Backup)

\* _on_node_recovered and deactivate.
CommandAfterHeartbeat == active[Backup] /\ ~dead

\* HeartbeatMonitor.update and, after a declared death, _on_node_recovered
\* with deactivate.  A heartbeat (QoS 0) without a connection is lost.
Heartbeat ==
  /\ phase[Central] # "down" /\ "heartbeat" \in due[Central]
  /\ due' = [due EXCEPT ![Central] = @ \ {"heartbeat"}]
  /\ IF Connected(Central) /\ phase[Backup] = "running"
       THEN /\ silence' = 0 /\ dead' = FALSE /\ record' = "ACTIVE"
            /\ alive' = (alive \/ dead)
            /\ active' = [active EXCEPT ![Backup] = CommandAfterHeartbeat]
            /\ overtaken' = (overtaken /\ ~dead)
       ELSE UNCHANGED <<silence, dead, record, alive, active, overtaken>>
  /\ UNCHANGED <<phase, owner, term, broker, monitor, leaseAge, attempts,
                 faults, backupCrashes>>

\* Mutation: a primary that its will has marked offline is not looked at.
TimedOut_ActiveOnly == silence # Unseen /\ silence >= Timeout /\ record = "ACTIVE"

TimedOut == silence # Unseen /\ silence >= Timeout

\* tick and _declare_dead up to the callback.
DeclareDead ==
  /\ phase[Backup] = "running" /\ monitor = "watching"
  /\ TimedOut /\ ~dead
  /\ silence' = Unseen /\ record' = "OFFLINE"
  /\ dead' = TRUE
  /\ monitor' = "declaring"
  /\ UNCHANGED <<phase, cores, broker, due, alive, leaseAge, attempts,
                 faults, backupCrashes, overtaken>>

\* _on_node_failed for the primary: it starts a thread in _become_active.  A
\* heartbeat may have come since the death was declared.
NodeFailed ==
  /\ monitor = "declaring"
  /\ monitor' = "watching"
  /\ alive' = FALSE
  /\ attempts' = attempts \cup {At("check", 0)}
  /\ overtaken' = (overtaken \/ ~dead)
  /\ UNCHANGED <<phase, cores, broker, due, silence, dead, record, leaseAge, faults, backupCrashes>>

\* The broker publishes the will of a primary that is gone; the backup's
\* RegistryBridge marks it offline, the monitor is not told.
WillArrives ==
  /\ phase[Central] = "down" \/ ~link
  /\ phase[Backup] = "running" /\ record = "ACTIVE"
  /\ record' = "OFFLINE"
  /\ UNCHANGED <<phase, cores, broker, due, silence, dead, alive, monitor, leaseAge, attempts,
                 faults, backupCrashes, overtaken>>

-----------------------------------------------------------------------------
(* _become_active, on a thread of its own. *)

\* _check_lease_and_maybe_promote
LeaseStale == leaseAge = Unseen \/ leaseAge >= LeaseTTL

\* Mutation: the wait has no end.
Decided_NoEnd(waited) == At(IF LeaseStale THEN "promote" ELSE "sleep", waited)

\* The head of the loop: promote when the lease is stale or the wait is over.
Decided(waited) ==
  At(IF LeaseStale \/ waited >= MaxWait THEN "promote" ELSE "sleep", waited)

CheckLease ==
  /\ \E a \in attempts : a.at = "check" /\ attempts' = (attempts \ {a}) \cup {Decided(a.waited)}
  /\ UNCHANGED <<phase, cores, broker, due, watch, leaseAge, faults, backupCrashes, overtaken>>

WakeUp ==
  /\ \E a \in attempts :
        /\ a.at = "awake"
        /\ attempts' = (attempts \ {a}) \cup (IF alive THEN {} ELSE {Decided(a.waited + 1)})
  /\ UNCHANGED <<phase, cores, broker, due, watch, leaseAge, faults, backupCrashes, overtaken>>

\* Mutation: the backup takes over in the primary's term.
TakeoverTerm_Same == IF term[Backup] < 1 THEN 1 ELSE term[Backup]

TakeoverTerm == (IF term[Backup] < 1 THEN 1 ELSE term[Backup]) + 1

\* CommanderCore.activate: nothing is asked again.
Activate ==
  /\ \E a \in attempts : a.at = "promote" /\ attempts' = attempts \ {a}
  /\ IF active[Backup]
       THEN UNCHANGED <<cores, broker>>
       ELSE /\ active' = [active EXCEPT ![Backup] = TRUE]
            /\ term' = [term EXCEPT ![Backup] = TakeoverTerm]
            /\ owner' = [owner EXCEPT ![Backup] = Backup]
            /\ Publish(Backup, [owner |-> Backup, term |-> TakeoverTerm])
  /\ overtaken' = (overtaken \/ alive)
  /\ UNCHANGED <<phase, due, watch, leaseAge, faults, backupCrashes>>

-----------------------------------------------------------------------------
(* Time. *)

Older(age, cap) == IF age = Unseen \/ age >= cap THEN age ELSE age + 1

\* Nobody who can act is late.
Prompt ==
  /\ \A n \in Node : Connected(n) => inbox[n] = <<>>
  /\ \A n \in Node : phase[n] # "down" => "heartbeat" \notin due[n]
  /\ \A n \in Node : phase[n] = "running" /\ active[n] => "lease" \notin due[n]
  /\ phase[Central] # "starting"
  /\ monitor = "watching"
  /\ phase[Backup] = "running" => ~TimedOut
  /\ \A a \in attempts : a.at = "sleep"

Tick ==
  /\ Prompt
  /\ due' = [n \in Node |-> IF n = Central THEN {"heartbeat", "lease"} ELSE {"lease"}]
  /\ silence' = Older(silence, Timeout)
  /\ leaseAge' = Older(leaseAge, LeaseTTL)
  /\ attempts' = { At("awake", a.waited) : a \in attempts }
  /\ UNCHANGED <<phase, cores, broker, dead, alive, record, monitor,
                 faults, backupCrashes, overtaken>>

-----------------------------------------------------------------------------
(* Faults and restarts. *)

Fault == faults < MaxFault /\ faults' = faults + 1

CentralCrash ==
  /\ Fault /\ phase[Central] # "down"
  /\ phase' = [phase EXCEPT ![Central] = "down"]
  /\ active' = [active EXCEPT ![Central] = FALSE]
  /\ inbox' = [inbox EXCEPT ![Central] = <<>>]
  /\ held' = <<>> /\ link' = TRUE
  /\ due' = [due EXCEPT ![Central] = {}]
  /\ UNCHANGED <<owner, term, retained, watch, leaseAge, attempts, backupCrashes, overtaken>>

\* CentralNode.start: active at once, the lease is not persisted.
CentralStart ==
  /\ phase[Central] = "down"
  /\ phase' = [phase EXCEPT ![Central] = "starting"]
  /\ active' = [active EXCEPT ![Central] = TRUE]
  /\ owner' = [owner EXCEPT ![Central] = None] /\ term' = [term EXCEPT ![Central] = 0]
  /\ inbox' = [inbox EXCEPT ![Central] = <<retained>>]
  /\ due' = [due EXCEPT ![Central] = {"heartbeat"}]
  /\ UNCHANGED <<retained, link, held, watch, leaseAge, attempts, faults, backupCrashes, overtaken>>

LinkCut ==
  /\ Fault /\ phase[Central] # "down" /\ link
  /\ link' = FALSE
  /\ inbox' = [inbox EXCEPT ![Central] = <<>>]
  /\ UNCHANGED <<phase, cores, retained, held, due, watch, leaseAge, attempts,
                 backupCrashes, overtaken>>

\* paho reconnects: what it held goes out, late, and the topics are subscribed again.
LinkHeal ==
  /\ ~link
  /\ link' = TRUE
  /\ retained' = IF held = <<>> THEN retained ELSE Last(held)
  /\ inbox' = [inbox EXCEPT ![Central] = <<retained'>>,
                            ![Backup] = IF phase[Backup] = "running" THEN @ \o held ELSE @]
  /\ held' = <<>>
  /\ UNCHANGED <<phase, cores, due, watch, leaseAge, attempts, faults, backupCrashes, overtaken>>

BackupCrash ==
  /\ Fault /\ backupCrashes < MaxBackupCrash /\ phase[Backup] = "running"
  /\ backupCrashes' = backupCrashes + 1
  /\ phase' = [phase EXCEPT ![Backup] = "down"]
  /\ active' = [active EXCEPT ![Backup] = FALSE]
  /\ inbox' = [inbox EXCEPT ![Backup] = <<>>]
  /\ due' = [due EXCEPT ![Backup] = {}]
  /\ silence' = Unseen /\ dead' = FALSE /\ alive' = TRUE /\ monitor' = "watching"
  /\ attempts' = {} /\ leaseAge' = Unseen
  /\ overtaken' = FALSE
  /\ UNCHANGED <<owner, term, retained, link, held, record>>

\* BackupCommander.start: the monitor watches at first only the nodes whose
\* stored record is ACTIVE.
BackupStart ==
  /\ phase[Backup] = "down"
  /\ phase' = [phase EXCEPT ![Backup] = "running"]
  /\ owner' = [owner EXCEPT ![Backup] = None] /\ term' = [term EXCEPT ![Backup] = 0]
  /\ inbox' = [inbox EXCEPT ![Backup] = <<retained>>]
  /\ silence' = IF record = "ACTIVE" THEN 0 ELSE Unseen
  /\ UNCHANGED <<active, retained, link, held, due, dead, alive, record, monitor, leaseAge,
                 attempts, faults, backupCrashes, overtaken>>

-----------------------------------------------------------------------------
LeaseStep == Claim \/ \E n \in Node : LeaseMessage(n) \/ Renew(n)
WatchStep == Heartbeat \/ DeclareDead \/ NodeFailed \/ WillArrives
TakeoverStep == CheckLease \/ WakeUp \/ Activate
FaultStep == CentralCrash \/ CentralStart \/ LinkCut \/ LinkHeal \/ BackupCrash \/ BackupStart

Next == LeaseStep \/ WatchStep \/ TakeoverStep \/ Tick \/ FaultStep

Spec == Init /\ [][Next]_vars

\* The threads, the broker and time go on; a stopped process need not be
\* started, but a backup that was stopped is started again.
FairSpec ==
  /\ Spec
  /\ WF_vars(Claim) /\ WF_vars(Tick) /\ WF_vars(BackupStart)
  /\ \A n \in Node : WF_vars(LeaseMessage(n)) /\ WF_vars(Renew(n))
  /\ WF_vars(Heartbeat) /\ WF_vars(DeclareDead) /\ WF_vars(NodeFailed)
  /\ WF_vars(CheckLease) /\ WF_vars(WakeUp) /\ WF_vars(Activate)
-----------------------------------------------------------------------------
(* Properties. *)

\* The backup commands only while the primary counts as dead; the one way to
\* escape is that a heartbeat overtook the takeover between two of its steps
\* (backup_commander.py: _on_node_failed, _become_active).
CommandsOnlyForTheDead == active[Backup] => dead \/ overtaken

\* A takeover announces a higher term than the broker retains, unless a lease
\* is still on its way to the backup (CommanderCore.activate).
TakeoverRaisesTerm ==
  [][ ~active[Backup] /\ active'[Backup] /\ inbox[Backup] = <<>>
        => retained'.owner = Backup /\ retained'.term > retained.term ]_vars

\* A primary that stays away is replaced, by a backup that was up when it left
\* (_on_node_failed, _become_active).
PrimaryAway == phase[Central] = "down" \/ ~link
Takeover ==
  PrimaryAway /\ backupCrashes = 0 ~> active[Backup] \/ ~PrimaryAway \/ backupCrashes > 0

\* A primary that is back for good has the command alone, unless the backup
\* was overtaken (_on_node_recovered, deactivate).
StandsDown == active[Backup] /\ ~PrimaryAway ~> ~active[Backup] \/ PrimaryAway \/ overtaken

\* Two commanders never last: the backup returns to standby when the primary
\* has recovered (backup_commander.py, Docs/diagrams/06-commander-lease.md).
DualCommandEnds == active[Backup] /\ ~PrimaryAway ~> ~active[Backup] \/ PrimaryAway

\* Also a backup that starts when the primary is already down takes over
\* (commander_core.py, _check_lease_and_maybe_promote).
SomebodyCommands == (\A n \in Node : ~active[n]) ~> (\E n \in Node : active[n])
=============================================================================
