----------------------- MODULE CommanderFailoverProofs -----------------------
(***************************************************************************)
(* Proofs about CommanderFailover, for every length of the timeouts and    *)
(* every number of faults.                                                 *)
(***************************************************************************)
EXTENDS CommanderFailover, TLAPS

\* A thread that sleeps has not used up its wait.
Waiting == \A a \in attempts : a.at \in {"sleep", "awake"} => a.waited < MaxWait

\* Nothing of the backup goes on while it is down; it has no claim to wait for.
Standby ==
  /\ phase[Backup] \in {"down", "running"}
  /\ phase[Backup] = "down" => attempts = {} /\ monitor = "watching" /\ ~active[Backup]

\* The backup has adopted the retained lease or a higher one, or it is the
\* last that is on its way to it.
Caught ==
  phase[Backup] = "running" =>
    /\ inbox[Backup] = <<>> => retained.term <= term[Backup]
    /\ inbox[Backup] # <<>> => Last(inbox[Backup]) = retained

\* The backup doubts the primary only while it counts as dead, or was overtaken.
Suspects == /\ active[Backup] => dead \/ overtaken
            /\ ~alive => dead \/ overtaken

BrokerOK == /\ retained \in Lease /\ inbox \in [Node -> Seq(Lease)]
            /\ link \in BOOLEAN /\ held \in Seq(Lease)

LEMMA Nodes == Central \in Node /\ Backup \in Node /\ Central # Backup /\ None \notin Node
BY FailoverAssumption DEF Node

LEMMA LastLease ==
  ASSUME NEW S, NEW s \in Seq(S), s # <<>>
  PROVE  Last(s) \in S
BY DEF Last

LEMMA LastAppended ==
  ASSUME NEW S, NEW s \in Seq(S), NEW e \in S
  PROVE  Append(s, e) # <<>> /\ Last(Append(s, e)) = e
BY DEF Last

LEMMA LongerTail ==
  ASSUME NEW S, NEW s \in Seq(S), s # <<>>
  PROVE  Len(s) # 1 => Tail(s) # <<>>
<1>1. Len(s) \in Nat /\ Len(s) > 0
  OBVIOUS
<1>2. Len(Tail(s)) = Len(s) - 1
  OBVIOUS
<1>3. Len(<<>>) = 0
  OBVIOUS
<1>4. Len(s) # 1 => Len(Tail(s)) # Len(<<>>)
  BY <1>1, <1>2, <1>3
<1> QED BY <1>4, Zenon

LEMMA LastAlone ==
  ASSUME NEW S, NEW s \in Seq(S), s # <<>>, Tail(s) = <<>>
  PROVE  Last(s) = Head(s)
<1>1. Len(s) = 1
  BY LongerTail, Zenon
<1> QED BY <1>1 DEF Last

\* What a publication does to the broker.
LEMMA PublishKeeps ==
  ASSUME BrokerOK, NEW n \in Node, NEW lease \in Lease, Publish(n, lease)
  PROVE  BrokerOK'
<1>1. CASE Connected(n)
  <2>1. \A m \in Node : Append(inbox[m], lease) \in Seq(Lease)
    BY DEF BrokerOK
  <2> QED BY <1>1, <2>1 DEF Publish, BrokerOK
<1>2. CASE ~Connected(n)
  <2>1. Append(held, lease) \in Seq(Lease)
    BY DEF BrokerOK
  <2> QED BY <1>2, <2>1 DEF Publish, BrokerOK
<1> QED BY <1>1, <1>2

LEMMA LeaseMade ==
  ASSUME NEW o \in Node \cup {None}, NEW t \in Nat
  PROVE  [owner |-> o, term |-> t] \in Lease
BY DEF Lease

LEMMA AttemptMade ==
  ASSUME NEW at \in {"check", "sleep", "awake", "promote"}, NEW w \in 0 .. MaxWait
  PROVE  /\ At(at, w) \in [at : {"check", "sleep", "awake", "promote"}, waited : 0 .. MaxWait]
         /\ At(at, w).at = at /\ At(at, w).waited = w
BY DEF At

\* A decision of the loop is to promote, or to sleep with time left.
LEMMA DecidedKeeps ==
  ASSUME NEW w \in 0 .. MaxWait
  PROVE  /\ Decided(w) \in [at : {"check", "sleep", "awake", "promote"}, waited : 0 .. MaxWait]
         /\ Decided(w).at \in {"sleep", "awake"} => Decided(w).waited < MaxWait
<1>1. CASE LeaseStale \/ w >= MaxWait
  <2>1. Decided(w) = At("promote", w)
    BY <1>1 DEF Decided
  <2> QED BY <2>1, AttemptMade
<1>2. CASE ~(LeaseStale \/ w >= MaxWait)
  <2>1. Decided(w) = At("sleep", w) /\ w < MaxWait
    BY <1>2, FailoverAssumption DEF Decided
  <2> QED BY <2>1, AttemptMade
<1> QED BY <1>1, <1>2

LEMMA AttemptsStep ==
  ASSUME TypeOK, Waiting, [Next]_vars
  PROVE  /\ attempts' \subseteq [at : {"check", "sleep", "awake", "promote"}, waited : 0 .. MaxWait]
         /\ Waiting'
<1> USE FailoverAssumption
<1> DEFINE Attempts == [at : {"check", "sleep", "awake", "promote"}, waited : 0 .. MaxWait]
<1>1. \A a \in attempts : a.at \in {"check", "sleep", "awake", "promote"} /\ a.waited \in 0 .. MaxWait
  BY DEF TypeOK
<1>2. attempts \subseteq Attempts
  BY DEF TypeOK
<1>3. CASE CheckLease
  <2>1. PICK a \in attempts : attempts' = (attempts \ {a}) \cup {Decided(a.waited)}
    BY <1>3 DEF CheckLease
  <2>2. /\ Decided(a.waited) \in Attempts
        /\ Decided(a.waited).at \in {"sleep", "awake"} => Decided(a.waited).waited < MaxWait
    BY <1>1, DecidedKeeps
  <2> QED BY <1>2, <1>3, <2>1, <2>2 DEF Waiting
<1>4. CASE WakeUp
  <2>1. PICK a \in attempts :
           /\ a.at = "awake"
           /\ attempts' = (attempts \ {a}) \cup (IF alive THEN {} ELSE {Decided(a.waited + 1)})
    BY <1>4 DEF WakeUp
  <2>2. a.waited + 1 \in 0 .. MaxWait
    BY <1>1, <2>1 DEF Waiting
  <2>3. /\ Decided(a.waited + 1) \in Attempts
        /\ Decided(a.waited + 1).at \in {"sleep", "awake"} => Decided(a.waited + 1).waited < MaxWait
    BY <2>2, DecidedKeeps
  <2> QED BY <1>2, <1>4, <2>1, <2>3 DEF Waiting
<1>5. CASE NodeFailed
  <2>1. attempts' = attempts \cup {At("check", 0)}
    BY <1>5 DEF NodeFailed
  <2>2. At("check", 0) \in Attempts /\ At("check", 0).at = "check"
    BY AttemptMade
  <2> QED BY <1>2, <2>1, <2>2 DEF Waiting
<1>6. CASE Tick
  <2>1. attempts' = { At("awake", a.waited) : a \in attempts } /\ \A a \in attempts : a.at = "sleep"
    BY <1>6 DEF Tick, Prompt
  <2>2. \A a \in attempts : /\ At("awake", a.waited) \in Attempts
                            /\ At("awake", a.waited).waited = a.waited
    BY <1>1, AttemptMade
  <2>3. \A a \in attempts : a.waited < MaxWait
    BY <2>1 DEF Waiting
  <2> QED BY <2>1, <2>2, <2>3 DEF Waiting
<1>7. CASE attempts' \subseteq attempts
  BY <1>2, <1>7 DEF Waiting
<1>8. CASE Activate \/ BackupCrash
  BY <1>7, <1>8 DEF Activate, BackupCrash
<1>9. CASE UNCHANGED attempts
  BY <1>7, <1>9
<1>10. CASE LeaseStep
  BY <1>9, <1>10 DEF LeaseStep, Claim, LeaseMessage, Renew
<1>11. CASE Heartbeat \/ DeclareDead \/ WillArrives
  BY <1>9, <1>11 DEF Heartbeat, DeclareDead, WillArrives
<1>12. CASE CentralCrash \/ CentralStart \/ LinkCut \/ LinkHeal \/ BackupStart
  BY <1>9, <1>12 DEF CentralCrash, CentralStart, LinkCut, LinkHeal, BackupStart
<1>13. CASE UNCHANGED vars
  BY <1>9, <1>13 DEF vars
<1> QED BY <1>3, <1>4, <1>5, <1>6, <1>8, <1>10, <1>11, <1>12, <1>13
        DEF Next, WatchStep, TakeoverStep, FaultStep

LEMMA BrokerStep ==
  ASSUME TypeOK, [Next]_vars
  PROVE  BrokerOK' /\ owner' \in [Node -> Node \cup {None}] /\ term' \in [Node -> Nat]
<1> USE FailoverAssumption, Nodes
<1>0. BrokerOK /\ owner \in [Node -> Node \cup {None}] /\ term \in [Node -> Nat]
  BY DEF TypeOK, BrokerOK
<1>1. CASE Claim
  <2>1. ClaimTerm \in Nat
    BY <1>0 DEF ClaimTerm
  <2>2. [owner |-> Central, term |-> ClaimTerm] \in Lease
    BY <2>1, LeaseMade
  <2> QED BY <1>0, <1>1, <2>1, <2>2, PublishKeeps DEF Claim
<1>2. ASSUME NEW n \in Node, LeaseMessage(n)
      PROVE  BrokerOK' /\ owner' \in [Node -> Node \cup {None}] /\ term' \in [Node -> Nat]
  <2>1. Head(inbox[n]) \in Lease /\ Tail(inbox[n]) \in Seq(Lease)
    BY <1>0, <1>2 DEF BrokerOK, LeaseMessage
  <2>2. Head(inbox[n]).term \in Nat /\ Head(inbox[n]).owner \in Node \cup {None}
    BY <2>1 DEF Lease
  <2> QED BY <1>0, <1>2, <2>1, <2>2 DEF LeaseMessage, BrokerOK
<1>3. ASSUME NEW n \in Node, Renew(n)
      PROVE  BrokerOK' /\ owner' \in [Node -> Node \cup {None}] /\ term' \in [Node -> Nat]
  <2>1. [owner |-> owner[n], term |-> term[n]] \in Lease
    BY <1>0, LeaseMade
  <2> QED BY <1>0, <1>3, <2>1, PublishKeeps DEF Renew, cores
<1>4. CASE Activate
  <2>1. TakeoverTerm \in Nat
    BY <1>0 DEF TakeoverTerm
  <2>2. [owner |-> Backup, term |-> TakeoverTerm] \in Lease
    BY <2>1, LeaseMade
  <2>3. CASE active[Backup]
    BY <1>0, <1>4, <2>3 DEF Activate, cores, broker, BrokerOK
  <2>4. CASE ~active[Backup]
    BY <1>0, <1>4, <2>1, <2>2, <2>4, PublishKeeps DEF Activate
  <2> QED BY <2>3, <2>4
<1>5. CASE LinkHeal
  <2>1. retained' \in Lease
    BY <1>0, <1>5, LastLease DEF LinkHeal, BrokerOK
  <2>2. <<retained'>> \in Seq(Lease)
    BY <2>1
  <2>3. inbox[Backup] \o held \in Seq(Lease)
    BY <1>0 DEF BrokerOK
  <2>4. inbox' \in [Node -> Seq(Lease)]
    BY <1>0, <1>5, <2>2, <2>3 DEF LinkHeal, BrokerOK
  <2>5. <<>> \in Seq(Lease)
    OBVIOUS
  <2>6. /\ link' = TRUE /\ held' = <<>> /\ UNCHANGED <<owner, term>>
    BY <1>5 DEF LinkHeal, cores
  <2> QED BY <1>0, <2>1, <2>4, <2>5, <2>6 DEF BrokerOK
<1>6. CASE CentralStart \/ BackupStart
  <2>1. <<retained>> \in Seq(Lease)
    BY <1>0 DEF BrokerOK
  <2>2. CASE CentralStart
    BY <1>0, <2>1, <2>2 DEF CentralStart, BrokerOK
  <2>3. CASE BackupStart
    BY <1>0, <2>1, <2>3 DEF BackupStart, BrokerOK
  <2> QED BY <1>6, <2>2, <2>3
<1>7. CASE CentralCrash \/ BackupCrash \/ LinkCut
  <2>1. <<>> \in Seq(Lease)
    OBVIOUS
  <2>2. CASE CentralCrash
    BY <1>0, <2>1, <2>2 DEF CentralCrash, BrokerOK
  <2>3. CASE BackupCrash
    BY <1>0, <2>1, <2>3 DEF BackupCrash, BrokerOK
  <2>4. CASE LinkCut
    BY <1>0, <2>1, <2>4 DEF LinkCut, cores, BrokerOK
  <2> QED BY <1>7, <2>2, <2>3, <2>4
<1>8. CASE UNCHANGED <<owner, term, broker>>
  BY <1>0, <1>8 DEF broker, BrokerOK
<1>9. CASE WatchStep
  BY <1>8, <1>9 DEF WatchStep, Heartbeat, DeclareDead, NodeFailed, WillArrives, cores
<1>10. CASE CheckLease \/ WakeUp \/ Tick
  BY <1>8, <1>10 DEF CheckLease, WakeUp, Tick, cores
<1>11. CASE UNCHANGED vars
  BY <1>8, <1>11 DEF vars, cores
<1> QED BY <1>1, <1>2, <1>3, <1>4, <1>5, <1>6, <1>7, <1>9, <1>10, <1>11
        DEF Next, LeaseStep, TakeoverStep, FaultStep

LEMMA OlderBound ==
  ASSUME NEW cap \in Nat, NEW age \in (0 .. cap) \cup {Unseen}
  PROVE  Older(age, cap) \in (0 .. cap) \cup {Unseen}
BY DEF Older

\* The rest of the type invariant.
NodesOK ==
  /\ phase \in [Node -> {"down", "starting", "running"}]
  /\ active \in [Node -> BOOLEAN]
  /\ due \in [Node -> SUBSET {"heartbeat", "lease"}]

FlagsOK ==
  /\ dead \in BOOLEAN /\ alive \in BOOLEAN /\ overtaken \in BOOLEAN
  /\ record \in {"ACTIVE", "OFFLINE"}
  /\ monitor \in {"watching", "declaring"}

CountsOK ==
  /\ silence \in (0 .. Timeout) \cup {Unseen}
  /\ leaseAge \in (0 .. LeaseTTL) \cup {Unseen}
  /\ faults \in Nat /\ backupCrashes \in Nat

WatchOK == NodesOK /\ FlagsOK /\ CountsOK

LEMMA WatchKept ==
  ASSUME TypeOK, [Next]_vars
  PROVE  WatchOK'
<1> USE FailoverAssumption, Nodes
<1>0. WatchOK
  BY DEF TypeOK, WatchOK, NodesOK, FlagsOK, CountsOK
<1>1. CASE Claim
  BY <1>0, <1>1 DEF WatchOK, NodesOK, FlagsOK, CountsOK, Claim, watch
<1>2. ASSUME NEW n \in Node, LeaseMessage(n) \/ Renew(n)
      PROVE  WatchOK'
  BY <1>0, <1>2 DEF WatchOK, NodesOK, FlagsOK, CountsOK, LeaseMessage, Renew, watch, cores
<1>3. CASE Heartbeat
  <2>1. /\ CommandAfterHeartbeat \in BOOLEAN
        /\ (alive \/ dead) \in BOOLEAN /\ (overtaken /\ ~dead) \in BOOLEAN
    BY DEF CommandAfterHeartbeat
  <2>2. active' \in [Node -> BOOLEAN]
    BY <1>0, <1>3, <2>1 DEF WatchOK, NodesOK, FlagsOK, CountsOK, Heartbeat
  <2>3. due' \in [Node -> SUBSET {"heartbeat", "lease"}]
    BY <1>0, <1>3 DEF WatchOK, NodesOK, FlagsOK, CountsOK, Heartbeat
  <2>4. /\ UNCHANGED <<phase, monitor, leaseAge, faults, backupCrashes>>
        /\ silence' = 0 \/ silence' = silence
        /\ dead' = FALSE \/ dead' = dead
        /\ record' = "ACTIVE" \/ record' = record
        /\ alive' = (alive \/ dead) \/ alive' = alive
        /\ overtaken' = (overtaken /\ ~dead) \/ overtaken' = overtaken
    BY <1>3, Zenon DEF Heartbeat
  <2>5. alive' \in BOOLEAN /\ overtaken' \in BOOLEAN
    BY <1>0, <2>1, <2>4, Zenon DEF WatchOK, NodesOK, FlagsOK, CountsOK
  <2>6. NodesOK'
    BY <1>0, <2>2, <2>3, <2>4 DEF WatchOK, NodesOK
  <2>7. FlagsOK'
    BY <1>0, <2>4, <2>5 DEF WatchOK, FlagsOK
  <2>8. CountsOK'
    BY <1>0, <2>4 DEF WatchOK, CountsOK
  <2> QED BY <2>6, <2>7, <2>8 DEF WatchOK
<1>4. CASE DeclareDead \/ NodeFailed \/ WillArrives
  BY <1>0, <1>4 DEF WatchOK, NodesOK, FlagsOK, CountsOK, DeclareDead, NodeFailed, WillArrives, cores
<1>5. CASE CheckLease \/ WakeUp
  BY <1>0, <1>5 DEF WatchOK, NodesOK, FlagsOK, CountsOK, CheckLease, WakeUp, watch, cores
<1>6. CASE Activate
  BY <1>0, <1>6 DEF WatchOK, NodesOK, FlagsOK, CountsOK, Activate, watch, cores
<1>7. CASE Tick
  BY <1>0, <1>7, OlderBound DEF WatchOK, NodesOK, FlagsOK, CountsOK, Tick, cores
<1>8. CASE CentralCrash \/ CentralStart
  <2>1. CASE CentralCrash
    BY <1>0, <2>1 DEF WatchOK, NodesOK, FlagsOK, CountsOK, CentralCrash, Fault, watch
  <2>2. CASE CentralStart
    BY <1>0, <2>2 DEF WatchOK, NodesOK, FlagsOK, CountsOK, CentralStart, watch
  <2> QED BY <1>8, <2>1, <2>2
<1>9. CASE LinkCut \/ LinkHeal
  BY <1>0, <1>9 DEF WatchOK, NodesOK, FlagsOK, CountsOK, LinkCut, LinkHeal, Fault, watch, cores
<1>10. CASE BackupCrash \/ BackupStart
  <2>1. CASE BackupCrash
    <3>1. /\ phase' \in [Node -> {"down", "starting", "running"}]
          /\ active' \in [Node -> BOOLEAN]
          /\ due' \in [Node -> SUBSET {"heartbeat", "lease"}]
      BY <1>0, <2>1 DEF WatchOK, NodesOK, FlagsOK, CountsOK, BackupCrash
    <3>2. /\ silence' = Unseen /\ dead' = FALSE /\ alive' = TRUE /\ record' = record
          /\ monitor' = "watching" /\ leaseAge' = Unseen /\ overtaken' = FALSE
          /\ faults' = faults + 1 /\ backupCrashes' = backupCrashes + 1
      BY <2>1 DEF BackupCrash, Fault
    <3>3. FlagsOK'
      BY <1>0, <3>2 DEF WatchOK, FlagsOK
    <3>4. CountsOK'
      BY <1>0, <3>2 DEF WatchOK, CountsOK
    <3> QED BY <3>1, <3>3, <3>4 DEF WatchOK, NodesOK
  <2>2. CASE BackupStart
    BY <1>0, <2>2 DEF WatchOK, NodesOK, FlagsOK, CountsOK, BackupStart
  <2> QED BY <1>10, <2>1, <2>2
<1>11. CASE UNCHANGED vars
  BY <1>0, <1>11 DEF WatchOK, NodesOK, FlagsOK, CountsOK, vars, watch, cores
<1> QED BY <1>1, <1>2, <1>3, <1>4, <1>5, <1>6, <1>7, <1>8, <1>9, <1>10, <1>11
        DEF Next, LeaseStep, WatchStep, TakeoverStep, FaultStep

LEMMA InitHolds ==
  ASSUME Init
  PROVE  TypeOK /\ Waiting /\ Standby /\ Caught /\ Suspects
<1> USE FailoverAssumption, Nodes
<1>1. [owner |-> Central, term |-> 1] \in Lease /\ <<>> \in Seq(Lease)
  BY LeaseMade
<1>2. BrokerOK
  BY <1>1 DEF Init, BrokerOK
<1>3. NodesOK
  BY DEF Init, NodesOK
<1>4. FlagsOK /\ CountsOK /\ attempts = {}
  <2>1. /\ silence = 0 /\ leaseAge = 0 /\ faults = 0 /\ backupCrashes = 0
        /\ attempts = {}
    BY DEF Init
  <2>2. CountsOK
    BY <2>1 DEF CountsOK
  <2>3. FlagsOK
    BY DEF Init, FlagsOK
  <2> QED BY <2>1, <2>2, <2>3
<1>5. owner \in [Node -> Node \cup {None}] /\ term \in [Node -> Nat]
  BY DEF Init
<1>6. TypeOK
  BY <1>2, <1>3, <1>4, <1>5 DEF TypeOK, BrokerOK, NodesOK, FlagsOK, CountsOK
<1>7. Waiting
  BY <1>4 DEF Waiting
<1>8. Standby
  BY DEF Init, Standby
<1>9. Caught
  BY DEF Init, Caught
<1>10. Suspects
  BY DEF Init, Suspects
<1> QED BY <1>6, <1>7, <1>8, <1>9, <1>10

LEMMA StandbyStep ==
  ASSUME TypeOK, Standby, [Next]_vars
  PROVE  Standby'
<1> USE FailoverAssumption, Nodes
<1>0. phase \in [Node -> {"down", "starting", "running"}] /\ active \in [Node -> BOOLEAN]
  BY DEF TypeOK
<1>1. CASE Claim
  BY <1>0, <1>1 DEF Standby, Claim, watch
<1>2. ASSUME NEW n \in Node, LeaseMessage(n) \/ Renew(n)
      PROVE  Standby'
  BY <1>2 DEF Standby, LeaseMessage, Renew, watch, cores
<1>3. CASE Heartbeat
  <2>1. phase' = phase /\ attempts' = attempts /\ monitor' = monitor
        /\ (phase[Backup] # "running" => active' = active)
    BY <1>3 DEF Heartbeat
  <2> QED BY <2>1 DEF Standby
<1>4. CASE DeclareDead \/ NodeFailed \/ WillArrives
  BY <1>4 DEF Standby, DeclareDead, NodeFailed, WillArrives, cores
<1>5. CASE CheckLease \/ WakeUp
  BY <1>5 DEF Standby, CheckLease, WakeUp, watch, cores
<1>6. CASE Activate
  <2>1. phase[Backup] = "running" /\ phase' = phase
    BY <1>6 DEF Standby, Activate
  <2> QED BY <2>1 DEF Standby
<1>7. CASE Tick
  BY <1>7 DEF Standby, Tick, cores
<1>8. CASE CentralCrash \/ CentralStart
  BY <1>0, <1>8 DEF Standby, CentralCrash, CentralStart, watch
<1>9. CASE LinkCut \/ LinkHeal
  BY <1>9 DEF Standby, LinkCut, LinkHeal, watch, cores
<1>10. CASE BackupCrash
  BY <1>0, <1>10 DEF Standby, BackupCrash
<1>11. CASE BackupStart
  BY <1>0, <1>11 DEF Standby, BackupStart
<1>12. CASE UNCHANGED vars
  BY <1>12 DEF Standby, vars, watch, cores
<1> QED BY <1>1, <1>2, <1>3, <1>4, <1>5, <1>6, <1>7, <1>8, <1>9, <1>10, <1>11, <1>12
        DEF Next, LeaseStep, WatchStep, TakeoverStep, FaultStep

LEMMA SuspectsStep ==
  ASSUME TypeOK, Suspects, [Next]_vars
  PROVE  Suspects'
<1> USE FailoverAssumption, Nodes
<1>0. active \in [Node -> BOOLEAN]
  BY DEF TypeOK
<1>1. CASE UNCHANGED <<active, dead, alive, overtaken>>
  BY <1>1 DEF Suspects
<1>2. CASE LeaseStep
  BY <1>1, <1>2 DEF LeaseStep, Claim, LeaseMessage, Renew, watch, cores
<1>3. CASE Heartbeat
  <2>1. CASE Connected(Central) /\ phase[Backup] = "running"
    <3>1. /\ alive' = (alive \/ dead) /\ overtaken' = (overtaken /\ ~dead)
          /\ active' = [active EXCEPT ![Backup] = CommandAfterHeartbeat]
      BY <1>3, <2>1 DEF Heartbeat
    <3>2. active'[Backup] = CommandAfterHeartbeat
      BY <1>0, <3>1
    <3> QED BY <3>1, <3>2, Zenon DEF Suspects, CommandAfterHeartbeat
  <2>2. CASE ~(Connected(Central) /\ phase[Backup] = "running")
    BY <1>1, <1>3, <2>2 DEF Heartbeat
  <2> QED BY <2>1, <2>2
<1>4. CASE DeclareDead
  BY <1>4 DEF Suspects, DeclareDead, cores
<1>5. CASE NodeFailed
  BY <1>5 DEF Suspects, NodeFailed, cores
<1>6. CASE WillArrives \/ CheckLease \/ WakeUp \/ Tick \/ LinkCut \/ LinkHeal \/ BackupStart
  BY <1>1, <1>6 DEF WillArrives, CheckLease, WakeUp, Tick, LinkCut, LinkHeal, BackupStart, watch, cores
<1>7. CASE Activate
  <2>1. overtaken' = (overtaken \/ alive) /\ dead' = dead /\ alive' = alive
    BY <1>7 DEF Activate, watch
  <2> QED BY <2>1, Zenon DEF Suspects
<1>8. CASE CentralCrash \/ CentralStart
  <2>1. /\ UNCHANGED <<dead, alive, overtaken>>
        /\ active'[Backup] = active[Backup]
    BY <1>0, <1>8 DEF CentralCrash, CentralStart, watch
  <2> QED BY <2>1 DEF Suspects
<1>9. CASE BackupCrash
  BY <1>0, <1>9 DEF Suspects, BackupCrash
<1>10. CASE UNCHANGED vars
  BY <1>1, <1>10 DEF vars, watch, cores
<1> QED BY <1>2, <1>3, <1>4, <1>5, <1>6, <1>7, <1>8, <1>9, <1>10
        DEF Next, WatchStep, TakeoverStep, FaultStep

\* What a publication leaves on its way to a backup that is up.
LEMMA PublishCaught ==
  ASSUME TypeOK, Caught, NEW n \in Node, NEW lease \in Lease, Publish(n, lease),
         phase[Backup] = "running"
  PROVE  /\ inbox'[Backup] = <<>> => retained' = retained /\ inbox[Backup] = <<>>
         /\ inbox'[Backup] # <<>> => Last(inbox'[Backup]) = retained'
<1> USE Nodes
<1>1. CASE Connected(n)
  <2>1. Connected(Backup)
    BY DEF Connected
  <2>2. retained' = lease /\ inbox'[Backup] = Append(inbox[Backup], lease)
    BY <1>1, <2>1 DEF Publish
  <2>3. inbox[Backup] \in Seq(Lease)
    BY DEF TypeOK
  <2> QED BY <2>2, <2>3, LastAppended
<1>2. CASE ~Connected(n)
  BY <1>2 DEF Publish, Caught
<1> QED BY <1>1, <1>2

LEMMA CaughtStep ==
  ASSUME TypeOK, Standby, Caught, [Next]_vars
  PROVE  Caught'
<1> USE FailoverAssumption, Nodes
<1>0. /\ term \in [Node -> Nat] /\ owner \in [Node -> Node \cup {None}] /\ retained \in Lease
      /\ inbox \in [Node -> Seq(Lease)] /\ phase \in [Node -> {"down", "starting", "running"}]
  BY DEF TypeOK
<1>a. retained.term \in Nat
  BY <1>0 DEF Lease
<1>1. CASE phase'[Backup] = phase[Backup] /\ UNCHANGED retained
           /\ inbox'[Backup] = inbox[Backup] /\ term'[Backup] = term[Backup]
  BY <1>1 DEF Caught
<1>2. CASE Claim
  <2>1. ClaimTerm \in Nat
    BY <1>0 DEF ClaimTerm
  <2>2. [owner |-> Central, term |-> ClaimTerm] \in Lease
    BY <2>1, LeaseMade
  <2>3. phase'[Backup] = phase[Backup] /\ term'[Backup] = term[Backup]
    BY <1>0, <1>2 DEF Claim
  <2>4. Publish(Central, [owner |-> Central, term |-> ClaimTerm])
    BY <1>2 DEF Claim
  <2> QED BY <2>2, <2>3, <2>4, PublishCaught DEF Caught
<1>3. ASSUME NEW n \in Node, Renew(n)
      PROVE  Caught'
  <2>1. [owner |-> owner[n], term |-> term[n]] \in Lease
    BY <1>0, LeaseMade
  <2>2. phase' = phase /\ term' = term /\ Publish(n, [owner |-> owner[n], term |-> term[n]])
    BY <1>3 DEF Renew, cores
  <2> QED BY <2>1, <2>2, PublishCaught DEF Caught
<1>4. CASE Activate
  <2>1. TakeoverTerm \in Nat /\ phase' = phase
    BY <1>0, <1>4 DEF TakeoverTerm, Activate
  <2>2. CASE active[Backup]
    BY <1>1, <1>4, <2>1, <2>2 DEF Activate, cores, broker
  <2>3. CASE ~active[Backup]
    <3>1. [owner |-> Backup, term |-> TakeoverTerm] \in Lease
      BY <2>1, LeaseMade
    <3>2. Publish(Backup, [owner |-> Backup, term |-> TakeoverTerm])
          /\ term'[Backup] = TakeoverTerm
      BY <1>0, <1>4, <2>3 DEF Activate
    <3>3. TakeoverTerm >= term[Backup]
      BY <1>0 DEF TakeoverTerm
    <3>4. term[Backup] \in Nat
      BY <1>0
    <3>5. SUFFICES ASSUME phase[Backup] = "running"
                   PROVE  Caught'
      BY <2>1 DEF Caught
    <3>6. /\ inbox'[Backup] = <<>> => retained' = retained /\ inbox[Backup] = <<>>
          /\ inbox'[Backup] # <<>> => Last(inbox'[Backup]) = retained'
      BY <3>1, <3>2, <3>5, PublishCaught
    <3> QED BY <1>a, <2>1, <3>2, <3>3, <3>4, <3>5, <3>6 DEF Caught
  <2> QED BY <2>2, <2>3
<1>5. ASSUME NEW n \in Node, LeaseMessage(n)
      PROVE  Caught'
  <2>1. phase' = phase /\ retained' = retained
    BY <1>5 DEF LeaseMessage
  <2>2. CASE n # Backup
    BY <1>0, <1>1, <1>5, <2>1, <2>2 DEF LeaseMessage
  <2>3. CASE n = Backup /\ phase[Backup] = "running"
    <3>1. inbox[Backup] \in Seq(Lease) /\ inbox[Backup] # <<>>
      BY <1>0, <1>5, <2>3 DEF LeaseMessage
    <3>2. Last(inbox[Backup]) = retained
      BY <2>3, <3>1 DEF Caught
    <3>3. inbox'[Backup] = Tail(inbox[Backup])
      BY <1>0, <1>5, <2>3 DEF LeaseMessage
    <3>4. Head(inbox[Backup]) \in Lease
      BY <3>1
    <3>5. Head(inbox[Backup]).term \in Nat /\ term[Backup] \in Nat
      BY <1>0, <3>4 DEF Lease
    <3>6. Head(inbox[Backup]).term <= term'[Backup]
      BY <1>0, <1>5, <2>3, <3>5 DEF LeaseMessage
    <3>7. CASE Tail(inbox[Backup]) = <<>>
      <4>1. Head(inbox[Backup]) = retained
        BY <3>1, <3>2, <3>7, LastAlone
      <4> QED BY <2>1, <3>3, <3>6, <3>7, <4>1 DEF Caught
    <3>8. CASE Tail(inbox[Backup]) # <<>>
      <4>1. Last(Tail(inbox[Backup])) = Last(inbox[Backup])
        BY <3>1, <3>8 DEF Last
      <4> QED BY <2>1, <3>2, <3>3, <3>8, <4>1 DEF Caught
    <3> QED BY <3>7, <3>8
  <2>4. CASE phase[Backup] # "running"
    BY <2>1, <2>4 DEF Caught
  <2> QED BY <2>2, <2>3, <2>4
<1>6. CASE LinkHeal
  <2>1. phase' = phase /\ term' = term
    BY <1>6 DEF LinkHeal, cores
  <2>2. SUFFICES ASSUME phase[Backup] = "running"
                 PROVE  Caught'
    BY <2>1 DEF Caught
  <2>3. held \in Seq(Lease) /\ inbox[Backup] \in Seq(Lease)
    BY DEF TypeOK
  <2>4. /\ retained' = IF held = <<>> THEN retained ELSE Last(held)
        /\ inbox'[Backup] = inbox[Backup] \o held
    BY <1>0, <1>6, <2>2 DEF LinkHeal
  <2>5. CASE held = <<>>
    <3>1. inbox[Backup] \o held = inbox[Backup]
      BY <2>3, <2>5
    <3> QED BY <2>1, <2>4, <2>5, <3>1 DEF Caught
  <2>6. CASE held # <<>>
    <3>1. inbox[Backup] \o held # <<>> /\ Last(inbox[Backup] \o held) = Last(held)
      BY <2>3, <2>6 DEF Last
    <3> QED BY <2>1, <2>4, <2>6, <3>1 DEF Caught
  <2> QED BY <2>5, <2>6
<1>7. CASE CentralCrash \/ CentralStart \/ LinkCut
  <2>1. CASE CentralCrash
    BY <1>0, <1>1, <2>1 DEF CentralCrash
  <2>2. CASE CentralStart
    BY <1>0, <1>1, <2>2 DEF CentralStart
  <2>3. CASE LinkCut
    BY <1>0, <1>1, <2>3 DEF LinkCut, cores
  <2> QED BY <1>7, <2>1, <2>2, <2>3
<1>8. CASE BackupCrash
  BY <1>0, <1>8 DEF BackupCrash, Caught
<1>9. CASE BackupStart
  <2>1. inbox'[Backup] = <<retained>> /\ retained' = retained
    BY <1>0, <1>9 DEF BackupStart
  <2> QED BY <2>1 DEF Caught, Last
<1>10. CASE WatchStep
  BY <1>1, <1>10 DEF WatchStep, Heartbeat, DeclareDead, NodeFailed, WillArrives, cores, broker
<1>11. CASE CheckLease \/ WakeUp \/ Tick
  BY <1>1, <1>11 DEF CheckLease, WakeUp, Tick, cores, broker
<1>12. CASE UNCHANGED vars
  BY <1>1, <1>12 DEF vars, cores, broker
<1> QED BY <1>2, <1>3, <1>4, <1>5, <1>6, <1>7, <1>8, <1>9, <1>10, <1>11, <1>12
        DEF Next, LeaseStep, TakeoverStep, FaultStep

IInv == TypeOK /\ Waiting /\ Standby /\ Caught /\ Suspects

LEMMA IInvStep ==
  ASSUME IInv, [Next]_vars
  PROVE  IInv'
<1>1. TypeOK'
  BY AttemptsStep, BrokerStep, WatchKept
     DEF IInv, TypeOK, BrokerOK, WatchOK, NodesOK, FlagsOK, CountsOK
<1>2. Waiting'
  BY AttemptsStep DEF IInv
<1> QED BY <1>1, <1>2, StandbyStep, CaughtStep, SuspectsStep DEF IInv

LEMMA Inductive == Spec => []IInv
<1>1. Init => IInv
  BY InitHolds DEF IInv
<1>2. IInv /\ [Next]_vars => IInv'
  BY IInvStep
<1> QED BY <1>1, <1>2, PTL DEF Spec

\* Every variable keeps its type; in particular no takeover waits longer than
\* LEASE_CONFIRM_MAX_WAIT_SECONDS (_become_active).
THEOREM TypeCorrect == Spec => []TypeOK
<1>1. IInv => TypeOK
  BY DEF IInv
<1> QED BY <1>1, Inductive, PTL

\* The backup commands only while it counts the primary as dead, unless a
\* heartbeat overtook its takeover (_on_node_failed, _become_active).
THEOREM CommandsForTheDead == Spec => []CommandsOnlyForTheDead
<1>1. IInv => CommandsOnlyForTheDead
  BY DEF IInv, Suspects, CommandsOnlyForTheDead
<1> QED BY <1>1, Inductive, PTL

\* A takeover outbids the retained lease (CommanderCore.activate).
THEOREM TakeoverOutbids == Spec => TakeoverRaisesTerm
<1> DEFINE Outbids == ~active[Backup] /\ active'[Backup] /\ inbox[Backup] = <<>>
                        => retained'.owner = Backup /\ retained'.term > retained.term
<1>1. ASSUME IInv, [Next]_vars
      PROVE  [Outbids]_vars
  <2> USE Nodes
  <2>0. /\ active \in [Node -> BOOLEAN] /\ term \in [Node -> Nat] /\ retained.term \in Nat
    BY <1>1 DEF IInv, TypeOK, Lease
  <2>1. CASE Activate
    <3>1. SUFFICES ASSUME ~active[Backup], inbox[Backup] = <<>>
                   PROVE  retained'.owner = Backup /\ retained'.term > retained.term
      OBVIOUS
    <3>2. phase[Backup] = "running"
      BY <1>1, <2>1 DEF IInv, Standby, Activate
    <3>3. Connected(Backup)
      BY <3>2 DEF Connected
    <3>4. retained' = [owner |-> Backup, term |-> TakeoverTerm]
      BY <2>1, <3>1, <3>3 DEF Activate, Publish
    <3>5. retained.term <= term[Backup]
      BY <1>1, <3>1, <3>2 DEF IInv, Caught
    <3>6. TakeoverTerm > term[Backup] /\ TakeoverTerm \in Nat
      BY <2>0 DEF TakeoverTerm
    <3> QED BY <2>0, <3>4, <3>5, <3>6
  <2>2. CASE active'[Backup] => active[Backup]
    BY <2>2
  <2>3. CASE LeaseStep \/ DeclareDead \/ NodeFailed \/ WillArrives
    BY <2>2, <2>3 DEF LeaseStep, Claim, LeaseMessage, Renew, DeclareDead, NodeFailed, WillArrives, cores
  <2>4. CASE Heartbeat
    <3>1. CASE active' = active
      BY <2>2, <3>1
    <3>2. CASE active' = [active EXCEPT ![Backup] = CommandAfterHeartbeat]
      BY <2>0, <2>2, <3>2 DEF CommandAfterHeartbeat
    <3> QED BY <2>4, <3>1, <3>2 DEF Heartbeat
  <2>5. CASE CheckLease \/ WakeUp \/ Tick \/ LinkCut \/ LinkHeal \/ BackupStart
    BY <2>2, <2>5 DEF CheckLease, WakeUp, Tick, LinkCut, LinkHeal, BackupStart, cores
  <2>6. CASE CentralCrash \/ CentralStart \/ BackupCrash
    BY <2>0, <2>2, <2>6 DEF CentralCrash, CentralStart, BackupCrash
  <2>7. CASE UNCHANGED vars
    BY <2>7
  <2> QED BY <1>1, <2>1, <2>3, <2>4, <2>5, <2>6, <2>7
          DEF Next, WatchStep, TakeoverStep, FaultStep
<1>2. IInv /\ [Next]_vars => [Outbids]_vars
  BY <1>1
<1> QED BY <1>2, Inductive, PTL DEF Spec, TakeoverRaisesTerm
=============================================================================
