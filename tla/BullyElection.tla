---- MODULE BullyElection ----
(***************************************************************************)
(* The bully election of the swarm leaders of one zone                     *)
(* (Swarm_Repo/core/election and the monitor of swarm_leader_node.py).     *)
(*                                                                         *)
(* One, first, is SWARM_LEAD from its start and has no election engine.    *)
(* The others start as backups that watch it. A backup has three threads:  *)
(* the MQTT thread (Receive), the monitor (Suspect, then StartSuspected)   *)
(* and the election timer (TimerExpires, then DeclareAfterTimeout). The    *)
(* broker keeps the order of one publisher's messages to one subscriber    *)
(* and no other; it keeps the last announce of each node and publishes the *)
(* will of a node that died, at once or much later. ElectionState._won is  *)
(* left out: nothing reads it.                                             *)
(***************************************************************************)
EXTENDS Naturals, FiniteSets, Sequences

CONSTANTS Leaders,        \* ids of the leaders of the zone, ordered as numbers
          Firsts,         \* those of which one starts as SWARM_LEAD
          NoNode,         \* Python's None where an id is expected
          Timely,         \* answers arrive before the election timer expires
          MaxFault        \* bound: crashes, restarts, and time-outs of a living leader

ASSUME LeadersAssumption ==
    /\ Leaders \subseteq Nat \ {0} /\ IsFiniteSet(Leaders)
    /\ Firsts \subseteq Leaders
    /\ NoNode \notin Leaders
    /\ Timely \in BOOLEAN
    /\ MaxFault \in Nat

HigherPeers(n) == {p \in Leaders : p > n}

VARIABLES
    first,       \* the leader that is not configured as a backup
    up,          \* leaders whose process runs
    election,    \* election[n]: the ElectionState and the armed timer of n
    firing,      \* firing[n]: term of a timer thread past its check, 0 if none
    suspecting,  \* backups whose monitor is past its check
    leader,      \* leader[n]: _current_leader_id
    lead,        \* leaders with the SWARM_LEAD capability
    inbox,       \* inbox[n][q]: what n has yet to process of q's messages
    retained,    \* retained[q]: term of the retained SWARM_LEAD announce, or 0
    wills,       \* dead leaders whose will the broker has not published yet
    faults,                \* crashes, restarts and false time-outs so far
    wins,        \* history: who declared victory in which term
    deferred,    \* history: whose OK n got since it last lost its leader
    restarted    \* history: backups that restarted and forgot their term

Backups == Leaders \ {first}

history == <<wins, deferred, restarted>>
vars == <<first, up, election, firing, suspecting, leader, lead, inbox,
          retained, wills, faults, history>>

\* ElectionState(initial_term = 1) and no timer.
Fresh == [term |-> 1, inElection |-> FALSE, receivedOk |-> FALSE, timer |-> 0]

Start(t)    == [type |-> "ELECTION_START", term |-> t]
Ok(t)       == [type |-> "ELECTION_OK",    term |-> t]
Win(t)      == [type |-> "ELECTION_WIN",   term |-> t]
Announce(t) == [type |-> "ANNOUNCE",       term |-> t]

Nothing == [p \in Leaders |-> <<>>]

\* All leaders run and every backup has seen the first leader's announce.
Init ==
    /\ first \in Firsts
    /\ up = Leaders
    /\ election = [n \in Leaders |-> Fresh]
    /\ firing = [n \in Leaders |-> 0]
    /\ suspecting = {}
    /\ leader = [n \in Leaders |-> IF n = first THEN NoNode ELSE first]
    /\ lead = {first}
    /\ inbox = [n \in Leaders |-> [q \in Leaders |-> <<>>]]
    /\ retained = [q \in Leaders |-> IF q = first THEN 1 ELSE 0]
    /\ wills = {}
    /\ faults = 0
    /\ wins = {}
    /\ deferred = [n \in Leaders |-> NoNode]
    /\ restarted = {}

----------------------------------------------------------------------------
\* ElectionState and the messages.

\* A newer term resets the election; the timer keeps running.
AcceptTerm(e, t) ==
    IF t > e.term THEN [e EXCEPT !.term = t, !.inElection = FALSE,
                                 !.receivedOk = FALSE]
                  ELSE e

Stale_Equal(e, t) == t <= e.term
Stale(e, t) == t < e.term

Begin_KeepsOk(e) == [e EXCEPT !.term = @ + 1, !.inElection = TRUE]
Begin(e) == [e EXCEPT !.term = @ + 1, !.inElection = TRUE,
                      !.receivedOk = FALSE]

SteppedBack_KeepsElection(e) == [e EXCEPT !.timer = 0]
SteppedBack(e) == [e EXCEPT !.inElection = FALSE, !.timer = 0]

\* The broker hands out[p] of n's messages to each subscriber p that runs.
\* The first leader subscribes too, but has no engine and drops what it gets.
Posted(box, n, out) ==
    [p \in Leaders |-> IF p \in (Backups \cap up) \ {n}
                       THEN [box[p] EXCEPT ![n] = @ \o out[p]]
                       ELSE box[p]]

Consumed(n, q) == [inbox EXCEPT ![n][q] = Tail(@)]

\* Victory is told to all peers in the term of the election; the announce
\* that follows carries the term the state has by then.
DeclareVictory(n, e, t, box, out) ==
    /\ election' = [election EXCEPT ![n] = [e EXCEPT !.inElection = FALSE]]
    /\ lead' = lead \cup {n}
    /\ retained' = [retained EXCEPT ![n] = e.term]
    /\ inbox' = Posted(box, n, [p \in Leaders |->
                                  out[p] \o <<Win(t), Announce(e.term)>>])
    /\ wins' = wins \cup {[node |-> n, term |-> t]}

\* LeaderElection.start_election from state e, after the messages of out.
StartElection(n, e, box, out) ==
    LET b == Begin(e) IN
    IF HigherPeers(n) = {}
    THEN DeclareVictory(n, b, b.term, box, out)
    ELSE /\ election' = [election EXCEPT ![n] = [b EXCEPT !.timer = b.term]]
         /\ inbox' = Posted(box, n, [p \in Leaders |->
                        IF p \in HigherPeers(n)
                        THEN Append(out[p], Start(b.term)) ELSE out[p]])
         /\ UNCHANGED <<lead, retained, wins>>

----------------------------------------------------------------------------
\* The monitor thread.

\* With Timely, a thread past its check acts before any clock runs out.
Acted == suspecting = {} /\ \A n \in Backups : firing[n] = 0

Fault == faults < MaxFault /\ faults' = faults + 1

\* More than hb_timeout without a heartbeat of the node n takes for its leader.
Suspect(n) ==
    /\ n \in up \ suspecting
    /\ Timely => Acted
    /\ leader[n] # NoNode
    /\ ~election[n].inElection
    /\ \/ leader[n] \notin up /\ UNCHANGED faults
       \/ leader[n] \in up /\ Fault
    /\ suspecting' = suspecting \cup {n}
    /\ UNCHANGED <<first, up, election, firing, leader, lead, inbox, retained,
                   wills, history>>

\* It forgets the leader, whoever that is by now, and starts an election.
StartSuspected(n) ==
    /\ n \in suspecting
    /\ suspecting' = suspecting \ {n}
    /\ leader' = [leader EXCEPT ![n] = NoNode]
    /\ StartElection(n, election[n], inbox, Nothing)
    /\ deferred' = [deferred EXCEPT ![n] = NoNode]
    /\ UNCHANGED <<first, up, firing, wills, faults, restarted>>

----------------------------------------------------------------------------
\* The timer thread.

\* With Timely, no question of n and no message to n is still on its way.
Answered(n) ==
    \A p \in HigherPeers(n) \cap Backups :
        inbox[n][p] = <<>> /\ inbox[p][n] = <<>>

TimerExpires(n) ==
    /\ n \in up
    /\ election[n].timer # 0
    /\ firing[n] = 0
    /\ Timely => Answered(n) /\ Acted
    /\ election' = [election EXCEPT ![n].timer = 0]
    /\ firing' = [firing EXCEPT ![n] =
                    IF election[n].inElection /\ ~election[n].receivedOk
                    THEN election[n].timer ELSE 0]
    /\ UNCHANGED <<first, up, suspecting, leader, lead, inbox, retained, wills,
                   faults, history>>

\* The check is past: victory in the term the timer was armed with.
DeclareAfterTimeout(n) ==
    /\ firing[n] # 0
    /\ firing' = [firing EXCEPT ![n] = 0]
    /\ DeclareVictory(n, election[n], firing[n], inbox, Nothing)
    /\ UNCHANGED <<first, up, suspecting, leader, wills, faults,
                   deferred, restarted>>

----------------------------------------------------------------------------
\* The MQTT thread.

Incoming(n, q, type) ==
    /\ n \in up
    /\ inbox[n][q] # <<>>
    /\ Head(inbox[n][q]).type = type

\* A message of an older term than n's is dropped.
ReceiveStale(n, q) ==
    /\ n \in up
    /\ inbox[n][q] # <<>>
    /\ Head(inbox[n][q]).type # "ANNOUNCE"
    /\ Stale(election[n], Head(inbox[n][q]).term)
    /\ inbox' = Consumed(n, q)
    /\ UNCHANGED <<first, up, election, firing, suspecting, leader, lead,
                   retained, wills, faults, history>>

\* START of a lower peer: answer in its term, and start an election of one's
\* own unless one is running.  Only lower peers send START.
ReceiveStart(n, q) ==
    /\ Incoming(n, q, "ELECTION_START")
    /\ LET t == Head(inbox[n][q]).term
           e == AcceptTerm(election[n], t)
           out == [Nothing EXCEPT ![q] = <<Ok(t)>>]
       IN /\ ~Stale(election[n], t)
          /\ IF e.inElection
             THEN /\ election' = [election EXCEPT ![n] = e]
                  /\ inbox' = Posted(Consumed(n, q), n, out)
                  /\ UNCHANGED <<lead, retained, wins>>
             ELSE StartElection(n, e, Consumed(n, q), out)
    /\ UNCHANGED <<first, up, firing, suspecting, leader, wills, faults,
                   deferred, restarted>>

ReceiveOk_NotYet(n, q) ==
    /\ Incoming(n, q, "ELECTION_OK")
    /\ inbox' = Consumed(n, q)
    /\ election' = [election EXCEPT ![n] =
                      AcceptTerm(@, Head(inbox[n][q]).term)]
    /\ deferred' = [deferred EXCEPT ![n] = q]
    /\ UNCHANGED <<first, up, firing, suspecting, leader, lead, retained,
                   wills, faults, wins, restarted>>

\* OK of a higher peer: step back and leave the election to it.
ReceiveOk(n, q) ==
    /\ Incoming(n, q, "ELECTION_OK")
    /\ LET t == Head(inbox[n][q]).term
           e == AcceptTerm(election[n], t)
       IN /\ ~Stale(election[n], t)
          /\ election' = [election EXCEPT ![n] =
                            [SteppedBack(e) EXCEPT !.receivedOk = TRUE]]
    /\ inbox' = Consumed(n, q)
    /\ deferred' = [deferred EXCEPT ![n] = q]
    /\ UNCHANGED <<first, up, firing, suspecting, leader, lead, retained,
                   wills, faults, wins, restarted>>

\* WIN of a peer: step back.  A leader elected earlier keeps SWARM_LEAD.
ReceiveWin(n, q) ==
    /\ Incoming(n, q, "ELECTION_WIN")
    /\ LET t == Head(inbox[n][q]).term
       IN /\ ~Stale(election[n], t)
          /\ election' = [election EXCEPT ![n] =
                            SteppedBack(AcceptTerm(election[n], t))]
    /\ inbox' = Consumed(n, q)
    /\ UNCHANGED <<first, up, firing, suspecting, leader, lead, retained,
                   wills, faults, history>>

\* A SWARM_LEAD announce, ONLINE or OFFLINE, makes its node the leader.
ReceiveAnnounce(n, q) ==
    /\ Incoming(n, q, "ANNOUNCE")
    /\ leader' = [leader EXCEPT ![n] = q]
    /\ election' = [election EXCEPT ![n] =
                      AcceptTerm(@, Head(inbox[n][q]).term)]
    /\ inbox' = Consumed(n, q)
    /\ deferred' = [deferred EXCEPT ![n] = NoNode]
    /\ UNCHANGED <<first, up, firing, suspecting, lead, retained, wills,
                   faults, wins, restarted>>

Receive(n, q) ==
    \/ ReceiveStale(n, q)
    \/ ReceiveStart(n, q)
    \/ ReceiveOk(n, q)
    \/ ReceiveWin(n, q)
    \/ ReceiveAnnounce(n, q)

----------------------------------------------------------------------------
\* Crashes and restarts.

Crash(n) ==
    /\ n \in up
    /\ Fault
    /\ up' = up \ {n}
    /\ lead' = lead \ {n}
    /\ suspecting' = suspecting \ {n}
    /\ firing' = [m \in Leaders |-> IF m = n THEN 0 ELSE firing[m]]
    /\ election' = [m \in Leaders |-> IF m = n THEN Fresh ELSE election[m]]
    /\ leader' = [m \in Leaders |-> IF m = n THEN NoNode ELSE leader[m]]
    /\ inbox' = [m \in Leaders |-> IF m = n THEN [q \in Leaders |-> <<>>]
                                            ELSE inbox[m]]
    /\ wills' = wills \cup {n}
    /\ UNCHANGED <<first, retained, wins, deferred, restarted>>

\* The will was written at connect, with the capabilities of that moment:
\* the first leader's says SWARM_LEAD, an elected leader's LEADER_BACKUP.
WillFires(n) ==
    /\ n \in wills
    /\ wills' = wills \ {n}
    /\ retained' = [retained EXCEPT ![n] = IF n = first THEN 1 ELSE 0]
    /\ inbox' = IF n = first
                THEN Posted(inbox, n, [p \in Leaders |-> <<Announce(1)>>])
                ELSE inbox
    /\ UNCHANGED <<first, up, election, firing, suspecting, leader, lead,
                   faults, history>>

\* The broker publishes a will before it lets the same client in again.  A
\* backup gets the retained announces; the first leader sends its own.
Restart(n) ==
    /\ n \notin up \cup wills
    /\ Fault
    /\ up' = up \cup {n}
    /\ IF n = first
       THEN /\ lead' = lead \cup {n}
            /\ inbox' = Posted(inbox, n, [p \in Leaders |-> <<Announce(1)>>])
            /\ UNCHANGED restarted
       ELSE /\ inbox' = [inbox EXCEPT ![n] =
                           [q \in Leaders |-> IF retained[q] = 0 THEN <<>>
                                              ELSE <<Announce(retained[q])>>]]
            /\ restarted' = restarted \cup {n}
            /\ UNCHANGED lead
    /\ UNCHANGED <<first, election, firing, suspecting, leader, retained,
                   wills, wins, deferred>>

----------------------------------------------------------------------------
Next ==
    \/ \E n \in Backups : Suspect(n) \/ StartSuspected(n)
                          \/ TimerExpires(n) \/ DeclareAfterTimeout(n)
    \/ \E n \in Backups, q \in Leaders : Receive(n, q)
    \/ \E n \in Leaders : Crash(n) \/ WillFires(n) \/ Restart(n)

Spec == Init /\ [][Next]_vars

\* Work that the threads and the broker owe: all but crashes, restarts and
\* time-outs of a living leader.
Progress ==
    \/ \E n \in Backups :
          \/ leader[n] \notin up /\ Suspect(n)
          \/ StartSuspected(n) \/ TimerExpires(n) \/ DeclareAfterTimeout(n)
          \/ \E q \in Leaders : Receive(n, q)
    \/ \E n \in Leaders : WillFires(n)

\* As long as work is owed some of it gets done: less than that every thread
\* runs, and enough because the elections of finitely many faults end.
FairSpec == Spec /\ WF_vars(Progress)

----------------------------------------------------------------------------
\* Properties.

Terms == Nat
Message == [type : {"ELECTION_START", "ELECTION_OK", "ELECTION_WIN",
                    "ANNOUNCE"}, term : Terms]

\* Every variable has its type; a backup in an election has not heard OK, and
\* an armed timer has the term of no later election (ElectionState and _timer).
TypeOK ==
    /\ first \in Firsts
    /\ up \subseteq Leaders /\ lead \subseteq up
    /\ suspecting \subseteq Backups \cap up
    /\ wills \subseteq Leaders \ up
    /\ election \in [Leaders -> [term : Terms, inElection : BOOLEAN,
                                 receivedOk : BOOLEAN, timer : Terms]]
    /\ \A n \in Backups :
          /\ ~(election[n].inElection /\ election[n].receivedOk)
          /\ election[n].timer <= election[n].term
    /\ firing \in [Leaders -> Terms]
    /\ leader \in [Leaders -> Leaders \cup {NoNode}]
    /\ \A n \in Backups : leader[n] # n
    /\ inbox \in [Leaders -> [Leaders -> Seq(Message)]]
    /\ retained \in [Leaders -> Terms]

\* A term has one winner: two nodes tell the zone that they won the same
\* election only if one of them restarted and forgot its term (ElectionState
\* is not persisted).  start_election, accept_term and the OK see to it.
OneWinnerPerTerm ==
    \A v, w \in wins :
        v.term = w.term /\ v.node # w.node =>
            v.node \in restarted \/ w.node \in restarted

\* A node that wins by time-out overrides nobody who is in the same election:
\* each higher peer that has run all the while is in a later term already, even
\* if it dropped the question as stale and never answered (_timeout_handler,
\* on_election_message).
TimeoutOverridesNobody ==
    [][\A n \in Backups : DeclareAfterTimeout(n) =>
         \A p \in (HigherPeers(n) \cap Backups \cap up) \ restarted :
             election[p].term > firing[n]]_vars

\* A backup without a leader that may never look for one: it restarted at some
\* time (it need not be that it found no retained announce then), or it obeyed the
\* OK of a peer that then died or restarted.
Stranded(n) ==
    /\ leader[n] = NoNode
    /\ n \in restarted \/ deferred[n] \in (Backups \ up) \cup restarted

\* A backup follows a node that led before it restarted as a backup: its
\* heartbeats are as good as a leader's, so it is never timed out.
Misled(n) == leader[n] \in restarted \cap up

\* Once the faults stop, every running backup leads, follows a running leader,
\* or is misled or stranded by an earlier crash (monitor, election and
\* announces together).
Settles ==
    <>[](\A n \in Backups \cap up :
            \/ n \in lead
            \/ leader[n] \in lead
            \/ Misled(n)
            \/ Stranded(n))
====
