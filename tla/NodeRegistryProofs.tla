------------------------- MODULE NodeRegistryProofs -------------------------
(***************************************************************************)
(* Proofs about NodeRegistry, for every set of leaders and fires and every *)
(* bound: types, and that a death is not reported twice.                   *)
(***************************************************************************)
EXTENDS NodeRegistry, TLAPS, FiniteSetTheorems

\* What a thread holds at each of its stages, with the records as they are.
Placed(w, recs) ==
  /\ w.at \notin {"idle", "available", "after", "choose"} => w.node \in Node
  /\ w.at \in {"beatStore", "offStore", "offSave", "releaseStore", "bookStore"} => w.copy \in Record
  /\ w.at \in {"release", "releaseStore", "choose", "book", "bookStore", "booked"} => w.fire \in Fire
  /\ w.at \in {"beat", "offStore", "release", "releaseStore", "book", "booked"} => recs[w.node] # Unknown

WorkOK == work \in [Thread -> Activity] /\ \A t \in Thread : Placed(work[t], nodes)

StoresOK ==
  /\ nodes \in [Node -> Record \cup {Unknown}] /\ row \in [Node -> Record \cup {Unknown}]
  /\ \A n \in Node : nodes[n] # Unknown => row[n] # Unknown

LeadOK ==
  /\ lead \in [Fire -> Node \cup {Nobody, Unlit, Out}]
  /\ \A f \in Fire : lead[f] \in Node => nodes[lead[f]] # Unknown

\* The stages between Hear and After, but for a dispatch in between.
Beating == {"seen", "beat", "beatStore", "available", "after"}

BeatOK ==
  /\ beat \in Node \cup {Nobody} /\ wasDead \in BOOLEAN
  /\ wasDead => beat \in dead
  /\ work["paho"].at \in Beating => beat \in Node
  /\ work["paho"].at = "seen" => work["paho"].node = beat

WatchOK == lastSeen \in [Node -> {"absent", "fresh", "late"}] /\ dead \subseteq Node

MailOK == /\ up \subseteq Node /\ inbox \in Seq(Message)
          /\ announced \in [Node -> {"none", "ONLINE", "OFFLINE"}]

GhostOK == zombie \subseteq Node /\ orphaned \subseteq Node /\ faults \in 0 .. MaxFault

\* The monitor has declared n dead and has not reported it yet.
Reporting == {"off", "offStore", "offSave", "failed"}
Pending(n) == work["monitor"].node = n /\ work["monitor"].at \in Reporting

\* Reports and recoveries differ by whether the node counts as dead, less the
\* report that is still to come.
Account ==
  /\ reports \in [Node -> Int]
  /\ \A n \in Node :
       reports[n] = (IF n \in dead THEN 1 ELSE 0) - (IF Pending(n) THEN 1 ELSE 0)

IInv == WorkOK /\ StoresOK /\ LeadOK /\ BeatOK /\ WatchOK /\ MailOK /\ GhostOK /\ Account

LEMMA Types == IInv => TypeOK /\ ReportsAlternate
<1> SUFFICES ASSUME IInv PROVE TypeOK /\ ReportsAlternate
  OBVIOUS
<1>1. reports \in [Node -> Int] /\ \A n \in Node : reports[n] \in -1 .. 1
  BY DEF IInv, Account
<1> QED BY <1>1 DEF IInv, WorkOK, StoresOK, LeadOK, BeatOK, WatchOK, MailOK, GhostOK, TypeOK, ReportsAlternate

-----------------------------------------------------------------------------
(* How a thread moves.                                                     *)

\* Thread t is at stage a with node n, copy c and fire f; the others are where
\* they were.
Moves(t, a, n, c, f) ==
  /\ work' \in [Thread -> Activity]
  /\ work'[t].at = a /\ work'[t].node = n /\ work'[t].copy = c /\ work'[t].fire = f
  /\ \A u \in Thread \ {t} : work'[u] = work[u]

LEMMA Fields ==
  ASSUME WorkOK, NEW t \in Thread
  PROVE  /\ work[t].node \in Node \cup {Nobody} /\ work[t].copy \in Record \cup {Unknown}
         /\ work[t].fire \in Fire \cup {NoFire} /\ work[t].at \in Stage
         /\ Placed(work[t], nodes)
BY DEF WorkOK, Activity

LEMMA DoMoves ==
  ASSUME WorkOK, NEW t \in Thread, NEW a \in Stage, NEW n \in Node \cup {Nobody},
         NEW c \in Record \cup {Unknown}, NEW f \in Fire \cup {NoFire}, Do(t, a, n, c, f)
  PROVE  Moves(t, a, n, c, f)
BY DEF WorkOK, Moves, Activity, Do

LEMMA GotoMoves ==
  ASSUME WorkOK, NEW t \in Thread, NEW a \in Stage, Goto(t, a)
  PROVE  Moves(t, a, work[t].node, work[t].copy, work[t].fire)
BY Fields, DoMoves DEF Goto

LEMMA DropMoves ==
  ASSUME WorkOK, NEW t \in Thread, NEW a \in Stage, Drop(t, a)
  PROVE  Moves(t, a, work[t].node, Unknown, work[t].fire)
BY Fields, DoMoves DEF Drop

LEMMA ReturnMoves ==
  ASSUME WorkOK, NEW t \in Thread, Return(t)
  PROVE  Moves(t, "idle", Nobody, Unknown, NoFire)
BY DoMoves DEF Return, Stage

\* No record is forgotten.
Keeps == \A n \in Node : nodes[n] # Unknown => nodes'[n] # Unknown

\* What a thread holds stays good as long as no record is forgotten.
LEMMA PlacedStays ==
  ASSUME WorkOK, Keeps, NEW t \in Thread
  PROVE  Placed(work[t], nodes')
<1>1. Placed(work[t], nodes)
  BY DEF WorkOK
<1> QED BY <1>1 DEF Placed, Keeps

LEMMA WorkMoves ==
  ASSUME WorkOK, Keeps, NEW t \in Thread, NEW a, NEW n, NEW c, NEW f, Moves(t, a, n, c, f),
         a \notin {"idle", "available", "after", "choose"} => n \in Node,
         a \in {"beatStore", "offStore", "offSave", "releaseStore", "bookStore"} => c \in Record,
         a \in {"release", "releaseStore", "choose", "book", "bookStore", "booked"} => f \in Fire,
         a \in {"beat", "offStore", "release", "releaseStore", "book", "booked"} => nodes'[n] # Unknown
  PROVE  WorkOK'
<1>1. \A u \in Thread \ {t} : Placed(work'[u], nodes')
  BY PlacedStays DEF Moves
<1>2. Placed(work'[t], nodes')
  BY DEF Moves, Placed
<1> QED BY <1>1, <1>2 DEF WorkOK, Moves

LEMMA PendingMoves ==
  ASSUME WorkOK, NEW t \in Thread, NEW a, NEW n, NEW c, NEW f, Moves(t, a, n, c, f),
         t = "monitor" => /\ (a \in Reporting <=> work[t].at \in Reporting)
                          /\ (a \in Reporting => n = work[t].node)
  PROVE  \A m \in Node : Pending(m)' <=> Pending(m)
BY DEF Moves, Pending, Thread

\* What stays good by itself.
LEMMA Frame ==
  ASSUME IInv
  PROVE  /\ UNCHANGED nodes => Keeps
         /\ UNCHANGED work /\ Keeps => WorkOK'
         /\ UNCHANGED registry => StoresOK'
         /\ UNCHANGED lead /\ Keeps => LeadOK'
         /\ UNCHANGED watch => WatchOK'
         /\ UNCHANGED <<up, inbox, announced>> => MailOK'
         /\ UNCHANGED <<zombie, orphaned, faults>> => GhostOK'
         /\ UNCHANGED <<beat, wasDead, dead, work>> => BeatOK'
         /\ UNCHANGED <<reports, dead, work>> => Account'
<1> USE DEF IInv
<1>1. UNCHANGED nodes => Keeps
  BY DEF Keeps
<1>2. UNCHANGED work /\ Keeps => WorkOK'
  BY PlacedStays DEF WorkOK
<1>3. UNCHANGED registry => StoresOK'
  BY DEF registry, StoresOK
<1>4. UNCHANGED lead /\ Keeps => LeadOK'
  BY DEF LeadOK, Keeps
<1>5. UNCHANGED watch => WatchOK'
  BY DEF watch, WatchOK
<1>6. UNCHANGED <<up, inbox, announced>> => MailOK'
  BY DEF MailOK
<1>7. UNCHANGED <<zombie, orphaned, faults>> => GhostOK'
  BY DEF GhostOK
<1>8. UNCHANGED <<beat, wasDead, dead, work>> => BeatOK'
  BY DEF BeatOK
<1>9. UNCHANGED <<reports, dead, work>> => Account'
  BY DEF Account, Pending
<1> QED BY <1>1, <1>2, <1>3, <1>4, <1>5, <1>6, <1>7, <1>8, <1>9

LEMMA BeatMoves ==
  ASSUME BeatOK, UNCHANGED <<beat, wasDead, dead>>, NEW t \in Thread,
         NEW a, NEW n, NEW c, NEW f, Moves(t, a, n, c, f),
         t = "paho" => /\ a # "seen" /\ (a \in Beating => beat \in Node)
  PROVE  BeatOK'
BY DEF BeatOK, Moves, Thread

LEMMA AccountMoves ==
  ASSUME IInv, UNCHANGED <<reports, dead>>, NEW t \in Thread,
         NEW a, NEW n, NEW c, NEW f, Moves(t, a, n, c, f),
         t = "monitor" => /\ (a \in Reporting <=> work[t].at \in Reporting)
                          /\ (a \in Reporting => n = work[t].node)
  PROVE  Account'
<1>1. \A m \in Node : Pending(m)' <=> Pending(m)
  BY PendingMoves DEF IInv
<1> QED BY <1>1 DEF Account, IInv

\* A step of one thread that leaves the beat and the reports alone.
LEMMA ThreadStep ==
  ASSUME IInv, Keeps, NEW t \in Thread, NEW a, NEW n, NEW c, NEW f, Moves(t, a, n, c, f),
         a \notin {"idle", "available", "after", "choose"} => n \in Node,
         a \in {"beatStore", "offStore", "offSave", "releaseStore", "bookStore"} => c \in Record,
         a \in {"release", "releaseStore", "choose", "book", "bookStore", "booked"} => f \in Fire,
         a \in {"beat", "offStore", "release", "releaseStore", "book", "booked"} => nodes'[n] # Unknown,
         t = "monitor" => /\ (a \in Reporting <=> work[t].at \in Reporting)
                          /\ (a \in Reporting => n = work[t].node),
         t = "paho" => /\ a # "seen" /\ (a \in Beating => beat \in Node),
         UNCHANGED <<beat, wasDead, dead, reports>>,
         StoresOK', LeadOK', WatchOK', MailOK', GhostOK'
  PROVE  IInv'
<1>1. WorkOK'
  BY WorkMoves DEF IInv
<1>2. BeatOK'
  BY BeatMoves DEF IInv
<1>3. Account'
  BY AccountMoves
<1> QED BY <1>1, <1>2, <1>3 DEF IInv

\* A record is stored, and saved or known already.
LEMMA Stored ==
  ASSUME IInv, NEW n \in Node, NEW r \in Record,
         nodes' = [nodes EXCEPT ![n] = r],
         \/ row' = [row EXCEPT ![n] = nodes'[n]]
         \/ row' = row /\ nodes[n] # Unknown
  PROVE  StoresOK' /\ Keeps /\ nodes'[n] # Unknown
<1>1. r # Unknown
  BY RegistryAssumption
<1>2. nodes'[n] = r
  BY DEF IInv, StoresOK
<1> QED BY <1>1, <1>2 DEF IInv, StoresOK, Keeps

\* A message is sent.
LEMMA Published ==
  ASSUME IInv, NEW n \in Node, NEW s \in {"ONLINE", "OFFLINE"}, Publish(n, s), up' \subseteq Node
  PROVE  MailOK'
<1>1. [kind |-> s, node |-> n] \in Message
  BY DEF Message
<1>2. inbox' \in Seq(Message)
  BY <1>1 DEF IInv, MailOK, Publish
<1> QED BY <1>2 DEF IInv, MailOK, Publish

\* A message is taken.
LEMMA Taken ==
  ASSUME IInv, NEW k, NEW n, NextIs(k, n), inbox' = Tail(inbox), UNCHANGED <<up, announced>>
  PROVE  MailOK' /\ n \in Node
<1>1. inbox' \in Seq(Message) /\ Head(inbox) \in Message
  BY DEF IInv, MailOK, NextIs
<1>2. n \in Node
  BY <1>1 DEF NextIs, Message
<1> QED BY <1>1, <1>2 DEF IInv, MailOK

LEMMA ReadStep ==
  ASSUME IInv, NEW t \in Thread, NEW a \in {"beatStore", "offStore", "releaseStore", "bookStore"},
         Read(t, a), work[t].node \in Node, nodes[work[t].node] # Unknown,
         a \in {"releaseStore", "bookStore"} => work[t].fire \in Fire,
         a = "beatStore" => t = "paho" /\ beat \in Node,
         a = "offStore" <=> work[t].at = "off",
         work[t].at \notin {"offStore", "offSave", "failed"}
  PROVE  IInv'
<1> DEFINE n == work[t].node
<1>1. nodes[n] \in Record /\ Keeps
  BY Frame DEF IInv, StoresOK, Read, registry
<1>2. Moves(t, a, n, nodes[n], work[t].fire)
  BY <1>1, Fields, DoMoves DEF Read, IInv, Stage
<1>3. StoresOK' /\ LeadOK' /\ WatchOK' /\ MailOK' /\ GhostOK'
  BY <1>1, Frame DEF Read, ghosts, registry, watch
<1>4. t = "monitor" => (a \in Reporting <=> work[t].at \in Reporting)
  BY DEF Reporting
<1> QED BY <1>1, <1>2, <1>3, <1>4, ThreadStep DEF Read, ghosts, watch, registry, Beating

-----------------------------------------------------------------------------
(* The paho thread.                                                        *)

LEMMA HearKeeps == ASSUME IInv, NEW n \in Node, Hear(n) PROVE IInv'
<1>1. Moves("paho", "seen", n, Unknown, NoFire)
  BY DoMoves DEF Hear, IInv, Stage, Thread
<1>2. Keeps /\ StoresOK' /\ LeadOK' /\ WatchOK'
  BY Frame DEF Hear, registry, watch
<1>3. MailOK'
  BY Taken DEF Hear
<1>4. WorkOK'
  BY <1>1, <1>2, WorkMoves DEF IInv, Thread
<1>5. BeatOK'
  <2>1. beat' = n /\ wasDead' = (n \in dead) /\ dead' = dead
    BY DEF Hear, watch
  <2>2. wasDead' \in BOOLEAN
    BY <2>1
  <2>3. wasDead' => beat' \in dead'
    BY <2>1
  <2> QED BY <1>1, <2>1, <2>2, <2>3 DEF BeatOK, Moves
<1>6. GhostOK'
  BY DEF IInv, GhostOK, Hear
<1>7. Account'
  BY <1>1, AccountMoves DEF Hear, watch, Thread
<1> QED BY <1>2, <1>3, <1>4, <1>5, <1>6, <1>7 DEF IInv

LEMMA SeenKeeps == ASSUME IInv, Seen PROVE IInv'
<1>1. beat \in Node /\ work["paho"].node = beat
  BY DEF Seen, At, IInv, BeatOK, Beating
<1> DEFINE a == IF Known(beat) THEN "beat" ELSE "after"
<1>2. Moves("paho", a, work["paho"].node, work["paho"].copy, work["paho"].fire)
  BY GotoMoves DEF Seen, IInv, Stage, Thread
<1>3. Keeps /\ StoresOK' /\ LeadOK' /\ MailOK' /\ GhostOK'
  BY Frame DEF Seen, registry, ghosts
<1>4. WatchOK'
  BY <1>1 DEF Seen, IInv, WatchOK
<1>5. a \in {"beat", "after"} /\ (a = "beat" => nodes'[beat] # Unknown)
  BY DEF Known, Seen, registry
<1> HIDE DEF a
<1> QED BY <1>1, <1>2, <1>3, <1>4, <1>5, ThreadStep DEF Seen, ghosts, Thread

LEMMA BeatReadKeeps == ASSUME IInv, BeatRead PROVE IInv'
<1>1. Placed(work["paho"], nodes) /\ work["paho"].at = "beat"
  BY Fields DEF IInv, BeatRead, At, Thread
<1>2. beat \in Node
  BY <1>1 DEF IInv, BeatOK, Beating
<1> QED BY <1>1, <1>2, ReadStep DEF BeatRead, Placed, Thread

LEMMA BeatStoreKeeps == ASSUME IInv, BeatStore PROVE IInv'
<1> DEFINE n == work["paho"].node
           copy == work["paho"].copy
           a == IF copy.status = "ACTIVE" THEN "after" ELSE "available"
<1>1. n \in Node /\ copy \in Record /\ beat \in Node
  BY Fields DEF IInv, BeatStore, At, Thread, Placed, BeatOK, Beating
<1>2. Beaten(copy) \in Record
  BY <1>1 DEF Beaten, Record
<1>3. StoresOK' /\ Keeps
  BY <1>1, <1>2, Stored DEF BeatStore, Store, Save
<1>4. Moves("paho", a, n, Unknown, work["paho"].fire)
  BY DropMoves DEF BeatStore, IInv, Stage, Thread
<1>5. LeadOK' /\ WatchOK' /\ MailOK'
  BY <1>3, Frame DEF BeatStore, Store
<1>6. GhostOK'
  BY <1>1 DEF IInv, GhostOK, BeatStore, Store, Revived
<1>7. a \in {"after", "available"}
  OBVIOUS
<1> HIDE DEF a, copy, n
<1> QED BY <1>1, <1>3, <1>4, <1>5, <1>6, <1>7, ThreadStep DEF BeatStore, Store, watch, Thread

LEMMA AvailableKeeps == ASSUME IInv, Available PROVE IInv'
<1>1. beat \in Node
  BY DEF IInv, Available, At, BeatOK, Beating
<1>2. Keeps /\ StoresOK' /\ LeadOK' /\ MailOK' /\ GhostOK' /\ WatchOK'
  BY Frame DEF Available, registry, ghosts
<1>3. CASE \E f \in Fire : lead[f] = Nobody
  <2>1. PICK f \in Fire : Do("paho", "choose", beat, Unknown, f)
    BY <1>3 DEF Available
  <2>2. Moves("paho", "choose", beat, Unknown, f)
    BY <1>1, <2>1, DoMoves DEF IInv, Stage, Thread
  <2> QED BY <1>1, <1>2, <2>2, ThreadStep DEF Available, ghosts, watch, Thread, Beating
<1>4. CASE ~ \E f \in Fire : lead[f] = Nobody
  <2>1. Moves("paho", "after", work["paho"].node, work["paho"].copy, work["paho"].fire)
    BY <1>4, GotoMoves DEF Available, IInv, Stage, Thread
  <2> QED BY <1>1, <1>2, <2>1, ThreadStep DEF Available, ghosts, watch, Thread
<1> QED BY <1>3, <1>4

\* The recovery is reported of a node that counts as dead, and no more after.
LEMMA AfterKeeps == ASSUME IInv, After PROVE IInv'
<1>1. beat \in Node
  BY DEF IInv, After, At, BeatOK, Beating
<1>2. Moves("paho", "idle", Nobody, Unknown, NoFire)
  BY ReturnMoves DEF IInv, After, Thread
<1>3. Keeps /\ StoresOK' /\ LeadOK' /\ GhostOK'
  BY Frame DEF After, registry
<1>4. WorkOK'
  BY <1>2, <1>3, WorkMoves DEF IInv, Thread
<1>5. BeatOK'
  BY <1>2 DEF After, BeatOK, Moves, Beating
<1>6. WatchOK'
  BY DEF After, IInv, WatchOK
<1>7. MailOK'
  <2>1. CASE RecoveredNow /\ Known(beat)
    BY <1>1, <2>1, Published DEF After, IInv, MailOK
  <2>2. CASE ~(RecoveredNow /\ Known(beat))
    BY <2>2, Frame DEF After
  <2> QED BY <2>1, <2>2
<1>8. Account'
  <2>1. \A m \in Node : Pending(m)' <=> Pending(m)
    BY <1>2, PendingMoves DEF IInv, Thread
  <2>2. CASE wasDead
    <3>1. beat \in dead /\ dead' = dead \ {beat} /\ reports' = [reports EXCEPT ![beat] = @ - 1]
      BY <2>2 DEF After, RecoveredNow, IInv, BeatOK
    <3> QED BY <1>1, <2>1, <3>1 DEF Account, IInv
  <2>3. CASE ~wasDead
    <3>1. dead' = dead /\ reports' = reports
      BY <2>3 DEF After, RecoveredNow
    <3> QED BY <2>1, <3>1 DEF Account, IInv
  <2> QED BY <2>2, <2>3
<1> QED BY <1>3, <1>4, <1>5, <1>6, <1>7, <1>8 DEF IInv

LEMMA HearOnlineKeeps == ASSUME IInv, NEW n \in Node, HearOnline(n) PROVE IInv'
<1>1. nodes[n] \in Record \cup {Unknown}
  BY DEF IInv, StoresOK
<1>2. Moves("paho", "register", n, nodes[n], NoFire)
  BY <1>1, DoMoves DEF HearOnline, IInv, Stage, Thread
<1>3. Keeps /\ StoresOK' /\ LeadOK' /\ WatchOK' /\ GhostOK' /\ MailOK'
  BY Frame, Taken DEF HearOnline, registry, watch, ghosts
<1> QED BY <1>2, <1>3, ThreadStep DEF HearOnline, watch, ghosts, Thread, Beating

LEMMA RegisterKeeps == ASSUME IInv, Register PROVE IInv'
<1> DEFINE n == work["paho"].node
           copy == work["paho"].copy
<1>1. n \in Node /\ copy \in Record \cup {Unknown}
  BY Fields DEF IInv, Register, At, Thread, Placed
<1>2. Registered(copy) \in Record
  BY <1>1 DEF Registered, Record
<1>3. StoresOK' /\ Keeps
  BY <1>1, <1>2, Stored DEF Register, Store, Save
<1>4. Moves("paho", "idle", Nobody, Unknown, NoFire)
  BY ReturnMoves DEF Register, IInv, Thread
<1>5. LeadOK' /\ WatchOK' /\ MailOK'
  BY <1>3, Frame DEF Register, Store
<1>6. GhostOK'
  BY <1>1 DEF IInv, GhostOK, Register, Store, Revived
<1> QED BY <1>3, <1>4, <1>5, <1>6, ThreadStep DEF Register, Store, watch, Thread, Beating

LEMMA HearOfflineKeeps == ASSUME IInv, NEW n \in Node, HearOffline(n) PROVE IInv'
<1>1. Keeps /\ StoresOK' /\ LeadOK' /\ WatchOK' /\ GhostOK' /\ MailOK'
  BY Frame, Taken DEF HearOffline, registry, watch, ghosts
<1>2. CASE Known(n)
  <2>1. Moves("paho", "off", n, Unknown, NoFire)
    BY <1>2, DoMoves DEF HearOffline, IInv, Stage, Thread
  <2> QED BY <1>1, <2>1, ThreadStep DEF HearOffline, watch, ghosts, Thread, Beating
<1>3. CASE ~Known(n)
  BY <1>1, <1>3, Frame DEF HearOffline, watch, ghosts, IInv
<1> QED BY <1>2, <1>3

-----------------------------------------------------------------------------
(* mark_offline, and the monitor.                                          *)

LEMMA OffReadKeeps == ASSUME IInv, NEW t \in Thread, OffRead(t) PROVE IInv'
<1>1. Placed(work[t], nodes) /\ work[t].at = "off"
  BY Fields DEF IInv, OffRead, At
<1> QED BY <1>1, ReadStep DEF OffRead, Placed, Known

LEMMA OffStoreKeeps == ASSUME IInv, NEW t \in Thread, OffStore(t) PROVE IInv'
<1> DEFINE n == work[t].node
           r == [work[t].copy EXCEPT !.status = "OFFLINE"]
<1>1. n \in Node /\ work[t].copy \in Record /\ nodes[n] # Unknown
  BY Fields DEF IInv, OffStore, At, Placed
<1>2. r \in Record
  BY <1>1 DEF Record
<1>3. StoresOK' /\ Keeps
  BY <1>1, <1>2, Stored DEF OffStore, Store
<1>4. Moves(t, "offSave", n, work[t].copy, work[t].fire)
  BY GotoMoves DEF OffStore, IInv, Stage
<1>5. LeadOK' /\ WatchOK' /\ MailOK'
  BY <1>3, Frame DEF OffStore, Store
<1>6. GhostOK'
  BY <1>1 DEF IInv, GhostOK, OffStore, Store, Revived
<1> QED BY <1>1, <1>3, <1>4, <1>5, <1>6, ThreadStep DEF OffStore, Store, At, watch, Reporting, Beating

LEMMA OffSaveKeeps == ASSUME IInv, NEW t \in Thread, OffSave(t) PROVE IInv'
<1> DEFINE n == work[t].node
           r == [work[t].copy EXCEPT !.status = "OFFLINE"]
<1>1. n \in Node /\ work[t].copy \in Record
  BY Fields DEF IInv, OffSave, At, Placed
<1>2. r \in Record /\ r # Unknown
  BY <1>1, RegistryAssumption DEF Record
<1>3. StoresOK'
  <2>1. nodes' = nodes /\ row' = [row EXCEPT ![n] = r]
    BY DEF OffSave
  <2> QED BY <1>1, <1>2, <2>1 DEF IInv, StoresOK
<1>4. Keeps /\ LeadOK' /\ WatchOK' /\ MailOK' /\ GhostOK'
  BY Frame DEF OffSave, ghosts
<1>5. CASE t = "monitor"
  <2>1. Moves(t, "failed", n, Unknown, work[t].fire)
    BY <1>5, DropMoves DEF OffSave, IInv, Stage
  <2> QED BY <1>1, <1>3, <1>4, <1>5, <2>1, ThreadStep DEF OffSave, At, watch, ghosts, Reporting
<1>6. CASE t # "monitor"
  <2>1. Moves(t, "idle", Nobody, Unknown, NoFire)
    BY <1>6, ReturnMoves DEF OffSave, IInv
  <2> QED BY <1>3, <1>4, <1>6, <2>1, ThreadStep DEF OffSave, watch, ghosts, Beating
<1> QED BY <1>5, <1>6

LEMMA OverdueKeeps == ASSUME IInv, NEW n \in Node, Overdue(n) PROVE IInv'
<1>1. Moves("monitor", "decided", n, Unknown, NoFire)
  BY DoMoves DEF Overdue, IInv, Stage, Thread
<1>2. Keeps /\ StoresOK' /\ LeadOK' /\ WatchOK' /\ GhostOK' /\ MailOK'
  BY Frame DEF Overdue, registry, watch, ghosts
<1> QED BY <1>1, <1>2, ThreadStep DEF Overdue, At, watch, ghosts, Thread, Reporting

\* A death is declared of a node that does not count as dead yet.
LEMMA DeclareKeeps == ASSUME IInv, Declare PROVE IInv'
<1> DEFINE n == work["monitor"].node
           a == IF Known(n) THEN "off" ELSE "failed"
<1>1. n \in Node /\ work["monitor"].at = "decided"
  BY Fields DEF IInv, Declare, At, Thread, Placed
<1>2. Keeps /\ StoresOK' /\ LeadOK' /\ GhostOK' /\ MailOK'
  BY Frame DEF Declare, registry, ghosts
<1>3. CASE Undeclared(n)
  <2>1. Moves("monitor", a, n, work["monitor"].copy, work["monitor"].fire)
    BY <1>3, GotoMoves DEF Declare, IInv, Stage, Thread
  <2>2. dead' = dead \cup {n} /\ n \notin dead
    BY <1>3 DEF Declare, Undeclared
  <2>3. WatchOK'
    BY <1>1, <1>3 DEF Declare, IInv, WatchOK
  <2>4. a \in {"off", "failed"}
    OBVIOUS
  <2> HIDE DEF a
  <2>5. WorkOK'
    BY <1>1, <1>2, <2>1, <2>4, WorkMoves DEF IInv, Thread
  <2>6. BeatOK'
    BY <2>1, <2>2 DEF Declare, IInv, BeatOK, Moves, Thread
  <2>7. Account'
    <3>1. \A m \in Node : ~Pending(m) /\ (Pending(m)' <=> m = n)
      BY <1>1, <2>1, <2>4 DEF Pending, Moves, Reporting
    <3> QED BY <2>2, <3>1 DEF Declare, IInv, Account, ghosts
  <2> QED BY <1>2, <2>3, <2>5, <2>6, <2>7 DEF IInv
<1>4. CASE ~Undeclared(n)
  <2>1. Moves("monitor", "idle", Nobody, Unknown, NoFire)
    BY <1>4, ReturnMoves DEF Declare, IInv, Thread
  <2>2. UNCHANGED watch
    BY <1>4 DEF Declare
  <2>3. WatchOK'
    BY <2>2, Frame
  <2> QED BY <1>1, <1>2, <2>1, <2>2, <2>3, ThreadStep DEF Declare, watch, ghosts, Thread, Reporting
<1> QED BY <1>3, <1>4

\* The report comes; what follows frees the leader of a fire.
LEMMA FailedKeeps == ASSUME IInv, Failed PROVE IInv'
<1> DEFINE n == work["monitor"].node
<1>1. n \in Node /\ work["monitor"].at = "failed"
  BY Fields DEF IInv, Failed, At, Thread, Placed
<1>2. Keeps /\ StoresOK' /\ LeadOK' /\ WatchOK'
  BY Frame DEF Failed, registry
<1>3. GhostOK'
  BY <1>1 DEF IInv, GhostOK, Failed
<1>4. MailOK'
  <2>1. CASE Known(n)
    BY <1>1, <2>1, Published DEF Failed, IInv, MailOK
  <2>2. CASE ~Known(n)
    BY <2>2, Frame DEF Failed
  <2> QED BY <2>1, <2>2
<1>5. WorkOK' /\ \A m \in Node : ~Pending(m)'
  <2>1. CASE Known(n) /\ nodes[n].job # NoFire
    <3>1. nodes[n].job \in Fire /\ nodes'[n] # Unknown
      BY <1>1, <1>2, <2>1 DEF Known, IInv, StoresOK, Record, Keeps
    <3>2. Moves("monitor", "release", n, Unknown, nodes[n].job)
      BY <1>1, <2>1, <3>1, DoMoves DEF Failed, IInv, Stage, Thread
    <3> QED BY <1>1, <1>2, <3>1, <3>2, WorkMoves DEF IInv, Thread, Pending, Moves, Reporting
  <2>2. CASE ~(Known(n) /\ nodes[n].job # NoFire)
    <3>1. Moves("monitor", "idle", Nobody, Unknown, NoFire)
      BY <2>2, ReturnMoves DEF Failed, IInv, Thread
    <3> QED BY <1>2, <3>1, WorkMoves DEF IInv, Thread, Pending, Moves, Reporting
  <2> QED BY <2>1, <2>2
<1>6. work'["paho"] = work["paho"]
  BY DEF Failed, Do, Return, IInv, WorkOK, Thread
<1>7. BeatOK'
  BY <1>6 DEF Failed, IInv, BeatOK, watch
<1>8. Account'
  <2>1. \A m \in Node : Pending(m) <=> m = n
    BY <1>1 DEF Pending, Reporting
  <2>2. reports' = [reports EXCEPT ![n] = @ + 1] /\ dead' = dead
    BY DEF Failed, watch
  <2> QED BY <1>1, <1>5, <2>1, <2>2 DEF IInv, Account
<1> QED BY <1>2, <1>3, <1>4, <1>5, <1>7, <1>8 DEF IInv

-----------------------------------------------------------------------------
(* Bookings.                                                               *)

LEMMA ReleaseReadKeeps == ASSUME IInv, NEW t \in Thread, ReleaseRead(t) PROVE IInv'
<1>1. Placed(work[t], nodes) /\ work[t].at = "release"
  BY Fields DEF IInv, ReleaseRead, At
<1> QED BY <1>1, ReadStep DEF ReleaseRead, Placed

LEMMA ReleaseStoreKeeps == ASSUME IInv, NEW t \in Thread, ReleaseStore(t) PROVE IInv'
<1> DEFINE n == work[t].node
           f == work[t].fire
           r == [work[t].copy EXCEPT !.job = NoFire]
<1>1. n \in Node /\ f \in Fire /\ work[t].copy \in Record /\ work[t].at = "releaseStore"
  BY Fields DEF IInv, ReleaseStore, At, Placed
<1>2. r \in Record
  BY <1>1 DEF Record
<1>3. StoresOK' /\ Keeps
  BY <1>1, <1>2, Stored DEF ReleaseStore, Save
<1>4. LeadOK'
  <2>1. lead' \in [Fire -> Node \cup {Nobody, Unlit, Out}]
    BY DEF ReleaseStore, IInv, LeadOK
  <2>2. \A g \in Fire : lead'[g] \in Node => lead'[g] = lead[g]
    BY RegistryAssumption, <1>1 DEF ReleaseStore, IInv, LeadOK
  <2> QED BY <1>3, <2>1, <2>2 DEF IInv, LeadOK, Keeps
<1>5. WatchOK' /\ MailOK'
  BY Frame DEF ReleaseStore
<1>6. GhostOK'
  BY <1>1 DEF IInv, GhostOK, ReleaseStore, Revived
<1>7. CASE lead[f] = Out
  <2>1. Moves(t, "idle", Nobody, Unknown, NoFire)
    BY <1>7, ReturnMoves DEF ReleaseStore, IInv
  <2> QED BY <1>1, <1>3, <1>4, <1>5, <1>6, <2>1, ThreadStep DEF ReleaseStore, watch, Reporting, Beating
<1>8. CASE lead[f] # Out
  <2>1. Moves(t, "choose", n, Unknown, f)
    BY <1>8, DropMoves DEF ReleaseStore, IInv, Stage
  <2> QED BY <1>1, <1>3, <1>4, <1>5, <1>6, <2>1, ThreadStep DEF ReleaseStore, watch, Reporting, Beating
<1> QED BY <1>7, <1>8

\* A thread is done with a dispatch.
LEMMA DoneStep ==
  ASSUME IInv, NEW t \in Thread, Done(t), work[t].at \notin Reporting, Keeps,
         StoresOK', LeadOK', WatchOK', MailOK', GhostOK', UNCHANGED <<beat, wasDead, dead, reports>>
  PROVE  IInv'
<1>1. CASE t = "paho" /\ beat # Nobody
  <2>1. Moves(t, "after", work[t].node, work[t].copy, work[t].fire)
    BY <1>1, GotoMoves DEF Done, IInv, Stage
  <2>2. beat \in Node
    BY <1>1 DEF IInv, BeatOK
  <2> QED BY <1>1, <2>1, <2>2, ThreadStep
<1>2. CASE ~(t = "paho" /\ beat # Nobody)
  <2>1. Moves(t, "idle", Nobody, Unknown, NoFire)
    BY <1>2, ReturnMoves DEF Done, IInv
  <2> QED BY <2>1, ThreadStep DEF Reporting, Beating
<1> QED BY <1>1, <1>2

LEMMA ChooseKeeps == ASSUME IInv, NEW t \in Thread, Choose(t) PROVE IInv'
<1> DEFINE f == work[t].fire
<1>1. f \in Fire /\ work[t].at = "choose"
  BY Fields DEF IInv, Choose, At, Placed
<1>2. Keeps /\ StoresOK' /\ LeadOK' /\ WatchOK' /\ GhostOK' /\ MailOK'
  BY Frame DEF Choose, registry, watch, ghosts
<1>3. CASE lead[f] = Nobody /\ \E n \in Node : Free(n)
  <2>1. PICK n \in Node : Free(n) /\ Do(t, "book", n, Unknown, f)
    BY <1>3 DEF Choose
  <2>2. nodes'[n] # Unknown
    BY <1>2, <2>1 DEF Free, Known, Keeps
  <2>3. Moves(t, "book", n, Unknown, f)
    BY <1>1, <2>1, DoMoves DEF IInv, Stage
  <2> QED BY <1>1, <1>2, <2>2, <2>3, ThreadStep DEF Choose, watch, ghosts, Reporting, Beating
<1>4. CASE ~(lead[f] = Nobody /\ \E n \in Node : Free(n))
  <2>1. Done(t)
    BY <1>4 DEF Choose
  <2> QED BY <1>1, <1>2, <2>1, DoneStep DEF Choose, watch, ghosts, Reporting
<1> QED BY <1>3, <1>4

LEMMA BookReadKeeps == ASSUME IInv, NEW t \in Thread, BookRead(t) PROVE IInv'
<1>1. Placed(work[t], nodes) /\ work[t].at = "book"
  BY Fields DEF IInv, BookRead, At
<1> QED BY <1>1, ReadStep DEF BookRead, Placed

LEMMA BookStoreKeeps == ASSUME IInv, NEW t \in Thread, BookStore(t) PROVE IInv'
<1> DEFINE n == work[t].node
           r == [work[t].copy EXCEPT !.job = work[t].fire]
<1>1. n \in Node /\ work[t].fire \in Fire /\ work[t].copy \in Record /\ work[t].at = "bookStore"
  BY Fields DEF IInv, BookStore, At, Placed
<1>2. r \in Record
  BY <1>1 DEF Record
<1>3. StoresOK' /\ Keeps /\ nodes'[n] # Unknown
  BY <1>1, <1>2, Stored DEF BookStore, Store, Save
<1>4. Moves(t, "booked", n, Unknown, work[t].fire)
  BY DropMoves DEF BookStore, IInv, Stage
<1>5. LeadOK' /\ WatchOK' /\ MailOK'
  BY <1>3, Frame DEF BookStore, Store
<1>6. GhostOK'
  BY <1>1 DEF IInv, GhostOK, BookStore, Store, Revived
<1> QED BY <1>1, <1>3, <1>4, <1>5, <1>6, ThreadStep DEF BookStore, Store, watch, Reporting, Beating

LEMMA BookedKeeps == ASSUME IInv, NEW t \in Thread, Booked(t) PROVE IInv'
<1>1. work[t].node \in Node /\ work[t].fire \in Fire /\ work[t].at = "booked"
      /\ nodes[work[t].node] # Unknown
  BY Fields DEF IInv, Booked, At, Placed
<1>2. Keeps /\ StoresOK' /\ WatchOK' /\ GhostOK' /\ MailOK'
  BY Frame DEF Booked, registry, watch, ghosts
<1>3. LeadOK'
  BY <1>1 DEF Booked, registry, IInv, LeadOK
<1> QED BY <1>1, <1>2, <1>3, DoneStep DEF Booked, watch, ghosts, Reporting

-----------------------------------------------------------------------------
(* What the threads are asked to do.                                       *)

LEMMA FireDetectedKeeps == ASSUME IInv, NEW f \in Fire, FireDetected(f) PROVE IInv'
<1>1. Moves("paho", "choose", Nobody, Unknown, f)
  BY DoMoves DEF FireDetected, Begin, IInv, Stage, Thread
<1>2. Keeps /\ StoresOK' /\ WatchOK' /\ GhostOK' /\ MailOK'
  BY Frame DEF FireDetected, registry, watch, ghosts
<1>3. LeadOK'
  BY RegistryAssumption DEF FireDetected, registry, IInv, LeadOK
<1> QED BY <1>1, <1>2, <1>3, ThreadStep DEF FireDetected, watch, ghosts, Thread, Beating

LEMMA FireSuppressedKeeps == ASSUME IInv, NEW f \in Fire, FireSuppressed(f) PROVE IInv'
<1>1. lead[f] \in Node /\ nodes[lead[f]] # Unknown
  BY DEF FireSuppressed, IInv, LeadOK
<1>2. Moves("paho", "release", lead[f], Unknown, f)
  BY <1>1, DoMoves DEF FireSuppressed, Begin, IInv, Stage, Thread
<1>3. Keeps /\ StoresOK' /\ WatchOK' /\ GhostOK' /\ MailOK'
  BY Frame DEF FireSuppressed, registry, watch, ghosts
<1>4. LeadOK'
  BY RegistryAssumption DEF FireSuppressed, registry, IInv, LeadOK
<1>5. nodes'[lead[f]] # Unknown
  BY <1>1 DEF FireSuppressed, registry
<1> QED BY <1>1, <1>2, <1>3, <1>4, <1>5, ThreadStep DEF FireSuppressed, watch, ghosts, Thread, Beating

LEMMA SweepTimeoutKeeps == ASSUME IInv, NEW f \in Fire, SweepTimeout(f) PROVE IInv'
<1>1. lead[f] \in Node /\ nodes[lead[f]] # Unknown
  BY DEF SweepTimeout, IInv, LeadOK
<1>2. Moves("sweep", "release", lead[f], Unknown, f)
  BY <1>1, DoMoves DEF SweepTimeout, Begin, IInv, Stage, Thread
<1>3. Keeps /\ StoresOK' /\ WatchOK' /\ LeadOK' /\ MailOK'
  BY Frame DEF SweepTimeout, registry, watch
<1>4. GhostOK'
  BY RegistryAssumption DEF SweepTimeout, Fault, ghosts, IInv, GhostOK
<1>5. nodes'[lead[f]] # Unknown
  BY <1>1 DEF SweepTimeout, registry
<1> QED BY <1>1, <1>2, <1>3, <1>4, <1>5, ThreadStep DEF SweepTimeout, watch, ghosts, Thread

-----------------------------------------------------------------------------
(* The nodes, the broker and time: no thread moves.                        *)

LEMMA OutsideStep ==
  ASSUME IInv, UNCHANGED <<registry, dead, work, beat, wasDead, lead, reports>>,
         WatchOK', MailOK', GhostOK'
  PROVE  IInv'
BY Frame DEF IInv, registry

LEMMA NodeStartKeeps == ASSUME IInv, NEW n \in Node, NodeStart(n) PROVE IInv'
<1>1. WatchOK'
  BY Frame DEF NodeStart
<1>2. MailOK'
  BY Published DEF NodeStart, IInv, MailOK
<1>3. GhostOK'
  BY DEF NodeStart, IInv, GhostOK
<1> QED BY <1>1, <1>2, <1>3, OutsideStep DEF NodeStart, watch

LEMMA NodeBeatsKeeps == ASSUME IInv, NEW n \in Node, NodeBeats(n) PROVE IInv'
<1>1. WatchOK' /\ GhostOK'
  BY Frame DEF NodeBeats, ghosts
<1>2. [kind |-> "heartbeat", node |-> n] \in Message
  BY DEF Message
<1>3. MailOK'
  BY <1>2 DEF NodeBeats, IInv, MailOK
<1> QED BY <1>1, <1>3, OutsideStep DEF NodeBeats, watch, ghosts

LEMMA HangKeeps == ASSUME IInv, NEW n \in Node, Hang(n) PROVE IInv'
<1>1. WatchOK'
  BY Frame DEF Hang
<1>2. MailOK'
  BY DEF Hang, IInv, MailOK
<1>3. GhostOK'
  BY RegistryAssumption DEF Hang, Fault, ghosts, IInv, GhostOK
<1> QED BY <1>1, <1>2, <1>3, OutsideStep DEF Hang, watch, ghosts

LEMMA ResumeKeeps == ASSUME IInv, NEW n \in Node, Resume(n) PROVE IInv'
<1>1. WatchOK' /\ GhostOK'
  BY Frame DEF Resume, ghosts
<1>2. MailOK'
  BY DEF Resume, IInv, MailOK
<1> QED BY <1>1, <1>2, OutsideStep DEF Resume, watch, ghosts

LEMMA ConnectionLostKeeps == ASSUME IInv, NEW n \in Node, ConnectionLost(n) PROVE IInv'
<1>1. WatchOK'
  BY Frame DEF ConnectionLost
<1>2. MailOK'
  BY Published DEF ConnectionLost, IInv, MailOK
<1>3. GhostOK'
  BY RegistryAssumption DEF ConnectionLost, Fault, IInv, GhostOK
<1> QED BY <1>1, <1>2, <1>3, OutsideStep DEF ConnectionLost, watch

LEMMA LateKeeps == ASSUME IInv, NEW n \in Node, Late(n) PROVE IInv'
<1>1. WatchOK'
  BY DEF Late, IInv, WatchOK
<1>2. MailOK'
  BY Frame DEF Late
<1>3. GhostOK'
  BY RegistryAssumption DEF Late, Fault, ghosts, IInv, GhostOK
<1> QED BY <1>1, <1>2, <1>3, OutsideStep DEF Late, ghosts

LEMMA RestartKeeps == ASSUME IInv, Restart PROVE IInv'
<1> DEFINE heard == { m \in Node : announced[m] # "none" }
           S == { [kind |-> announced[n], node |-> n] : n \in heard }
<1>1. S \subseteq Message
  BY DEF IInv, MailOK, Message
<1>2. Cardinality(S) \in Nat
  <2>1. IsFiniteSet(heard)
    BY RegistryAssumption, FS_Subset
  <2>2. [n \in heard |-> [kind |-> announced[n], node |-> n]] \in Surjection(heard, S)
    BY DEF Surjection
  <2>3. IsFiniteSet(S)
    BY <2>1, <2>2, FS_Surjection
  <2> QED BY <2>3, FS_CardinalityType
<1>3. MailOK'
  <2>1. inbox' \in SetToSeqs(S)
    BY DEF Restart
  <2> HIDE DEF S
  <2>2. inbox' \in [1 .. Cardinality(S) -> S]
    BY <2>1 DEF SetToSeqs
  <2>3. inbox' \in Seq(Message)
    BY <1>1, <1>2, <2>2
  <2> QED BY <2>3 DEF Restart, IInv, MailOK
<1>4. Keeps /\ StoresOK'
  BY DEF Restart, IInv, StoresOK, Keeps
<1>5. LeadOK'
  BY <1>4, Frame DEF Restart
<1>6. work' \in [Thread -> Activity] /\ \A t \in Thread : work'[t].at = "idle"
  BY DEF Restart, Idle, Activity, Stage
<1>7. WorkOK'
  BY <1>6 DEF WorkOK, Placed
<1>8. BeatOK'
  BY <1>6 DEF Restart, BeatOK, Thread, Beating
<1>9. WatchOK'
  BY DEF Restart, WatchOK
<1>10. GhostOK'
  BY RegistryAssumption DEF Restart, Fault, IInv, GhostOK
<1>11. Account'
  BY <1>6 DEF Restart, Account, Pending, Thread, Reporting
<1> QED BY <1>3, <1>4, <1>5, <1>7, <1>8, <1>9, <1>10, <1>11 DEF IInv

-----------------------------------------------------------------------------
LEMMA Initially == Init => IInv
<1> SUFFICES ASSUME Init PROVE IInv
  OBVIOUS
<1>1. work \in [Thread -> Activity] /\ \A t \in Thread : work[t].at = "idle"
  BY DEF Init, Idle, Activity, Stage
<1>2. WorkOK
  BY <1>1 DEF WorkOK, Placed
<1>3. StoresOK /\ WatchOK
  BY DEF Init, StoresOK, WatchOK
<1>4. LeadOK
  BY RegistryAssumption DEF Init, LeadOK
<1>5. BeatOK
  <2>1. work["paho"].at = "idle"
    BY <1>1 DEF Thread
  <2>2. beat = Nobody /\ ~wasDead /\ wasDead \in BOOLEAN
    BY DEF Init
  <2> QED BY <2>1, <2>2 DEF BeatOK, Beating
<1>6. Account
  BY <1>1 DEF Init, Account, Pending, Thread, Reporting
<1>7. MailOK
  BY DEF Init, MailOK
<1>8. GhostOK
  BY RegistryAssumption DEF Init, GhostOK
<1> QED BY <1>2, <1>3, <1>4, <1>5, <1>6, <1>7, <1>8 DEF IInv

LEMMA Inductive == IInv /\ [Next]_vars => IInv'
<1> SUFFICES ASSUME IInv, [Next]_vars PROVE IInv'
  OBVIOUS
<1>1. CASE PahoStep
  BY <1>1, HearKeeps, HearOnlineKeeps, HearOfflineKeeps, SeenKeeps, BeatReadKeeps, BeatStoreKeeps,
     AvailableKeeps, AfterKeeps, RegisterKeeps DEF PahoStep, TakeMessage
<1>2. CASE MonitorStep
  BY <1>2, DeclareKeeps, FailedKeeps, OverdueKeeps DEF MonitorStep
<1>3. CASE \E t \in Thread : SharedStep(t)
  BY <1>3, OffReadKeeps, OffStoreKeeps, OffSaveKeeps, ReleaseReadKeeps, ReleaseStoreKeeps,
     ChooseKeeps, BookReadKeeps, BookStoreKeeps, BookedKeeps DEF SharedStep
<1>4. CASE \E f \in Fire : FireDetected(f) \/ FireSuppressed(f) \/ SweepTimeout(f)
  BY <1>4, FireDetectedKeeps, FireSuppressedKeeps, SweepTimeoutKeeps
<1>5. CASE \E n \in Node : \/ NodeStart(n) \/ NodeBeats(n) \/ Hang(n) \/ Resume(n)
                           \/ ConnectionLost(n) \/ Late(n)
  BY <1>5, NodeStartKeeps, NodeBeatsKeeps, HangKeeps, ResumeKeeps, ConnectionLostKeeps, LateKeeps
<1>6. CASE Restart
  BY <1>6, RestartKeeps
<1>7. CASE UNCHANGED vars
  BY <1>7, Frame DEF IInv, vars, registry, watch, ghosts
<1> QED BY <1>1, <1>2, <1>3, <1>4, <1>5, <1>6, <1>7 DEF Next

\* Every variable stays in its set, for any number of leaders and fires.
THEOREM TypeCorrect == Spec => []TypeOK
<1>1. IInv => TypeOK
  BY Types
<1> QED BY <1>1, Initially, Inductive, PTL DEF Spec

\* Of a node, deaths and recoveries are reported in turn, in whichever order the
\* two callbacks of one death come, wherever the heartbeat and the bookings of
\* other threads fall between the steps of the monitor.
THEOREM DeathsAreReportedOnce == Spec => []ReportsAlternate
<1>1. IInv => ReportsAlternate
  BY Types
<1> QED BY <1>1, Initially, Inductive, PTL DEF Spec
=============================================================================
