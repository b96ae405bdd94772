---------------------------- MODULE DroneProofs ----------------------------
(***************************************************************************)
(* Proofs about Drone, for every battery, tank and number of orders: types,*)
(* and that a drone which was never sent out empty counts no litre that it *)
(* did not carry, wherever the assignments of its two threads fall.        *)
(***************************************************************************)
EXTENDS Drone, SequenceTheorems, TLAPS

-----------------------------------------------------------------------------
(* What the operations on a queue do to its contents.                      *)

Items(s) == { s[i] : i \in DOMAIN s }

\* Taking the head of a queue, or dropping it.
LEMMA TailItems ==
  ASSUME NEW S, NEW s \in Seq(S), s # <<>>
  PROVE  /\ Tail(s) \in Seq(S) /\ Items(Tail(s)) \subseteq Items(s)
         /\ Head(s) \in S /\ Head(s) \in Items(s)
BY DEF Items

\* Adding several messages at the end: nothing else comes in, nothing gets lost.
LEMMA ConcatItems ==
  ASSUME NEW S, NEW s \in Seq(S), NEW u \in Seq(S)
  PROVE  s \o u \in Seq(S) /\ Items(s \o u) = Items(s) \cup Items(u)
<1>1. \A q : Items(q) = Range(q)
  BY DEF Items, Range
<1>2. s \o u \in Seq(S)
  BY ConcatProperties
<1>3. Range(s \o u) = Range(s) \cup Range(u)
  BY RangeConcatenation
<1> QED BY <1>1, <1>2, <1>3

-----------------------------------------------------------------------------
Writes ==
  [field : {"engine"}, value : State] \cup [field : {"label"}, value : Task]
    \cup [field : {"wp"}, value : Target \cup {NoTarget}] \cup [field : {"pump"}, value : BOOLEAN]
    \cup [field : {"snap", "drop", "service"}, value : {0}] \cup [field : {"done"}, value : Order]

Types ==
  /\ role \in Role /\ engine \in State /\ label \in Task
  /\ wp \in Target \cup {NoTarget} /\ pos \in Target \cup {"far", "air"}
  /\ pump \in BOOLEAN /\ phantom \in BOOLEAN /\ dry \in BOOLEAN
  /\ charge \in 0 .. Full /\ load \in 0 .. Tank
  /\ paho \in Seq(Writes) /\ tel \in [at : Point, todo : Seq(Writes)]
  /\ told \in Order /\ heard \in Order /\ orders \in 0 .. MaxOrder

\* The leader's orders neither drop nor fill, and set the engine off or home.
Ordered ==
  \A w \in Items(paho) :
    /\ w.field \notin {"drop", "service", "snap"}
    /\ w.field = "engine" => w.value \in {"TRANSITING", "RETURNING"}

\* A tick of the pump is decided at one point only, by a fighter with a load.
Drops ==
  /\ tel.at = "passed" =>
       /\ ~Scout
       /\ tel.todo \in {<<>>, <<Set("drop", 0)>>, <<Set("pump", TRUE), Set("drop", 0)>>}
       /\ tel.todo # <<>> /\ ~dry => load > 0
  /\ tel.at # "passed" => \A w \in Items(tel.todo) : w.field # "drop"

Homing == {"IDLE", "EGRESS", "RETURNING"}

\* An empty fighter is on its way home, or about to be turned.
Spent ==
  ~Scout /\ ~dry /\ load = 0 =>
    /\ \A w \in Items(tel.todo) : w.field = "engine" => w.value \in Homing
    /\ \/ engine \in Homing
       \/ tel.at = "passed"
       \/ tel.at = "label" /\ \E w \in Items(tel.todo) : w.field = "engine"

IInv == Types /\ Ordered /\ Drops /\ Spent /\ DeliveredWasCarried

LEMMA InType == IInv => TypeOK
<1> SUFFICES ASSUME IInv PROVE TypeOK
  OBVIOUS
<1>1. \A w \in Writes : w.field \in Field
  BY DEF Writes, Field
<1>2. \A i \in DOMAIN paho : paho[i] \in Writes
  BY DEF IInv, Types
<1>3. \A i \in DOMAIN tel.todo : tel.todo[i] \in Writes
  BY DEF IInv, Types
<1> QED BY <1>1, <1>2, <1>3 DEF IInv, Types, TypeOK

-----------------------------------------------------------------------------
(* Lists of assignments.                                                   *)

LEMMA HeadOrTail ==
  ASSUME NEW S, NEW s \in Seq(S), s # <<>>
  PROVE  /\ Tail(s) \in Seq(S) /\ Head(s) \in S /\ Head(s) \in Items(s)
         /\ \A e \in Items(s) : e = Head(s) \/ e \in Items(Tail(s))
         /\ Items(Tail(s)) \subseteq Items(s)
<1>1. ASSUME NEW i \in DOMAIN s PROVE s[i] = Head(s) \/ s[i] \in Items(Tail(s))
  <2>1. CASE i = 1
    BY <2>1
  <2>2. CASE i # 1
    <3>1. i - 1 \in DOMAIN Tail(s) /\ Tail(s)[i - 1] = s[i]
      BY <2>2
    <3> QED BY <3>1 DEF Items
  <2> QED BY <2>1, <2>2
<1> QED BY <1>1, TailItems DEF Items

\* Lists of up to three.
LEMMA Lists ==
  /\ <<>> \in Seq(Writes) /\ Items(<<>>) = {}
  /\ \A a \in Writes : <<a>> \in Seq(Writes) /\ Items(<<a>>) = {a}
  /\ \A a, b \in Writes : <<a, b>> \in Seq(Writes) /\ Items(<<a, b>>) = {a, b}
  /\ \A a, b, c \in Writes : <<a, b, c>> \in Seq(Writes) /\ Items(<<a, b, c>>) = {a, b, c}
BY DEF Items

\* What an assignment may be.
LEMMA Settings ==
  /\ \A v \in State : Set("engine", v) \in Writes
  /\ \A v \in Task : Set("label", v) \in Writes
  /\ \A v \in Target \cup {NoTarget} : Set("wp", v) \in Writes
  /\ \A v \in BOOLEAN : Set("pump", v) \in Writes
  /\ \A f \in {"snap", "drop", "service"} : Set(f, 0) \in Writes
  /\ \A v \in Order : Set("done", v) \in Writes
  /\ \A f, v : Set(f, v).field = f /\ Set(f, v).value = v
BY DEF Set, Writes

LEMMA WritesAre ==
  ASSUME NEW w \in Writes
  PROVE  /\ w.field = "engine" => w.value \in State
         /\ w.field = "label" => w.value \in Task
         /\ w.field = "wp" => w.value \in Target \cup {NoTarget}
         /\ w.field = "pump" => w.value \in BOOLEAN
         /\ w.field = "done" => w.value \in Order
         /\ \A v : w.field = "engine" /\ w.value = v => w = Set("engine", v)
BY DEF Writes, Set

\* The fields an assignment may touch keep their types.
LEMMA Assigned ==
  ASSUME Types, NEW w \in Writes, Assign(w)
  PROVE  /\ engine' \in State /\ label' \in Task /\ wp' \in Target \cup {NoTarget}
         /\ pos' \in Target \cup {"far", "air"} /\ pump' \in BOOLEAN /\ told' \in Order
<1>1. engine' \in State /\ label' \in Task /\ wp' \in Target \cup {NoTarget} /\ told' \in Order
  BY WritesAre DEF Types, Assign
<1>2. pos' \in Target \cup {"far", "air"}
  BY DEF Types, Assign
<1>3. pump' \in BOOLEAN
  <2>1. CASE w.field = "pump"
    BY <2>1, WritesAre DEF Assign
  <2>2. CASE w.field # "pump"
    BY <2>2 DEF Assign, Types
  <2> QED BY <2>1, <2>2
<1> QED BY <1>1, <1>2, <1>3

\* How the lists of the code are put together.
LEMMA SameSeq ==
  ASSUME NEW S, NEW s \in Seq(S), NEW t \in Seq(S), Len(s) = Len(t),
         \A i \in 1 .. Len(s) : s[i] = t[i]
  PROVE  s = t
OBVIOUS

LEMMA Joined ==
  ASSUME NEW S, NEW a \in S, NEW b \in S, NEW c \in S
  PROVE  /\ <<>> \o <<a, b>> = <<a, b>>
         /\ <<c>> \o <<a, b>> = <<c, a, b>> /\ Tail(<<c, a, b>>) = <<a, b>>
<1>1. <<a, b>> \in Seq(S) /\ Len(<<a, b>>) = 2 /\ <<a, b>>[1] = a /\ <<a, b>>[2] = b
  OBVIOUS
<1>2. /\ <<c, a, b>> \in Seq(S) /\ Len(<<c, a, b>>) = 3
      /\ <<c, a, b>>[1] = c /\ <<c, a, b>>[2] = a /\ <<c, a, b>>[3] = b
  OBVIOUS
<1>3. <<>> \o <<a, b>> = <<a, b>>
  BY <1>1
<1>4. <<c>> \o <<a, b>> = <<c, a, b>>
  <2>1. <<c>> \in Seq(S) /\ Len(<<c>>) = 1 /\ <<c>>[1] = c
    OBVIOUS
  <2>2. <<c>> \o <<a, b>> \in Seq(S) /\ Len(<<c>> \o <<a, b>>) = 3
    BY <1>1, <2>1
  <2>3. \A i \in 1 .. 3 : (<<c>> \o <<a, b>>)[i] = <<c, a, b>>[i]
    BY <1>1, <1>2, <2>1
  <2> QED BY <1>2, <2>2, <2>3, SameSeq
<1>5. Tail(<<c, a, b>>) = <<a, b>>
  <2>1. Tail(<<c, a, b>>) \in Seq(S) /\ Len(Tail(<<c, a, b>>)) = 2
    BY <1>2
  <2>2. \A i \in 1 .. 2 : Tail(<<c, a, b>>)[i] = <<a, b>>[i]
    BY <1>1, <1>2
  <2> QED BY <1>1, <2>1, <2>2, SameSeq
<1> QED BY <1>3, <1>4, <1>5

LEMMA RecallIs ==
  /\ Scout => Recall = <<Set("engine", "RETURNING"), Set("wp", "home")>>
  /\ ~Scout => /\ Recall = <<Set("pump", FALSE), Set("engine", "RETURNING"), Set("wp", "home")>>
               /\ Tail(Recall) = <<Set("engine", "RETURNING"), Set("wp", "home")>>
<1> DEFINE e == Set("engine", "RETURNING")  p == Set("wp", "home")  q == Set("pump", FALSE)
<1>1. e \in Writes /\ p \in Writes /\ q \in Writes
  BY Settings DEF State, Target
<1>2. Recall = (IF Scout THEN <<>> ELSE <<q>>) \o <<e, p>>
  BY DEF Recall
<1> HIDE DEF e, p, q
<1>3. /\ Scout => Recall = <<e, p>>
      /\ ~Scout => Recall = <<q, e, p>> /\ Tail(Recall) = <<e, p>>
  BY <1>1, <1>2, Joined
<1> QED BY <1>3 DEF e, p, q

LEMMA Spends ==
  ASSUME NEW max \in Nat, NEW c \in 0 .. max
  PROVE  Spend(c) \in 0 .. max /\ (c > 0 => Spend(c) = c - 1)
BY DEF Spend
\* Lists that drop nothing and set the engine only to a state of S.
Plans(S) ==
  { todo \in Seq(Writes) :
      \A w \in Items(todo) : w.field # "drop" /\ (w.field = "engine" => w.value \in S) }

\* Those that the telemetry thread decides on.
LEMMA PlansAre ==
  ASSUME NEW S, NEW s \in State \cap S, NEW v \in Target
  PROVE  /\ <<Set("engine", s), Set("wp", v)>> \in Plans(S)
         /\ <<Set("wp", v), Set("engine", s)>> \in Plans(S)
         /\ <<Set("pump", FALSE), Set("engine", s), Set("wp", v)>> \in Plans(S)
         /\ <<Set("engine", s), Set("service", 0)>> \in Plans(S)
         /\ <<Set("engine", s)>> \in Plans(S) /\ <<Set("wp", v)>> \in Plans(S)
<1> DEFINE e == Set("engine", s)  p == Set("wp", v)  q == Set("pump", FALSE)  r == Set("service", 0)
<1>1. e \in Writes /\ p \in Writes /\ q \in Writes /\ r \in Writes
  BY Settings
<1>2. e.field = "engine" /\ e.value \in S /\ p.field = "wp" /\ q.field = "pump" /\ r.field = "service"
  BY Settings
<1> HIDE DEF e, p, q, r
<1>3. <<e, p>> \in Plans(S) /\ <<p, e>> \in Plans(S) /\ <<e, r>> \in Plans(S)
  BY <1>1, <1>2, Lists DEF Plans
<1>4. <<q, e, p>> \in Plans(S)
  BY <1>1, <1>2, Lists DEF Plans
<1>5. <<e>> \in Plans(S) /\ <<p>> \in Plans(S)
  BY <1>1, <1>2, Lists DEF Plans
<1> QED BY <1>3, <1>4, <1>5 DEF e, p, q, r

LEMMA NoPlan == \A S : <<>> \in Plans(S)
BY Lists DEF Plans

LEMMA PlansGrow == ASSUME NEW S, NEW todo \in Plans(S), S \subseteq State PROVE todo \in Plans(State)
BY DEF Plans

\* The telemetry thread moves on from a point where it reads; load is as it was.
LEMMA Steps ==
  ASSUME IInv, Types', UNCHANGED <<role, load, phantom, dry, paho, engine>>,
         tel'.at \in Point \ {"passed"}, tel'.todo \in Plans(State),
         ~Scout /\ ~dry /\ load = 0 =>
           /\ tel'.todo \in Plans(Homing)
           /\ \/ engine \in Homing
              \/ tel'.at = "label" /\ \E w \in Items(tel'.todo) : w.field = "engine"
  PROVE  IInv'
<1>1. Ordered'
  BY DEF IInv, Ordered
<1>2. Drops'
  BY DEF Drops, Plans
<1>3. Spent'
  BY DEF Spent, Scout, Plans
<1>4. DeliveredWasCarried'
  BY DEF IInv, DeliveredWasCarried
<1> QED BY <1>1, <1>2, <1>3, <1>4 DEF IInv

\* What the telemetry thread decides where it reads.
LEMMA Decides ==
  ASSUME Types, NEW p \in Point, NEW todo \in Plans(State), Go(p, todo)
  PROVE  tel' \in [at : Point, todo : Seq(Writes)] /\ tel'.at = p /\ tel'.todo = todo
BY DEF Go, Plans

\* Away from those points an empty fighter is on its way home.
LEMMA EmptyComesHome ==
  ASSUME IInv, ~Scout, ~dry, load = 0, tel.at # "passed", tel.todo = <<>>
  PROVE  engine \in Homing
BY Lists DEF IInv, Spent

-----------------------------------------------------------------------------
(* A tick.                                                                 *)

LEMMA MoveKeeps == ASSUME IInv, Move PROVE IInv'
<1> DEFINE todo == IF wp # NoTarget /\ ~AtWaypoint THEN <<>>
                   ELSE IF wp = NoTarget THEN <<>> ELSE <<Set("snap", 0), Set("wp", NoTarget)>>
<1>1. \A S : todo \in Plans(S)
  <2>1. <<Set("snap", 0), Set("wp", NoTarget)>> \in Seq(Writes)
        /\ \A w \in Items(<<Set("snap", 0), Set("wp", NoTarget)>>) : w.field \notin {"drop", "engine"}
    BY Lists, Settings
  <2> QED BY <2>1, NoPlan DEF Plans
<1>2. Go("engine", todo) /\ tel.at = "rest" /\ tel.todo = <<>>
  BY DEF Move, At
<1> HIDE DEF todo
<1>3. tel' \in [at : Point, todo : Seq(Writes)] /\ tel'.at = "engine" /\ tel'.todo = todo
  BY <1>1, <1>2, Decides DEF IInv, Point
<1>4. pos' \in Target \cup {"far", "air"}
  BY DEF Move, IInv, Types
<1>5. Types'
  BY <1>3, <1>4 DEF Move, IInv, Types, resources
<1> QED BY <1>1, <1>2, <1>3, <1>5, Steps, EmptyComesHome DEF Move, resources, Point

LEMMA ScoutTickKeeps == ASSUME IInv, ScoutTick PROVE IInv'
<1> DEFINE todo == CASE ~AtWaypoint -> <<>>
                     [] engine = "TRANSITING" -> <<Set("engine", "ORBITING"), Set("wp", "ring")>>
                     [] engine = "ORBITING" -> <<Set("wp", "ring")>>
                     [] engine = "RETURNING" -> <<Set("engine", "IDLE")>>
                     [] OTHER -> <<>>
<1>1. "ORBITING" \in State \cap State /\ "IDLE" \in State \cap State /\ "ring" \in Target
  BY DEF State, Target
<1>2. todo \in Plans(State)
  BY <1>1, PlansAre, NoPlan
<1>3. Go("label", todo)
  BY DEF ScoutTick
<1> HIDE DEF todo
<1>4. tel' \in [at : Point, todo : Seq(Writes)] /\ tel'.at = "label" /\ tel'.todo = todo
  BY <1>2, <1>3, Decides DEF IInv, Point
<1>5. charge' \in 0 .. Full
  BY DroneAssumption, Spends DEF ScoutTick, IInv, Types
<1>6. Types'
  BY <1>4, <1>5 DEF ScoutTick, IInv, Types, body, history
<1> QED BY <1>2, <1>4, <1>6, Steps DEF ScoutTick, body, Point

LEMMA FighterTickKeeps == ASSUME IInv, FighterTick PROVE IInv'
<1> DEFINE todo == CASE engine = "IDLE" \/ ~AtWaypoint -> <<>>
          [] engine = "TRANSITING" -> <<Set("wp", "start"), Set("engine", "APPROACH")>>
          [] engine = "APPROACH" -> <<Set("wp", "fire"), Set("engine", "DROPPING")>>
          [] engine = "EGRESS" /\ load <= Low -> <<Set("engine", "RETURNING"), Set("wp", "home")>>
          [] engine = "EGRESS" /\ load > Low -> <<Set("wp", "start"), Set("engine", "APPROACH")>>
          [] OTHER -> <<Set("engine", "IDLE"), Set("service", 0)>>
<1>1. /\ Go("label", todo) /\ tel.at # "passed" /\ tel.todo = <<>> /\ ~Scout
      /\ charge' = IF engine = "IDLE" THEN charge ELSE Spend(charge)
      /\ UNCHANGED <<role, body, load, phantom, dry, paho, history>>
  BY DEF FighterTick, At
<1>2. {"APPROACH", "DROPPING", "RETURNING", "IDLE"} \subseteq State \cap State
      /\ {"start", "fire", "home"} \subseteq Target /\ {"RETURNING", "IDLE"} \subseteq State \cap Homing
  BY DEF State, Target, Homing
<1>3. todo \in Plans(State)
  BY <1>2, PlansAre, NoPlan
<1>4. load = 0 /\ engine \in Homing => todo \in Plans(Homing)
  <2>1. load = 0 => ~(load > Low) /\ load <= Low
    BY DroneAssumption
  <2>2. engine \in Homing => engine # "TRANSITING" /\ engine # "APPROACH"
    BY DEF Homing
  <2> QED BY <1>2, <2>1, <2>2, PlansAre, NoPlan
<1> HIDE DEF todo
<1>5. tel' \in [at : Point, todo : Seq(Writes)] /\ tel'.at = "label" /\ tel'.todo = todo
  BY <1>1, <1>3, Decides DEF IInv, Point
<1>6. charge' \in 0 .. Full
  BY <1>1, DroneAssumption, Spends DEF IInv, Types
<1>7. Types'
  BY <1>1, <1>5, <1>6 DEF IInv, Types, body, history
<1>8. ~dry /\ load = 0 => engine \in Homing
  BY <1>1, EmptyComesHome
<1> QED BY <1>1, <1>3, <1>4, <1>5, <1>7, <1>8, Steps DEF body, Point

\* The pump is decided on by a fighter that is DROPPING, so not an empty one.
LEMMA DropTickKeeps == ASSUME IInv, DropTick PROVE IInv'
<1>1. /\ ~Scout /\ tel.at = "engine" /\ tel.todo = <<>> /\ engine = "DROPPING"
      /\ UNCHANGED <<role, body, resources, paho, history>>
  BY DEF DropTick, At
<1>2. PICK todo \in {<<Set("drop", 0)>>, <<Set("pump", TRUE), Set("drop", 0)>>} : Go("passed", todo)
  BY DEF DropTick
<1>3. todo \in Seq(Writes) /\ todo # <<>>
  <2>1. Set("drop", 0) \in Writes /\ Set("pump", TRUE) \in Writes
    BY Settings
  <2>2. <<Set("drop", 0)>> \in Seq(Writes) /\ <<Set("pump", TRUE), Set("drop", 0)>> \in Seq(Writes)
    BY <2>1, Lists
  <2>3. <<Set("drop", 0)>> # <<>> /\ <<Set("pump", TRUE), Set("drop", 0)>> # <<>>
    OBVIOUS
  <2> QED BY <1>2, <2>2, <2>3
<1>4. tel' \in [at : Point, todo : Seq(Writes)] /\ tel'.at = "passed" /\ tel'.todo = todo
  BY <1>2, <1>3 DEF Go, Point
<1>5. ~dry => load > 0
  BY <1>1, EmptyComesHome DEF IInv, Types, Homing
<1>6. Types'
  BY <1>1, <1>4 DEF IInv, Types, body, history, resources
<1>7. Ordered' /\ DeliveredWasCarried'
  BY <1>1 DEF IInv, Ordered, DeliveredWasCarried, resources
<1>8. Drops'
  BY <1>1, <1>2, <1>4, <1>5 DEF Drops, Scout, resources
<1>9. Spent'
  BY <1>1, <1>4, <1>5 DEF Spent, Scout, resources, IInv, Types
<1> QED BY <1>6, <1>7, <1>8, <1>9 DEF IInv

\* An empty tank ends the mission.
LEMMA EndPassKeeps == ASSUME IInv, EndPass PROVE IInv'
<1> DEFINE turn(s, v) == <<Set("pump", FALSE), Set("engine", s), Set("wp", v)>>
<1>1. /\ tel.at = "passed" /\ Go("label", PassEnds) /\ ~Scout
      /\ UNCHANGED <<role, body, resources, paho, history>>
  BY DEF EndPass, At, IInv, Drops
<1>2. <<Set("pump", FALSE)>> \o Tail(Recall) = turn("RETURNING", "home")
  <2>1. Tail(Recall) = <<Set("engine", "RETURNING"), Set("wp", "home")>>
    BY <1>1, RecallIs
  <2>2. Set("engine", "RETURNING") \in Writes /\ Set("wp", "home") \in Writes /\ Set("pump", FALSE) \in Writes
    BY Settings DEF State, Target
  <2> QED BY <2>1, <2>2, Joined
<1>3. \/ PassEnds = turn("EGRESS", "egress") \/ PassEnds = turn("RETURNING", "home")
      \/ PassEnds = <<>> /\ load # 0
  BY <1>2 DEF PassEnds
<1>4. {"EGRESS", "RETURNING"} \subseteq State \cap Homing /\ {"egress", "home"} \subseteq Target /\ Homing \subseteq State
  BY DEF State, Homing, Target
<1>5. ASSUME NEW s \in State, NEW v \in Target PROVE \E w \in Items(turn(s, v)) : w.field = "engine"
  <2>1. turn(s, v)[2] = Set("engine", s) /\ 2 \in DOMAIN turn(s, v)
    OBVIOUS
  <2> QED BY <2>1, Settings DEF Items
<1>6. PassEnds \in Plans(Homing) /\ (load = 0 => \E w \in Items(PassEnds) : w.field = "engine")
  BY <1>3, <1>4, <1>5, PlansAre, NoPlan
<1>7. PassEnds \in Plans(State)
  BY <1>4, <1>6, PlansGrow
<1>8. tel' \in [at : Point, todo : Seq(Writes)] /\ tel'.at = "label" /\ tel'.todo = PassEnds
  BY <1>1, <1>7, Decides DEF IInv, Point
<1>9. Types'
  BY <1>1, <1>8 DEF IInv, Types, body, history, resources
<1> QED BY <1>1, <1>6, <1>7, <1>8, <1>9, Steps DEF body, resources, Point

LEMMA RelabelKeeps == ASSUME IInv, Relabel PROVE IInv'
<1> DEFINE w == Set("label", TaskOf(engine))
<1>1. /\ tel.at # "passed" /\ tel.todo = <<>> /\ Go("battery", <<w>>)
      /\ UNCHANGED <<role, body, resources, paho, history>>
  BY DEF Relabel, At
<1>2. TaskOf(engine) \in Task
  BY DEF TaskOf, Task, WorkTask
<1>3. w \in Writes /\ w.field = "label"
  BY <1>2, Settings
<1> HIDE DEF w
<1>4. \A S : <<w>> \in Plans(S)
  BY <1>3, Lists DEF Plans
<1>5. tel' \in [at : Point, todo : Seq(Writes)] /\ tel'.at = "battery" /\ tel'.todo = <<w>>
  BY <1>1, <1>4, Decides DEF IInv, Point
<1>6. Types'
  BY <1>1, <1>5 DEF IInv, Types, body, history, resources
<1> QED BY <1>1, <1>4, <1>5, <1>6, Steps, EmptyComesHome DEF body, resources, Point

LEMMA CheckBatteryKeeps == ASSUME IInv, CheckBattery PROVE IInv'
<1> DEFINE todo == IF Exhausted THEN <<Set("label", "RETURNING")>> \o Recall ELSE <<>>
<1>1. /\ tel.at # "passed" /\ tel.todo = <<>> /\ Go("sent", todo)
      /\ UNCHANGED <<role, body, resources, paho, history>>
  BY DEF CheckBattery, At
<1>2. "RETURNING" \in State \cap Homing /\ "home" \in Target /\ "RETURNING" \in Task /\ Homing \subseteq State
  BY DEF State, Homing, Target, Task
<1>3. Recall \in Plans(Homing)
  <2>1. Recall \in {<<Set("engine", "RETURNING"), Set("wp", "home")>>,
                    <<Set("pump", FALSE), Set("engine", "RETURNING"), Set("wp", "home")>>}
    BY RecallIs
  <2> QED BY <1>2, <2>1, PlansAre
<1>4. todo \in Plans(Homing)
  <2>1. <<Set("label", "RETURNING")>> \in Seq(Writes)
        /\ Items(<<Set("label", "RETURNING")>>) = {Set("label", "RETURNING")}
    BY <1>2, Lists, Settings
  <2>2. Set("label", "RETURNING").field = "label"
    BY Settings
  <2>3. <<Set("label", "RETURNING")>> \o Recall \in Plans(Homing)
    <3> DEFINE first == <<Set("label", "RETURNING")>>
    <3> HIDE DEF first
    <3>1. first \in Seq(Writes) /\ Items(first) = {Set("label", "RETURNING")} /\ Recall \in Seq(Writes)
      BY <1>3, <2>1 DEF first, Plans
    <3>2. first \o Recall \in Seq(Writes) /\ Items(first \o Recall) = Items(first) \cup Items(Recall)
      BY <3>1, ConcatItems
    <3>3. first \o Recall \in Plans(Homing)
      BY <1>3, <2>2, <3>1, <3>2 DEF Plans
    <3> QED BY <3>3 DEF first
  <2> QED BY <2>3, NoPlan
<1> HIDE DEF todo
<1>5. todo \in Plans(State)
  BY <1>2, <1>4, PlansGrow
<1>6. tel' \in [at : Point, todo : Seq(Writes)] /\ tel'.at = "sent" /\ tel'.todo = todo
  BY <1>1, <1>5, Decides DEF IInv, Point
<1>7. Types'
  BY <1>1, <1>6 DEF IInv, Types, body, history, resources
<1> QED BY <1>1, <1>4, <1>5, <1>6, <1>7, Steps, EmptyComesHome DEF body, resources, Point

LEMMA SleepKeeps == ASSUME IInv, Sleep PROVE IInv'
<1>1. /\ tel.at # "passed" /\ tel.todo = <<>> /\ Go("rest", <<>>)
      /\ UNCHANGED <<role, body, resources, paho, history>>
  BY DEF Sleep, At
<1>2. tel' \in [at : Point, todo : Seq(Writes)] /\ tel'.at = "rest" /\ tel'.todo = <<>>
  BY <1>1, NoPlan, Decides DEF IInv, Point
<1>3. Types'
  BY <1>1, <1>2 DEF IInv, Types, body, history, resources
<1> QED BY <1>1, <1>2, <1>3, NoPlan, Steps, EmptyComesHome DEF body, resources, Point

-----------------------------------------------------------------------------
(* Assignments.                                                            *)

\* The leader's thread fills and drops nothing; if it sets an empty fighter
\* off, that fighter was sent out empty.
LEMMA PahoWritesKeeps == ASSUME IInv, PahoWrites PROVE IInv'
<1> DEFINE w == Head(paho)
<1>1. /\ w \in Writes /\ w \in Items(paho)
      /\ Tail(paho) \in Seq(Writes) /\ Items(Tail(paho)) \subseteq Items(paho)
  BY HeadOrTail DEF PahoWrites, IInv, Types
<1>2. /\ Assign(w) /\ paho' = Tail(paho)
      /\ dry' = (dry \/ (w = Set("engine", "TRANSITING") /\ load = 0))
      /\ UNCHANGED <<role, charge, load, phantom, tel, heard, orders>>
  BY DEF PahoWrites
<1>3. w.field = "engine" => w.value \in {"TRANSITING", "RETURNING"}
  BY <1>1 DEF IInv, Ordered
<1> HIDE DEF w
<1>4. dry' \in BOOLEAN /\ (dry => dry')
  <2>1. CASE dry
    BY <1>2, <2>1
  <2>2. CASE ~dry
    BY <1>2, <2>2
  <2> QED BY <2>1, <2>2
<1>5. Types'
  BY <1>1, <1>2, <1>4, Assigned DEF IInv, Types
<1>6. Ordered'
  BY <1>1, <1>2 DEF IInv, Ordered
<1>7. Drops'
  BY <1>2, <1>4 DEF IInv, Drops, Scout
<1>8. Spent'
  <2> SUFFICES ASSUME ~Scout', ~dry', load' = 0
               PROVE  /\ \A v \in Items(tel.todo) : v.field = "engine" => v.value \in Homing
                      /\ \/ engine' \in Homing
                         \/ tel.at = "passed"
                         \/ tel.at = "label" /\ \E v \in Items(tel.todo) : v.field = "engine"
    BY <1>2 DEF Spent
  <2>1. ~Scout /\ ~dry /\ load = 0 /\ w # Set("engine", "TRANSITING")
    BY <1>2, <1>4 DEF Scout
  <2>2. engine' \in Homing \/ engine' = engine
    BY <1>1, <1>2, <1>3, <2>1, WritesAre DEF Assign, Homing
  <2> QED BY <2>1, <2>2 DEF IInv, Spent
<1>9. DeliveredWasCarried'
  BY <1>2, <1>4 DEF IInv, DeliveredWasCarried
<1> QED BY <1>5, <1>6, <1>7, <1>8, <1>9 DEF IInv

\* What the telemetry thread takes from its tank.
LEMMA TelWritesTypes ==
  ASSUME IInv, TelWrites
  PROVE  /\ Types'
         /\ load' = IF Head(tel.todo).field = "service" THEN Tank
                    ELSE IF Head(tel.todo).field = "drop" /\ pump THEN Spend(load) ELSE load
         /\ tel'.at = tel.at /\ tel'.todo = Tail(tel.todo)
<1> DEFINE w == Head(tel.todo)
<1>1. w \in Writes /\ Tail(tel.todo) \in Seq(Writes)
  BY HeadOrTail DEF TelWrites, IInv, Types
<1>2. /\ Assign(w)
      /\ charge' = CASE w.field = "service" -> Full
                     [] w.field = "drop" /\ pump -> Spend(charge)
                     [] OTHER -> charge
      /\ load' = CASE w.field = "service" -> Tank
                   [] w.field = "drop" /\ pump -> Spend(load)
                   [] OTHER -> load
      /\ phantom' = (phantom \/ (w.field = "drop" /\ pump /\ load = 0))
      /\ tel' = [tel EXCEPT !.todo = Tail(@)]
      /\ UNCHANGED <<role, dry, paho, heard, orders>>
  BY DEF TelWrites
<1> HIDE DEF w
<1>3. charge' \in 0 .. Full /\ load' \in 0 .. Tank
  BY <1>2, DroneAssumption, Spends DEF IInv, Types
<1>4. phantom' \in BOOLEAN
  BY <1>2
<1>5. /\ tel' \in [at : Point, todo : Seq(Writes)]
      /\ tel'.at = tel.at /\ tel'.todo = Tail(tel.todo)
  BY <1>1, <1>2 DEF IInv, Types
<1>6. Types'
  BY <1>1, <1>2, <1>3, <1>4, <1>5, Assigned DEF IInv, Types
<1>7. load' = IF w.field = "service" THEN Tank ELSE IF w.field = "drop" /\ pump THEN Spend(load) ELSE load
  BY <1>2
<1> QED BY <1>5, <1>6, <1>7 DEF w

LEMMA TelWritesKeeps == ASSUME IInv, TelWrites PROVE IInv'
<1> DEFINE w == Head(tel.todo)
<1>1. /\ w \in Writes /\ w \in Items(tel.todo) /\ Items(Tail(tel.todo)) \subseteq Items(tel.todo)
      /\ \A e \in Items(tel.todo) : e = w \/ e \in Items(Tail(tel.todo))
  BY HeadOrTail DEF TelWrites, IInv, Types
<1>2. /\ Types' /\ tel'.at = tel.at /\ tel'.todo = Tail(tel.todo)
      /\ load' = IF w.field = "service" THEN Tank
                 ELSE IF w.field = "drop" /\ pump THEN Spend(load) ELSE load
  BY TelWritesTypes
<1>3. /\ Assign(w) /\ phantom' = (phantom \/ (w.field = "drop" /\ pump /\ load = 0))
      /\ tel.todo # <<>> /\ UNCHANGED <<role, dry, paho, heard, orders>>
  BY DEF TelWrites
<1>4. Ordered'
  BY <1>3 DEF IInv, Ordered
<1>5. w.field = "drop" => tel.at = "passed" /\ ~Scout /\ (~dry => load > 0)
  BY <1>1, <1>3 DEF IInv, Drops
<1>6. Drops'
  <2>1. CASE tel.at = "passed"
    <3>1. PICK todo \in {<<Set("drop", 0)>>, <<Set("pump", TRUE), Set("drop", 0)>>} : tel.todo = todo
      BY <1>3, <2>1 DEF IInv, Drops
    <3>2. CASE todo = <<Set("drop", 0)>>
      <4>1. Tail(tel.todo) = <<>>
        BY <3>1, <3>2
      <4> QED BY <1>2, <1>3, <2>1, <4>1 DEF IInv, Drops, Scout
    <3>3. CASE todo = <<Set("pump", TRUE), Set("drop", 0)>>
      <4>1. Head(tel.todo) = Set("pump", TRUE) /\ Tail(tel.todo) = <<Set("drop", 0)>>
        BY <3>1, <3>3
      <4>2. w.field = "pump"
        BY <4>1, Settings
      <4>3. load' = load
        BY <1>2, <4>2
      <4> QED BY <1>2, <1>3, <2>1, <4>1, <4>3 DEF IInv, Drops, Scout
    <3> QED BY <3>1, <3>2, <3>3
  <2>2. CASE tel.at # "passed"
    BY <1>1, <1>2, <2>2 DEF IInv, Drops
  <2> QED BY <2>1, <2>2
<1>7. Spent'
  <2> SUFFICES ASSUME ~Scout, ~dry, load' = 0
               PROVE  /\ \A v \in Items(tel'.todo) : v.field = "engine" => v.value \in Homing
                      /\ \/ engine' \in Homing
                         \/ tel'.at = "passed"
                         \/ tel'.at = "label" /\ \E v \in Items(tel'.todo) : v.field = "engine"
    BY <1>3 DEF Spent, Scout
  <2>1. CASE tel.at = "passed"
    <3>1. \A v \in Items(tel.todo) : v.field # "engine"
      <4>1. Set("drop", 0) \in Writes /\ Set("pump", TRUE) \in Writes
        BY Settings
      <4>2. Set("drop", 0).field = "drop" /\ Set("pump", TRUE).field = "pump"
        BY Settings
      <4>3. /\ Items(<<Set("drop", 0)>>) = {Set("drop", 0)}
            /\ Items(<<Set("pump", TRUE), Set("drop", 0)>>) = {Set("pump", TRUE), Set("drop", 0)}
        BY <4>1, Lists
      <4> QED BY <1>3, <2>1, <4>2, <4>3 DEF IInv, Drops
    <3> QED BY <1>1, <1>2, <2>1, <3>1
  <2>2. CASE tel.at # "passed"
    <3>1. w.field # "drop"
      BY <1>5, <2>2
    <3>2. Tank > 0
      BY DroneAssumption
    <3>3. w.field # "service" /\ load = 0
      BY <1>2, <3>1, <3>2
    <3>4. /\ \A v \in Items(tel.todo) : v.field = "engine" => v.value \in Homing
          /\ engine \in Homing \/ (tel.at = "label" /\ \E v \in Items(tel.todo) : v.field = "engine")
      BY <2>2, <3>3 DEF IInv, Spent
    <3>5. CASE w.field = "engine"
      BY <1>1, <1>2, <1>3, <3>4, <3>5 DEF Assign
    <3>6. CASE w.field # "engine"
      BY <1>1, <1>2, <1>3, <3>4, <3>6 DEF Assign
    <3> QED BY <3>5, <3>6
  <2> QED BY <2>1, <2>2
<1>8. DeliveredWasCarried'
  <2>1. CASE dry
    BY <1>3, <2>1 DEF DeliveredWasCarried
  <2>2. CASE ~dry
    <3>1. ~phantom /\ ~(w.field = "drop" /\ load = 0)
      BY <1>5, <2>2 DEF IInv, DeliveredWasCarried
    <3> QED BY <1>3, <3>1 DEF DeliveredWasCarried
  <2> QED BY <2>1, <2>2
<1> QED BY <1>2, <1>4, <1>6, <1>7, <1>8 DEF IInv

-----------------------------------------------------------------------------
(* Orders.                                                                 *)

Orders ==
  { todo \in Seq(Writes) :
      \A w \in Items(todo) :
        /\ w.field \notin {"drop", "service", "snap"}
        /\ w.field = "engine" => w.value \in {"TRANSITING", "RETURNING"} }

LEMMA OrdersAre ==
  /\ \A v \in Task : <<Set("label", v)>> \in Orders
  /\ \A v \in {"TRANSITING", "RETURNING"} : <<Set("engine", v)>> \in Orders
  /\ \A v \in Target : <<Set("wp", v)>> \in Orders
  /\ \A v \in Order : <<Set("done", v)>> \in Orders
  /\ <<Set("pump", FALSE)>> \in Orders /\ <<>> \in Orders
<1>1. ASSUME NEW w \in Writes, w.field \notin {"drop", "service", "snap"},
             w.field = "engine" => w.value \in {"TRANSITING", "RETURNING"}
      PROVE  <<w>> \in Orders
  BY <1>1, Lists DEF Orders
<1>2. ASSUME NEW v \in {"TRANSITING", "RETURNING"} PROVE <<Set("engine", v)>> \in Orders
  <2>1. v \in State
    BY DEF State
  <2> QED BY <1>1, <2>1, Settings
<1>3. ASSUME NEW v \in Task PROVE <<Set("label", v)>> \in Orders
  BY <1>1, Settings
<1>4. ASSUME NEW v \in Target PROVE <<Set("wp", v)>> \in Orders
  BY <1>1, Settings
<1>5. ASSUME NEW v \in Order PROVE <<Set("done", v)>> \in Orders
  BY <1>1, Settings
<1>6. <<Set("pump", FALSE)>> \in Orders
  <2>1. Set("pump", FALSE) \in Writes /\ Set("pump", FALSE).field = "pump"
    BY Settings
  <2> QED BY <1>1, <2>1
<1>7. <<>> \in Orders
  BY Lists DEF Orders
<1> QED BY <1>2, <1>3, <1>4, <1>5, <1>6, <1>7

LEMMA OrdersJoin == ASSUME NEW s \in Orders, NEW t \in Orders PROVE s \o t \in Orders
BY ConcatItems DEF Orders

LEMMA ObeyKeeps ==
  ASSUME IInv, NEW order \in Order, NEW todo \in Orders, Obey(order, todo)
  PROVE  IInv'
<1>1. todo \o <<Set("done", order)>> \in Orders
  BY OrdersAre, OrdersJoin
<1>2. /\ paho' \in Orders /\ orders < MaxOrder /\ orders' = orders + 1
      /\ UNCHANGED <<role, body, resources, tel, told, heard>>
  BY <1>1 DEF Obey
<1>3. Types'
  BY <1>2, DroneAssumption DEF IInv, Types, Orders, body, resources
<1>4. Ordered'
  BY <1>2 DEF Ordered, Orders
<1>5. Drops' /\ Spent' /\ DeliveredWasCarried'
  BY <1>2 DEF IInv, Drops, Spent, DeliveredWasCarried, Scout, body, resources
<1> QED BY <1>3, <1>4, <1>5 DEF IInv

\* Two lists joined by hand: label, then engine and waypoint.
LEMMA OrdersOfTheLeader ==
  /\ <<Set("label", WorkTask)>> \o DispatchTo \in Orders
  /\ <<Set("label", "RETURNING")>> \o Recall \in Orders
  /\ <<Set("label", "IDLE")>> \in Orders
<1>1. WorkTask \in Task /\ {"RETURNING", "IDLE"} \subseteq Task /\ {"fire", "start", "home"} \subseteq Target
  BY DEF WorkTask, Task, Target
<1>2. <<Set("label", WorkTask)>> \in Orders /\ <<Set("label", "RETURNING")>> \in Orders
      /\ <<Set("label", "IDLE")>> \in Orders
  BY <1>1, OrdersAre
<1>3. Recall \in Orders
  <2>1. <<Set("engine", "RETURNING"), Set("wp", "home")>> \in Orders
    <3>1. Set("engine", "RETURNING") \in Writes /\ Set("wp", "home") \in Writes
      BY <1>1, Settings DEF State
    <3>2. Set("engine", "RETURNING").field = "engine" /\ Set("engine", "RETURNING").value = "RETURNING"
          /\ Set("wp", "home").field = "wp"
      BY Settings
    <3> QED BY <3>1, <3>2, Lists DEF Orders
  <2>2. (IF Scout THEN <<>> ELSE <<Set("pump", FALSE)>>) \in Orders
    BY OrdersAre
  <2> QED BY <2>1, <2>2, OrdersJoin DEF Recall
<1>4. DispatchTo \in Orders
  <2>1. <<Set("engine", "TRANSITING")>> \in Orders /\ <<Set("wp", "fire")>> \in Orders
    BY <1>1, OrdersAre
  <2>2. <<Set("pump", FALSE), Set("wp", "start")>> \in Orders
    <3> DEFINE q == Set("pump", FALSE)  p == Set("wp", "start")
    <3>1. q \in Writes /\ p \in Writes /\ q.field = "pump" /\ p.field = "wp"
      BY <1>1, Settings
    <3> HIDE DEF q, p
    <3>2. <<q, p>> \in Orders
      BY <3>1, Lists DEF Orders
    <3> QED BY <3>2 DEF q, p
  <2>3. (IF Scout THEN <<Set("wp", "fire")>> ELSE <<Set("pump", FALSE), Set("wp", "start")>>) \in Orders
    BY <2>1, <2>2
  <2> QED BY <2>1, <2>3, OrdersJoin DEF DispatchTo
<1> QED BY <1>2, <1>3, <1>4, OrdersJoin

-----------------------------------------------------------------------------
(* The invariant and what follows from it.                                 *)

LEMMA Initially == Init => IInv
<1> SUFFICES ASSUME Init PROVE IInv
  OBVIOUS
<1>1. Types
  <2>1. engine \in State /\ label \in Task /\ wp \in Target \cup {NoTarget} /\ pos \in Target \cup {"far", "air"}
    BY DEF Init, State, Task, Target
  <2>2. charge \in 0 .. Full /\ load \in 0 .. Tank /\ orders \in 0 .. MaxOrder
    BY DroneAssumption DEF Init
  <2>3. paho \in Seq(Writes) /\ tel \in [at : Point, todo : Seq(Writes)]
    BY Lists DEF Init, Point
  <2>4. role \in Role /\ told \in Order /\ heard \in Order
    BY DEF Init, Order
  <2>5. pump \in BOOLEAN /\ phantom \in BOOLEAN /\ dry \in BOOLEAN
    BY DEF Init
  <2> QED BY <2>1, <2>2, <2>3, <2>4, <2>5 DEF Types
<1>2. Ordered /\ Drops
  BY Lists DEF Init, Ordered, Drops
<1>3. Spent
  BY Lists DEF Init, Spent, Homing
<1>4. DeliveredWasCarried
  BY DEF Init, DeliveredWasCarried
<1> QED BY <1>1, <1>2, <1>3, <1>4 DEF IInv

LEMMA Inductive == IInv /\ [Next]_vars => IInv'
<1> SUFFICES ASSUME IInv, [Next]_vars PROVE IInv'
  OBVIOUS
<1>1. CASE ObeyDispatch
  BY <1>1, ObeyKeeps, OrdersOfTheLeader DEF ObeyDispatch, Order
<1>2. CASE ObeyRecall
  BY <1>2, ObeyKeeps, OrdersOfTheLeader DEF ObeyRecall, Order
<1>3. CASE ObeyRelabel
  BY <1>3, ObeyKeeps, OrdersOfTheLeader DEF ObeyRelabel, Order
<1>4. CASE PahoWrites
  BY <1>4, PahoWritesKeeps
<1>5. CASE Tick
  BY <1>5, TelWritesKeeps, MoveKeeps, ScoutTickKeeps, FighterTickKeeps, DropTickKeeps,
     EndPassKeeps, RelabelKeeps, CheckBatteryKeeps, SleepKeeps DEF Tick
<1>6. CASE UNCHANGED vars
  BY <1>6 DEF vars, body, resources, history, IInv, Types, Ordered, Drops, Spent,
     DeliveredWasCarried, Scout
<1> QED BY <1>1, <1>2, <1>3, <1>4, <1>5, <1>6 DEF Next

LEMMA Always == Spec => []IInv
BY Initially, Inductive, PTL DEF Spec

\* Drone: charge and load never leave their tanks, and every field keeps its type.
THEOREM TypeCorrect == Spec => []TypeOK
BY Always, InType, PTL

\* suppression.py _do_dropping: litres_delivered never counts a tick of the pump
\* on an empty tank, unless the leader sent the drone out with one.
THEOREM DeliveredLitresWereCarried == Spec => []DeliveredWasCarried
<1>1. IInv => DeliveredWasCarried
  BY DEF IInv
<1> QED BY <1>1, Always, PTL
=============================================================================
