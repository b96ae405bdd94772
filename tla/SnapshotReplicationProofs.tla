--------------------- MODULE SnapshotReplicationProofs ---------------------
(***************************************************************************)
(* What holds of the two commanders' stores for any number of leaders,     *)
(* missions, events and writes, and for any interleaving of their threads: *)
(* TypeOK, SameVersionSameFire and NoSecondMission.  A join of two lists   *)
(* is a loop (Through); the first lemmas say that a loop has an outcome    *)
(* and that what every turn keeps holds at the end.  The invariant IInv    *)
(* types what a thread has still to do (Statement), and dates every copy   *)
(* of a fire or an event, in a store, in the hands of a thread or on its   *)
(* way: its mark is not later than the clock, and two marks of one time    *)
(* are of one state (Dated).  A step adds at most one mark, with the time  *)
(* it reads from the clock; and the index of a commander that has a        *)
(* mission names one (Indexed).                                            *)
(***************************************************************************)
EXTENDS SnapshotReplication, SequenceTheorems, WellFoundedInduction, TLAPS

\* Every set of numbers has a least element.
LEMMA MinimumExists ==
  ASSUME NEW S \in SUBSET Nat, S # {}
  PROVE  \E m \in S : \A k \in S : m <= k
<1> DEFINE R == OpToRel(<, Nat)
<1>1. IsWellFoundedOn(R, Nat)
  BY Zenon, NatLessThanWellFounded
<1>2. \A i, j \in Nat : i < j => <<i, j>> \in R
  BY DEF OpToRel
<1> HIDE DEF R
<1>3. PICK m \in S : \A k \in S : ~ (<<k, m>> \in R)
  BY <1>1, WFMin, Zenon
<1>4. \A k \in S : k \in Nat /\ m \in Nat /\ ~ (k < m)
  BY <1>2, <1>3, Zenon
<1> QED BY <1>3, <1>4

\* What holds at the start of a loop, and at each turn if it did at the last one,
\* holds throughout.
LEMMA Turns ==
  ASSUME NEW n \in Nat, NEW G, 0 \in G,
         \A i \in 1 .. n : i - 1 \in G => i \in G
  PROVE  \A i \in 0 .. n : i \in G
<1> SUFFICES ASSUME NEW k \in 0 .. n, k \notin G PROVE FALSE
  OBVIOUS
<1> DEFINE Bad == { i \in 0 .. n : i \notin G }
<1>1. Bad \in SUBSET Nat /\ Bad # {}
  OBVIOUS
<1>2. \E m \in Bad : \A i \in Bad : m <= i
  <2> HIDE DEF Bad
  <2> QED BY <1>1, MinimumExists
<1>3. PICK m \in Bad : \A i \in Bad : m <= i
  BY <1>2
<1>4. m \in 1 .. n /\ m - 1 \in 0 .. n /\ m - 1 \notin Bad
  BY <1>3
<1> QED BY <1>4

\* The turns of a loop whose step is a function: f[i] is the value after i of them.
IsStep(step, S, E) == step \in [S \X E -> S]
Unrolls(f, step, S, v, es) ==
  /\ f \in [0 .. Len(es) -> S] /\ f[0] = v
  /\ \A i \in 1 .. Len(es) : f[i] = step[<<f[i - 1], es[i]>>]

\* A loop has an outcome: the values after each turn exist.
LEMMA LoopExists ==
  ASSUME NEW S, NEW E, NEW step, IsStep(step, S, E), NEW v \in S, NEW es \in Seq(E)
  PROVE  \E f : Unrolls(f, step, S, v, es)
<1> DEFINE Run(k, f) == f[0] = v /\ \A i \in 1 .. k : f[i] = step[<<f[i - 1], es[i]>>]
           G == { k \in 0 .. Len(es) : \E f \in [0 .. k -> S] : Run(k, f) }
<1>0. step \in [S \X E -> S]
  BY DEF IsStep
<1>1. 0 \in G
  <2> DEFINE f == [i \in 0 .. 0 |-> v]
  <2>1. f \in [0 .. 0 -> S] /\ Run(0, f) /\ 0 \in 0 .. Len(es)
    OBVIOUS
  <2> HIDE DEF f, Run
  <2> QED BY <2>1
<1>2. ASSUME NEW i \in 1 .. Len(es), i - 1 \in G PROVE i \in G
  <2>1. PICK f \in [0 .. i - 1 -> S] : Run(i - 1, f)
    BY <1>2
  <2> DEFINE g == [j \in 0 .. i |-> IF j = i THEN step[<<f[i - 1], es[i]>>] ELSE f[j]]
  <2>2. es[i] \in E /\ f[i - 1] \in S /\ step[<<f[i - 1], es[i]>>] \in S
    <3>1. es[i] \in E /\ f[i - 1] \in S
      BY ElementOfSeq
    <3> QED BY <1>0, <3>1
  <2>3. g \in [0 .. i -> S]
    BY <2>2
  <2>4. ASSUME NEW j \in 1 .. i PROVE g[j] = step[<<g[j - 1], es[j]>>]
    <3>1. CASE j = i
      <4>1. j - 1 \in 0 .. i /\ j - 1 # i /\ j \in 0 .. i
        BY <3>1
      <4>2. g[j] = step[<<f[i - 1], es[i]>>] /\ g[j - 1] = f[j - 1]
        BY <3>1, <4>1
      <4> QED BY <3>1, <4>2
    <3>2. CASE j # i
      <4>1. j \in 1 .. i - 1 /\ j - 1 \in 0 .. i - 1 /\ g[j] = f[j] /\ g[j - 1] = f[j - 1]
        BY <3>2
      <4> QED BY <2>1, <4>1
    <3> QED BY <3>1, <3>2
  <2>5. g[0] = v
    <3>1. 0 \in 0 .. i /\ 0 # i
      OBVIOUS
    <3> QED BY <2>1, <3>1
  <2> HIDE DEF g
  <2>6. Run(i, g)
    BY <2>4, <2>5
  <2> HIDE DEF Run
  <2> QED BY <2>3, <2>6
<1>3. Len(es) \in Nat /\ Len(es) \in 0 .. Len(es)
  OBVIOUS
<1> HIDE DEF G
<1>4. Len(es) \in G
  <2>1. \A i \in 0 .. Len(es) : i \in G
    BY <1>1, <1>2, <1>3, Turns, Zenon
  <2> QED BY <1>3, <2>1
<1>5. \E f \in [0 .. Len(es) -> S] : Run(Len(es), f)
  <2> HIDE DEF Run
  <2> QED BY <1>4 DEF G
<1> QED BY <1>5 DEF Unrolls

\* It has no other one.
LEMMA LoopUnique ==
  ASSUME NEW S, NEW E, NEW step, IsStep(step, S, E), NEW v \in S, NEW es \in Seq(E),
         NEW f, Unrolls(f, step, S, v, es), NEW r, r[0] = v,
         \A i \in 1 .. Len(es) : r[i - 1] \in S => r[i] = step[<<r[i - 1], es[i]>>]
  PROVE  r[Len(es)] = f[Len(es)]
<1> DEFINE G == { i \in 0 .. Len(es) : r[i] = f[i] }
<1>1. Len(es) \in Nat /\ Len(es) \in 0 .. Len(es) /\ 0 \in G
  BY DEF Unrolls
<1>2. ASSUME NEW i \in 1 .. Len(es), i - 1 \in G PROVE i \in G
  <2>1. r[i - 1] = f[i - 1] /\ f[i - 1] \in S /\ i \in 0 .. Len(es)
    BY <1>2 DEF Unrolls
  <2>2. r[i] = step[<<r[i - 1], es[i]>>] /\ f[i] = step[<<f[i - 1], es[i]>>]
    BY <2>1 DEF Unrolls
  <2> QED BY <2>1, <2>2
<1> HIDE DEF G
<1>3. \A i \in 0 .. Len(es) : i \in G
  BY <1>1, <1>2, Turns, Zenon
<1> QED BY <1>1, <1>3 DEF G

\* The turns of Joined.
Joins(f, E, s, es, X) ==
  /\ f \in [0 .. Len(es) -> Seq(E)] /\ f[0] = s
  /\ \A i \in 1 .. Len(es) : f[i] = IF es[i] \in X THEN Add(f[i - 1], es[i]) ELSE f[i - 1]
  /\ Joined(s, es, X) = f[Len(es)]

\* They exist.
LEMMA JoinsExists ==
  ASSUME NEW E, NEW X, NEW s \in Seq(E), NEW es \in Seq(E)
  PROVE  \E f : Joins(f, E, s, es, X)
<1> DEFINE S == Seq(E)
           turn(v, x) == IF x \in X THEN Add(v, x) ELSE v
           step == [p \in S \X E |-> turn(p[1], p[2])]
           Loop(g) == g = [i \in 0 .. Len(es) |-> IF i = 0 THEN s ELSE turn(g[i - 1], es[i])]
           r == CHOOSE g : Loop(g)
<1>1. IsStep(step, S, E) /\ s \in S
  BY AppendProperties DEF IsStep, Add
<1>2. \A v \in S, x \in E : step[<<v, x>>] = turn(v, x)
  OBVIOUS
<1>3. Joined(s, es, X) = r[Len(es)]
  BY DEF Joined, Through
<1>4. \A i \in 1 .. Len(es) : es[i] \in E /\ i - 1 \in 0 .. Len(es)
  BY ElementOfSeq
<1> HIDE DEF S, step, turn, r
<1>5. PICK f : Unrolls(f, step, S, s, es)
  BY <1>1, LoopExists
<1>6. f \in [0 .. Len(es) -> S] /\ f[0] = s
      /\ \A i \in 1 .. Len(es) : f[i] = turn(f[i - 1], es[i])
  BY <1>2, <1>4, <1>5 DEF Unrolls
<1>7. Loop(f)
  <2>1. \A i \in 0 .. Len(es) : f[i] = IF i = 0 THEN s ELSE turn(f[i - 1], es[i])
    BY <1>6
  <2> QED BY <1>6, <2>1
<1>8. Loop(r)
  <2> HIDE DEF Loop
  <2> QED BY <1>7 DEF r
<1>9. r[0] = s /\ \A i \in 1 .. Len(es) : r[i] = turn(r[i - 1], es[i])
  <2>1. \A i \in 0 .. Len(es) : r[i] = IF i = 0 THEN s ELSE turn(r[i - 1], es[i])
    BY <1>8
  <2> QED BY <2>1
<1>10. r[Len(es)] = f[Len(es)]
  BY <1>1, <1>2, <1>4, <1>5, <1>9, LoopUnique
<1> QED BY <1>3, <1>6, <1>10 DEF Joins, S, turn

\* What is in a list.
LEMMA SetOfSeq ==
  ASSUME NEW E, NEW s \in Seq(E)
  PROVE  ToSet(s) \subseteq E
BY DEF ToSet

\* Adding an element to a list without repetition.
LEMMA AddItems ==
  ASSUME NEW E, NEW s \in Seq(E), NEW x \in E
  PROVE  /\ Add(s, x) \in Seq(E) /\ ToSet(Add(s, x)) = ToSet(s) \cup {x}
         /\ IsInjective(s) => IsInjective(Add(s, x))
<1>1. CASE x \in ToSet(s)
  BY <1>1 DEF Add
<1>2. CASE x \notin ToSet(s)
  <2> DEFINE t == Append(s, x)
  <2>1. /\ Add(s, x) = t /\ t \in Seq(E) /\ Len(t) = Len(s) + 1 /\ Len(s) \in Nat
        /\ t[Len(s) + 1] = x /\ \A i \in 1 .. Len(s) : t[i] = s[i]
        /\ DOMAIN t = 1 .. Len(t) /\ DOMAIN s = 1 .. Len(s)
    BY <1>2 DEF Add
  <2> HIDE DEF t
  <2>2. \A i \in DOMAIN t : i \in DOMAIN s \/ i = Len(s) + 1
    BY <2>1
  <2>3. ToSet(t) \subseteq ToSet(s) \cup {x}
    BY <2>1, <2>2 DEF ToSet
  <2>4. ToSet(s) \cup {x} \subseteq ToSet(t)
    <3>1. ASSUME NEW i \in DOMAIN s PROVE s[i] \in ToSet(t)
      BY <2>1 DEF ToSet
    <3>2. x \in ToSet(t)
      BY <2>1 DEF ToSet
    <3> QED BY <3>1, <3>2 DEF ToSet
  <2>5. ASSUME IsInjective(s) PROVE IsInjective(t)
    <3> SUFFICES ASSUME NEW i \in DOMAIN t, NEW j \in DOMAIN t, t[i] = t[j] PROVE i = j
      BY DEF IsInjective
    <3>1. \A k \in DOMAIN s : s[k] # x
      BY <1>2 DEF ToSet
    <3> QED BY <2>1, <2>2, <2>5, <3>1 DEF IsInjective
  <2> QED BY <2>1, <2>3, <2>4, <2>5
<1> QED BY <1>1, <1>2

\* Joining two lists: what is in the result, and that nothing is in it twice.
LEMMA JoinedItems ==
  ASSUME NEW E, NEW X, NEW s, NEW es, s \in Seq(E), es \in Seq(E)
  PROVE  /\ Joined(s, es, X) \in Seq(E)
         /\ ToSet(Joined(s, es, X)) = ToSet(s) \cup (ToSet(es) \cap X)
         /\ IsInjective(s) => IsInjective(Joined(s, es, X))
<1>0. PICK f : Joins(f, E, s, es, X)
  BY JoinsExists
<1>1. /\ f \in [0 .. Len(es) -> Seq(E)] /\ f[0] = s
      /\ \A i \in 1 .. Len(es) : f[i] = IF es[i] \in X THEN Add(f[i - 1], es[i]) ELSE f[i - 1]
      /\ Joined(s, es, X) = f[Len(es)]
  BY <1>0 DEF Joins
<1> DEFINE Taken(i) == { es[j] : j \in 1 .. i } \cap X
           G == { i \in 0 .. Len(es) : /\ ToSet(f[i]) = ToSet(s) \cup Taken(i)
                                       /\ IsInjective(s) => IsInjective(f[i]) }
<1>2. Len(es) \in Nat /\ Len(es) \in 0 .. Len(es) /\ 0 \in 0 .. Len(es)
  OBVIOUS
<1>3. 0 \in G
  <2>1. Taken(0) = {}
    OBVIOUS
  <2> QED BY <1>1, <1>2, <2>1
<1>4. ASSUME NEW i \in 1 .. Len(es), i - 1 \in G PROVE i \in G
  <2> DEFINE t == f[i - 1]
             x == es[i]
  <2>1. /\ t \in Seq(E) /\ x \in E /\ i \in 0 .. Len(es)
        /\ f[i] = IF x \in X THEN Add(t, x) ELSE t
    <3>1. i - 1 \in 0 .. Len(es)
      OBVIOUS
    <3> QED BY <1>1, <3>1, ElementOfSeq
  <2>5. ToSet(t) = ToSet(s) \cup Taken(i - 1) /\ (IsInjective(s) => IsInjective(t))
    BY <1>4
  <2>2. Taken(i) = Taken(i - 1) \cup ({es[i]} \cap X)
    <3>1. 1 .. i = (1 .. i - 1) \cup {i}
      OBVIOUS
    <3> QED BY <3>1
  <2> HIDE DEF Taken, t, x
  <2>3. CASE x \in X
    <3>1. /\ ToSet(Add(t, x)) = ToSet(t) \cup {x}
          /\ IsInjective(t) => IsInjective(Add(t, x))
      BY <2>1, AddItems
    <3>2. Taken(i) = Taken(i - 1) \cup {x}
      BY <2>2, <2>3 DEF x
    <3> QED BY <2>1, <2>3, <2>5, <3>1, <3>2
  <2>4. CASE x \notin X
    <3>1. Taken(i) = Taken(i - 1)
      BY <2>2, <2>4 DEF x
    <3> QED BY <2>1, <2>4, <2>5, <3>1
  <2> QED BY <2>3, <2>4
<1> HIDE DEF G
<1>5. Len(es) \in G
  <2>1. \A i \in 0 .. Len(es) : i \in G
    BY <1>2, <1>3, <1>4, Turns, Zenon
  <2> QED BY <1>2, <2>1
<1>6. ToSet(es) = { es[j] : j \in 1 .. Len(es) }
  BY DEF ToSet
<1> QED BY <1>1, <1>2, <1>5, <1>6 DEF G

-----------------------------------------------------------------------------
(* What a thread has still to do.                                          *)

EventType == {"DETECTED", "CONTAINED", "SUPPRESSED", "DISPATCHED", "REDISPATCHED"}
Target == Leader \cup {NoLeader}
Event == [type : EventType, node : Target, at : Time]
FireRecord == { f \in [state : FireState, nodes : Seq(Leader), ver : Time] : IsInjective(f.nodes) }
Missions == [Mission -> [state : MissionState, ver : Time]]
Snapshot == [fire : FireRecord, missions : Missions, events : Seq(Event)]
Reading == {"fires", "states", "versions", "events", "publish"}

\* Statements that carry no copy of a fire or an event.
Plain ==
  ({"ignite", "create", "rules", "again", "reassigned", "deactivate"} \X {NoLeader})
  \cup ({"turn"} \X (FireState \ {"UNKNOWN"}))
  \cup ({"assign", "unassign", "redispatch"} \X Target)
  \cup ({"move", "pause"} \X (MissionState \ {"NONE"}))
  \cup ({"stamp"} \X Mission)
  \cup ({"log"} \X [type : EventType, node : Target])
  \cup ({"missions"} \X Missions)

Statement ==
  Plain \cup ({"store"} \X FireRecord) \cup ({"append", "project"} \X Event)
  \cup (Reading \X Snapshot)

\* When a copy was made of what.
FireMark(f) == <<"fire", f.state, f.ver>>
EventMark(e) == <<"event", e, e.at>>
SnapMarks(s) == {FireMark(s.fire)} \cup { EventMark(e) : e \in ToSet(s.events) }
MarksOf(op) ==
  IF op[1] = "store" THEN {FireMark(op[2])}
  ELSE IF op[1] \in {"append", "project"} THEN {EventMark(op[2])}
  ELSE IF op[1] \in Reading THEN SnapMarks(op[2]) ELSE {}

\* The marks of one commander, and of both.
Holds(c, m) ==
  \/ m = FireMark(fire[c])
  \/ \E e \in ToSet(events[c]) : m = EventMark(e)
  \/ \E t \in Thread : \E op \in ToSet(work[c][t]) : m \in MarksOf(op)
  \/ \E s \in ToSet(inbox[c]) : m \in SnapMarks(s)
Mark(m) == m = FireMark(NoFire) \/ \E c \in Commander : Holds(c, m)

Working == [Commander -> [Thread -> Seq(Statement)]]

Typed ==
  /\ clock \in Time /\ minted \in 0 .. MaxMission /\ happened \in 0 .. MaxEvent
  /\ fire \in [Commander -> FireRecord]
  /\ mission \in [Commander -> Missions] /\ saved \in [Commander -> Missions]
  /\ index \in [Commander -> 0 .. MaxMission]
  /\ events \in [Commander -> Seq(Event)] /\ \A c \in Commander : IsInjective(events[c])
  /\ up \in [Commander -> BOOLEAN] /\ active \in [Commander -> BOOLEAN]
  /\ work \in Working /\ lastAt \in [Commander -> Time]
  /\ inbox \in [Commander -> Seq(Snapshot)]

Dated ==
  /\ \A m : Mark(m) => m[3] \in Nat /\ m[3] <= clock
  /\ \A m, n : Mark(m) /\ Mark(n) /\ m[1] = n[1] /\ m[3] = n[3] => m[2] = n[2]

Indexed ==
  \A c \in Commander :
    /\ index[c] # 0 => mission[c][index[c]].state # "NONE"
    /\ \A m \in Mission : mission[c][m].state # "NONE" => index[c] # 0

IInv == Typed /\ Dated /\ Indexed

\* Each thread has left to do what it had, or something of ops.
Delivered(ops) ==
  \A c \in Commander, t \in Thread : ToSet(work'[c][t]) \subseteq ToSet(work[c][t]) \cup ToSet(ops)

\* What a statement says is of its kind.
LEMMA StatementArgs ==
  ASSUME NEW op \in Statement
  PROVE  /\ op[1] = "turn" => op[2] \in FireState \ {"UNKNOWN"}
         /\ op[1] \in {"assign", "unassign", "redispatch"} => op[2] \in Target
         /\ op[1] \in {"move", "pause"} => op[2] \in MissionState \ {"NONE"}
         /\ op[1] = "stamp" => op[2] \in Mission
         /\ op[1] = "log" => op[2] \in [type : EventType, node : Target]
         /\ op[1] = "missions" => op[2] \in Missions
         /\ op[1] = "store" => op[2] \in FireRecord
         /\ op[1] \in {"append", "project"} => op[2] \in Event
         /\ op[1] \in Reading => op[2] \in Snapshot
         /\ op = <<op[1], op[2]>>
BY DEF Statement, Plain, Reading

\* A plain statement carries no mark.
LEMMA PlainMarks ==
  ASSUME NEW op \in Plain
  PROVE  op \in Statement /\ MarksOf(op) = {}
BY DEF Statement, Plain, MarksOf, Reading

\* Lists given by their elements.
LEMMA ListOf ==
  ASSUME NEW S, NEW a \in S, NEW b \in S
  PROVE  /\ <<>> \in Seq(S) /\ ToSet(<<>>) = {}
         /\ <<a>> \in Seq(S) /\ ToSet(<<a>>) = {a}
         /\ <<a, b>> \in Seq(S) /\ ToSet(<<a, b>>) = {a, b}
BY DEF ToSet

\* The elements of a list that is put before the rest of another.
LEMMA PutBefore ==
  ASSUME NEW S, NEW ops \in Seq(S), NEW w \in Seq(S)
  PROVE  /\ ops \o w \in Seq(S) /\ ToSet(ops \o w) \subseteq ToSet(ops) \cup ToSet(w)
         /\ w # <<>> => /\ Head(w) \in ToSet(w) /\ Head(w) \in S
                        /\ Tail(w) \in Seq(S) /\ ToSet(Tail(w)) \subseteq ToSet(w)
<1>1. ops \o w \in Seq(S) /\ ToSet(ops \o w) \subseteq ToSet(ops) \cup ToSet(w)
  <2>1. ASSUME NEW i \in 1 .. Len(ops \o w) PROVE (ops \o w)[i] \in ToSet(ops) \cup ToSet(w)
    <3>1. CASE i <= Len(ops)
      BY <3>1 DEF ToSet
    <3>2. CASE i > Len(ops)
      <4>1. i - Len(ops) \in 1 .. Len(w) /\ (ops \o w)[i] = w[i - Len(ops)]
        BY <3>2
      <4> QED BY <4>1 DEF ToSet
    <3> QED BY <3>1, <3>2
  <2> QED BY <2>1 DEF ToSet
<1>2. ASSUME w # <<>>
      PROVE  /\ Head(w) \in ToSet(w) /\ Head(w) \in S
             /\ Tail(w) \in Seq(S) /\ ToSet(Tail(w)) \subseteq ToSet(w)
  <2>1. Len(w) \in Nat /\ Len(w) > 0 /\ Head(w) = w[1] /\ 1 \in DOMAIN w
    BY <1>2
  <2>2. ASSUME NEW i \in DOMAIN Tail(w) PROVE Tail(w)[i] \in ToSet(w)
    <3>1. i + 1 \in DOMAIN w /\ Tail(w)[i] = w[i + 1]
      BY <1>2
    <3> QED BY <3>1 DEF ToSet
  <2> QED BY <1>2, <2>1, <2>2 DEF ToSet
<1> QED BY <1>1, <1>2

\* The statement a thread is at.
LEMMA AtHead ==
  ASSUME Typed, NEW c \in Commander, NEW t \in Thread, NEW what, At(c, t, what)
  PROVE  /\ work[c][t] \in Seq(Statement) /\ work[c][t] # <<>> /\ up[c]
         /\ Head(work[c][t]) \in ToSet(work[c][t]) /\ Head(work[c][t]) \in Statement
         /\ Head(work[c][t])[1] = what /\ Head(work[c][t])[2] = Arg(c, t)
<1>1. work[c][t] \in Seq(Statement) /\ work[c][t] # <<>> /\ up[c]
  BY DEF Typed, Working, At
<1>2. Head(work[c][t]) \in ToSet(work[c][t]) /\ Head(work[c][t]) \in Statement
  BY <1>1, PutBefore
<1> QED BY <1>1, <1>2 DEF At, Arg

\* It is replaced.
LEMMA GoesDelivers ==
  ASSUME Typed, NEW c \in Commander, NEW t \in Thread, work[c][t] # <<>>,
         NEW ops \in Seq(Statement), Goes(c, t, ops)
  PROVE  work' \in Working /\ Delivered(ops)
<1> DEFINE w == work[c][t]
           rest == Tail(w)
           r == ops \o rest
<1>1. w \in Seq(Statement) /\ rest \in Seq(Statement) /\ ToSet(rest) \subseteq ToSet(w)
  BY PutBefore DEF Typed, Working
<1>3. work' = [work EXCEPT ![c] = [work[c] EXCEPT ![t] = r]]
  BY DEF Goes
<1>2. r \in Seq(Statement) /\ ToSet(r) \subseteq ToSet(w) \cup ToSet(ops)
  <2> HIDE DEF rest, w
  <2>1. r \in Seq(Statement) /\ ToSet(r) \subseteq ToSet(ops) \cup ToSet(rest)
    BY <1>1, PutBefore
  <2> QED BY <1>1, <2>1
<1> HIDE DEF r
<1>4. work' \in Working
  BY <1>2, <1>3 DEF Typed, Working
<1>5. ASSUME NEW d \in Commander, NEW u \in Thread
      PROVE  work'[d][u] = work[d][u] \/ (d = c /\ u = t /\ work'[d][u] = r)
  BY <1>3 DEF Typed, Working
<1> QED BY <1>2, <1>4, <1>5 DEF Delivered

\* An idle thread begins.
LEMMA BeginsDelivers ==
  ASSUME Typed, NEW c \in Commander, NEW t \in Thread, NEW ops \in Seq(Statement),
         work' = [work EXCEPT ![c][t] = ops]
  PROVE  work' \in Working /\ Delivered(ops)
<1>1. work' = [work EXCEPT ![c] = [work[c] EXCEPT ![t] = ops]]
  OBVIOUS
<1>2. work' \in Working
  BY <1>1 DEF Typed, Working
<1>3. ASSUME NEW d \in Commander, NEW u \in Thread
      PROVE  work'[d][u] = work[d][u] \/ work'[d][u] = ops
  BY <1>1 DEF Typed, Working
<1> QED BY <1>2, <1>3 DEF Delivered

\* What a commander, or one of its threads, has is marked.
LEMMA Marked ==
  ASSUME NEW c \in Commander
  PROVE  /\ Mark(FireMark(fire[c])) /\ Mark(FireMark(NoFire))
         /\ \A e \in ToSet(events[c]) : Mark(EventMark(e))
         /\ \A t \in Thread : \A op \in ToSet(work[c][t]) : \A m \in MarksOf(op) : Mark(m)
         /\ \A s \in ToSet(inbox[c]) : \A m \in SnapMarks(s) : Mark(m)
BY Zenon DEF Mark, Holds

\* A step that leaves the old marks, and one new mark that bears its time.
LEMMA DatedOn ==
  ASSUME Dated, clock \in Nat, NEW new,
         clock' = clock \/ clock' = clock + 1,
         \A m : Mark(m)' => Mark(m) \/ (m = new /\ new[3] = clock + 1 /\ clock' = clock + 1)
  PROVE  Dated'
<1>1. ASSUME NEW m, Mark(m)' PROVE m[3] \in Nat /\ m[3] <= clock'
  BY <1>1 DEF Dated
<1>2. ASSUME NEW m, NEW n, Mark(m)', Mark(n)', m[1] = n[1], m[3] = n[3] PROVE m[2] = n[2]
  <2>1. CASE Mark(m) /\ Mark(n)
    BY <1>2, <2>1 DEF Dated
  <2>2. CASE ~ Mark(m) /\ ~ Mark(n)
    BY <1>2, <2>2
  <2>3. CASE Mark(m) /\ ~ Mark(n)
    <3>1. m[3] \in Nat /\ m[3] <= clock /\ n[3] = clock + 1
      BY <1>2, <2>3 DEF Dated
    <3> QED BY <1>2, <3>1
  <2>4. CASE ~ Mark(m) /\ Mark(n)
    <3>1. n[3] \in Nat /\ n[3] <= clock /\ m[3] = clock + 1
      BY <1>2, <2>4 DEF Dated
    <3> QED BY <1>2, <3>1
  <2> QED BY <2>1, <2>2, <2>3, <2>4
<1> QED BY <1>1, <1>2 DEF Dated

\* The marks after a step are those of what it wrote.
LEMMA MarksAfter ==
  ASSUME NEW ops, Delivered(ops), NEW new,
         \A d \in Commander : Mark(FireMark(fire'[d])) \/ FireMark(fire'[d]) = new,
         \A d \in Commander : \A e \in ToSet(events'[d]) : Mark(EventMark(e)) \/ EventMark(e) = new,
         \A d \in Commander : \A s \in ToSet(inbox'[d]) : \A m \in SnapMarks(s) : Mark(m),
         \A op \in ToSet(ops) : \A m \in MarksOf(op) : Mark(m) \/ m = new
  PROVE  \A m : Mark(m)' => Mark(m) \/ m = new
<1> SUFFICES ASSUME NEW m, Mark(m)', m # FireMark(NoFire) PROVE Mark(m) \/ m = new
  BY DEF Mark
<1>1. PICK c \in Commander : Holds(c, m)'
  BY DEF Mark
<1>2. CASE m = FireMark(fire'[c])
  BY <1>2
<1>3. CASE \E e \in ToSet(events'[c]) : m = EventMark(e)
  BY <1>3
<1>4. CASE \E t \in Thread : \E op \in ToSet(work'[c][t]) : m \in MarksOf(op)
  <2>4. PICK t \in Thread : \E op \in ToSet(work'[c][t]) : m \in MarksOf(op)
    BY <1>4
  <2>1. PICK op \in ToSet(work'[c][t]) : m \in MarksOf(op)
    BY <2>4
  <2>2. CASE op \in ToSet(work[c][t])
    BY <2>1, <2>2, Marked
  <2>3. CASE op \in ToSet(ops)
    BY <2>1, <2>3
  <2> QED BY <2>1, <2>2, <2>3 DEF Delivered
<1>5. CASE \E s \in ToSet(inbox'[c]) : m \in SnapMarks(s)
  BY <1>5
<1> QED BY <1>1, <1>2, <1>3, <1>4, <1>5 DEF Holds, FireMark, EventMark, SnapMarks, MarksOf

\* A step of threads that makes no copy of its own.
LEMMA QuietStep ==
  ASSUME IInv, NEW ops, work' \in Working, Delivered(ops),
         \A op \in ToSet(ops) : \A m \in MarksOf(op) : Mark(m),
         UNCHANGED <<clock, storeVars>>, lastAt' \in [Commander -> Time],
         inbox' \in [Commander -> Seq(Snapshot)],
         \A d \in Commander : \A s \in ToSet(inbox'[d]) : \A m \in SnapMarks(s) : Mark(m),
         up' \in [Commander -> BOOLEAN], active' \in [Commander -> BOOLEAN],
         happened' \in 0 .. MaxEvent
  PROVE  IInv' /\ minted' = minted
<1>1. Typed /\ Dated /\ Indexed
  BY DEF IInv
<1>2. Typed'
  BY <1>1 DEF Typed, storeVars
<1>3. Indexed'
  BY <1>1 DEF Indexed, storeVars
<1>4. fire' = fire /\ events' = events /\ clock' = clock /\ clock \in Nat /\ minted' = minted
  BY <1>1, ReplicationAssumption DEF storeVars, Typed, Time
<1>5. \A m : Mark(m)' => Mark(m) \/ m = FireMark(NoFire)
  <2>1. \A d \in Commander : Mark(FireMark(fire'[d]))
    BY <1>4, Marked
  <2>2. \A d \in Commander : \A e \in ToSet(events'[d]) : Mark(EventMark(e))
    BY <1>4, Marked
  <2> QED BY <2>1, <2>2, MarksAfter
<1>6. \A m : Mark(m)' => Mark(m)
  BY <1>5 DEF Mark
<1>7. Dated'
  BY <1>1, <1>4, <1>6, DatedOn
<1> QED BY <1>2, <1>3, <1>4, <1>7 DEF IInv

\* The marks of what is on its way are there already.
LEMMA InboxMarked ==
  ASSUME inbox' = inbox
  PROVE  \A d \in Commander : \A s \in ToSet(inbox'[d]) : \A m \in SnapMarks(s) : Mark(m)
BY Marked

\* A list of plain statements.
LEMMA PlainList ==
  ASSUME NEW ops \in Seq(Plain)
  PROVE  /\ ops \in Seq(Statement)
         /\ \A op \in ToSet(ops) : \A m \in MarksOf(op) : Mark(m)
<1>1. \A i \in 1 .. Len(ops) : ops[i] \in Plain /\ ops[i] \in Statement
  BY PlainMarks
<1>2. ops \in Seq(Statement)
  BY <1>1
<1>3. \A op \in ToSet(ops) : MarksOf(op) = {}
  BY <1>1, PlainMarks DEF ToSet
<1> QED BY <1>2, <1>3

\* A handler takes plain statements in hand.
LEMMA HandleKeeps ==
  ASSUME IInv, NEW c \in Commander, NEW t \in Thread, NEW ops \in Seq(Plain), Handle(c, t, ops)
  PROVE  IInv' /\ minted' = minted
<1>1. /\ Typed /\ work' = [work EXCEPT ![c][t] = ops]
      /\ happened < MaxEvent /\ happened' = happened + 1
      /\ UNCHANGED <<clock, storeVars, roleVars, netVars>>
  BY DEF IInv, Handle, Begins, Happens
<1>2. ops \in Seq(Statement) /\ \A op \in ToSet(ops) : \A m \in MarksOf(op) : Mark(m)
  BY PlainList
<1>3. work' \in Working /\ Delivered(ops)
  BY <1>1, <1>2, BeginsDelivers
<1>4. /\ lastAt' \in [Commander -> Time] /\ inbox' \in [Commander -> Seq(Snapshot)]
      /\ up' \in [Commander -> BOOLEAN] /\ active' \in [Commander -> BOOLEAN]
      /\ inbox' = inbox
  BY <1>1 DEF Typed, roleVars, netVars
<1>5. happened' \in 0 .. MaxEvent
  BY <1>1, ReplicationAssumption DEF Typed
<1>6. \A d \in Commander : \A s \in ToSet(inbox'[d]) : \A m \in SnapMarks(s) : Mark(m)
  BY <1>4, InboxMarked
<1> QED BY <1>1, <1>2, <1>3, <1>4, <1>5, <1>6, QuietStep

\* The statements of the handlers and the rules.
LEMMA Statements ==
  /\ \A x \in FireState \ {"UNKNOWN"} : Do("turn", x) \in Plain
  /\ \A x \in Target : Do("assign", x) \in Plain /\ Do("unassign", x) \in Plain
                       /\ Do("redispatch", x) \in Plain
  /\ \A x \in MissionState \ {"NONE"} : Do("move", x) \in Plain /\ Do("pause", x) \in Plain
  /\ \A x \in EventType, l \in Target : Log(x, l) \in Plain
  /\ \A x \in Mission : Do("stamp", x) \in Plain
  /\ \A x \in {"ignite", "create", "rules", "again", "reassigned", "deactivate"} :
       Do(x, NoLeader) \in Plain
  /\ Rules \in Plain
BY DEF Do, Log, Rules, Plain

\* The words the code uses.
LEMMA Words ==
  /\ {"IGNITED", "ACTIVE", "CONTAINED", "SUPPRESSED"} \subseteq FireState \ {"UNKNOWN"}
  /\ {"ASSIGNED", "RUNNING", "PAUSED", "COMPLETED", "CREATED"} \subseteq MissionState \ {"NONE"}
  /\ Leader \subseteq Target /\ NoLeader \in Target
  /\ {"mqtt", "monitor", "main", "loop"} = Thread
BY DEF FireState, MissionState, Target, Thread

\* Dispatching a leader.
LEMMA DispatchPlain ==
  ASSUME NEW l \in Leader
  PROVE  Dispatch(l) \in Seq(Plain)
<1>1. Do("assign", l) \in Plain /\ Log("DISPATCHED", l) \in Plain
  BY Statements, Words DEF EventType
<1> QED BY <1>1, ListOf DEF Dispatch

\* The handlers.
LEMMA HandlersKeep ==
  ASSUME IInv, NEW c \in Commander,
         \/ FireDetected(c) \/ FireContained(c) \/ FireSuppressed(c) \/ FireRekindled(c)
         \/ AckReceived(c) \/ \E l \in Leader : LeaderFailed(c, l) \/ LeaderAvailable(c, l)
  PROVE  IInv' /\ minted' = minted
<1>1. "mqtt" \in Thread /\ "monitor" \in Thread
  BY Words
<1>2. CASE FireDetected(c)
  <2>1. PICK free \in {<<>>, << Do("move", "ASSIGNED") >>} :
          Handle(c, "mqtt",
                 << Do("ignite", NoLeader), Do("turn", "ACTIVE"), Do("create", NoLeader),
                    Log("DETECTED", NoLeader), Rules >> \o free)
    BY <1>2 DEF FireDetected
  <2>2. /\ Do("ignite", NoLeader) \in Plain /\ Do("turn", "ACTIVE") \in Plain
        /\ Do("create", NoLeader) \in Plain /\ Log("DETECTED", NoLeader) \in Plain
        /\ Rules \in Plain /\ Do("move", "ASSIGNED") \in Plain
    BY Statements, Words DEF EventType
  <2>3. << Do("ignite", NoLeader), Do("turn", "ACTIVE"), Do("create", NoLeader),
           Log("DETECTED", NoLeader), Rules >> \in Seq(Plain)
    BY <2>2
  <2>4. free \in Seq(Plain)
    <3>1. <<>> \in Seq(Plain) /\ << Do("move", "ASSIGNED") >> \in Seq(Plain)
      BY <2>2, ListOf
    <3> QED BY <3>1
  <2>5. << Do("ignite", NoLeader), Do("turn", "ACTIVE"), Do("create", NoLeader),
           Log("DETECTED", NoLeader), Rules >> \o free \in Seq(Plain)
    BY <2>3, <2>4, ConcatProperties
  <2> QED BY <1>1, <2>1, <2>5, HandleKeeps
<1>3. CASE FireContained(c)
  <2>1. /\ Do("turn", "CONTAINED") \in Plain /\ Log("CONTAINED", NoLeader) \in Plain
        /\ Rules \in Plain
    BY Statements, Words DEF EventType
  <2>2. << Do("turn", "CONTAINED"), Log("CONTAINED", NoLeader), Rules >> \in Seq(Plain)
    BY <2>1
  <2> QED BY <1>1, <1>3, <2>2, HandleKeeps DEF FireContained
<1>4. CASE FireSuppressed(c)
  <2>1. /\ Do("turn", "SUPPRESSED") \in Plain /\ Log("SUPPRESSED", NoLeader) \in Plain
        /\ Rules \in Plain /\ Do("move", "COMPLETED") \in Plain
    BY Statements, Words DEF EventType
  <2>2. << Do("turn", "SUPPRESSED"), Log("SUPPRESSED", NoLeader), Rules,
           Do("move", "COMPLETED") >> \in Seq(Plain)
    BY <2>1
  <2> QED BY <1>1, <1>4, <2>2, HandleKeeps DEF FireSuppressed
<1>5. CASE FireRekindled(c)
  <2>1. Do("turn", "ACTIVE") \in Plain
    BY Statements, Words
  <2>2. << Do("turn", "ACTIVE") >> \in Seq(Plain)
    BY <2>1, ListOf
  <2> QED BY <1>1, <1>5, <2>2, HandleKeeps DEF FireRekindled
<1>6. CASE AckReceived(c)
  <2>1. Do("move", "RUNNING") \in Plain
    BY Statements, Words
  <2>2. << Do("move", "RUNNING") >> \in Seq(Plain)
    BY <2>1, ListOf
  <2> QED BY <1>1, <1>6, <2>2, HandleKeeps DEF AckReceived
<1>7. ASSUME NEW l \in Leader, LeaderFailed(c, l) PROVE IInv' /\ minted' = minted
  <2>1. Do("move", "PAUSED") \in Plain /\ Do("redispatch", l) \in Plain
    BY Statements, Words
  <2>2. << Do("move", "PAUSED"), Do("redispatch", l) >> \in Seq(Plain)
    BY <2>1, ListOf
  <2> QED BY <1>1, <1>7, <2>2, HandleKeeps DEF LeaderFailed
<1>8. ASSUME NEW l \in Leader, LeaderAvailable(c, l) PROVE IInv' /\ minted' = minted
  <2>1. Dispatch(l) \in Seq(Plain)
    BY DispatchPlain
  <2> QED BY <1>1, <1>8, <2>1, HandleKeeps DEF LeaderAvailable
<1> QED BY <1>2, <1>3, <1>4, <1>5, <1>6, <1>7, <1>8

\* The projector's answer to an event is a list of plain statements.
LEMMA ProjectsPlain ==
  ASSUME NEW f, NEW e \in Event
  PROVE  Projects(f, e) \in Seq(Plain)
<1>1. e.type \in EventType /\ e.node \in Target
  BY DEF Event
<1>2. /\ Do("ignite", NoLeader) \in Plain /\ Do("turn", "ACTIVE") \in Plain
      /\ Do("turn", "CONTAINED") \in Plain /\ Do("turn", "SUPPRESSED") \in Plain
      /\ Do("assign", e.node) \in Plain /\ Do("unassign", e.node) \in Plain
      /\ Do("move", "ASSIGNED") \in Plain /\ Do("pause", "PAUSED") \in Plain
  BY <1>1, Statements, Words
<1>3. /\ <<>> \in Seq(Plain)
      /\ << Do("ignite", NoLeader), Do("turn", "ACTIVE") >> \in Seq(Plain)
      /\ << Do("turn", "CONTAINED") >> \in Seq(Plain) /\ << Do("turn", "SUPPRESSED") >> \in Seq(Plain)
      /\ << Do("assign", e.node) >> \in Seq(Plain) /\ << Do("unassign", e.node) >> \in Seq(Plain)
      /\ << Do("move", "ASSIGNED") >> \in Seq(Plain) /\ << Do("pause", "PAUSED") >> \in Seq(Plain)
  BY <1>2, ListOf
<1> DEFINE sent == IF f.state = "UNKNOWN" \/ e.node \in ToSet(f.nodes) THEN <<>>
                   ELSE << Do("assign", e.node) >>
           freed == IF f.state = "UNKNOWN" THEN <<>> ELSE << Do("unassign", e.node) >>
<1>4. sent \in Seq(Plain) /\ freed \in Seq(Plain)
  BY <1>3
<1>5. /\ sent \o << Do("move", "ASSIGNED") >> \in Seq(Plain)
      /\ freed \o << Do("pause", "PAUSED") >> \in Seq(Plain)
  <2> HIDE DEF sent, freed
  <2> QED BY <1>3, <1>4, ConcatProperties
<1>6. CASE Stale(f, e)
  BY <1>3, <1>6 DEF Projects
<1>7. CASE ~ Stale(f, e)
  <2>1. CASE e.type = "DETECTED"
    BY <1>3, <1>7, <2>1 DEF Projects
  <2>2. CASE e.type = "CONTAINED"
    BY <1>3, <1>7, <2>2 DEF Projects
  <2>3. CASE e.type = "SUPPRESSED"
    BY <1>3, <1>7, <2>3 DEF Projects
  <2>4. CASE e.type = "DISPATCHED"
    BY <1>5, <1>7, <2>4 DEF Projects
  <2>5. CASE e.type = "REDISPATCHED"
    BY <1>5, <1>7, <2>5 DEF Projects
  <2> QED BY <1>1, <2>1, <2>2, <2>3, <2>4, <2>5 DEF EventType
<1> QED BY <1>6, <1>7

\* So is what the rules decide.
LEMMA DecisionsPlain ==
  ASSUME NEW f, NEW ops \in Decisions(f)
  PROVE  ops \in Seq(Plain)
<1>1. <<>> \in Seq(Plain)
  BY ListOf, Statements
<1>2. Relapse \in Seq(Plain)
  <2>1. Do("turn", "ACTIVE") \in Plain /\ Do("assign", NoLeader) \in Plain
    BY Statements, Words
  <2> QED BY <2>1, ListOf DEF Relapse
<1> QED BY <1>1, <1>2, DispatchPlain DEF Decisions

\* So is what a statement leads to.
LEMMA LeadsPlain ==
  ASSUME NEW c \in Commander, NEW op \in Statement, NEW ops \in Leads(c, op),
         op[1] \in {"reassigned", "rules", "again", "redispatch", "project"}
  PROVE  ops \in Seq(Plain)
<1>1. CASE op[1] = "reassigned"
  <2>1. Do("move", "ASSIGNED") \in Plain
    BY Statements, Words
  <2>2. <<>> \in Seq(Plain) /\ << Do("move", "ASSIGNED") >> \in Seq(Plain)
    BY <2>1, ListOf
  <2> QED BY <1>1, <2>2 DEF Leads
<1>2. CASE op[1] = "rules"
  BY <1>2, DecisionsPlain DEF Leads
<1>3. CASE op[1] = "again"
  <2>1. <<>> \in Seq(Plain)
    BY ListOf, Statements
  <2> QED BY <1>3, <2>1, DecisionsPlain DEF Leads
<1>4. CASE op[1] = "redispatch"
  <2>1. op[2] \in Target
    BY <1>4, StatementArgs
  <2>2. /\ Log("REDISPATCHED", op[2]) \in Plain /\ Do("assign", NoLeader) \in Plain
        /\ Do("rules", NoLeader) \in Plain /\ Do("again", NoLeader) \in Plain
        /\ Do("reassigned", NoLeader) \in Plain
    BY <2>1, Statements, Words DEF EventType
  <2>3. /\ <<>> \in Seq(Plain)
        /\ << Log("REDISPATCHED", op[2]), Do("assign", NoLeader), Do("rules", NoLeader),
              Do("again", NoLeader), Do("reassigned", NoLeader) >> \in Seq(Plain)
    BY <2>2
  <2> QED BY <1>4, <2>3 DEF Leads
<1>5. CASE op[1] = "project"
  <2>1. op[2] \in Event
    BY <1>5, StatementArgs
  <2> QED BY <1>5, <2>1, ProjectsPlain DEF Leads
<1> QED BY <1>1, <1>2, <1>3, <1>4, <1>5

\* A thread puts plain statements in the place of the one it is at.
LEMMA GoesKeeps ==
  ASSUME IInv, NEW c \in Commander, NEW t \in Thread, NEW what, At(c, t, what),
         NEW ops \in Seq(Statement), Goes(c, t, ops),
         \A op \in ToSet(ops) : \A m \in MarksOf(op) : Mark(m),
         UNCHANGED <<clock, storeVars, up, netVars, happened>>,
         active' \in [Commander -> BOOLEAN]
  PROVE  IInv' /\ minted' = minted
<1>1. Typed /\ work[c][t] # <<>>
  BY AtHead DEF IInv
<1>2. work' \in Working /\ Delivered(ops)
  BY <1>1, GoesDelivers
<1>3. /\ lastAt' \in [Commander -> Time] /\ inbox' \in [Commander -> Seq(Snapshot)]
      /\ up' \in [Commander -> BOOLEAN] /\ happened' \in 0 .. MaxEvent /\ inbox' = inbox
      /\ UNCHANGED <<clock, storeVars>>
  BY <1>1 DEF Typed, netVars
<1>4. \A d \in Commander : \A s \in ToSet(inbox'[d]) : \A m \in SnapMarks(s) : Mark(m)
  BY <1>3, InboxMarked
<1> QED BY <1>2, <1>3, <1>4, QuietStep

\* Decisions, and the end of the stand-down.
LEMMA DecideKeeps ==
  ASSUME IInv, NEW c \in Commander, NEW t \in Thread, Decide(c, t) \/ Deactivate(c, t)
  PROVE  IInv' /\ minted' = minted
<1>1. Typed
  BY DEF IInv
<1>2. CASE Decide(c, t)
  <2>1. PICK what \in {"reassigned", "rules", "again", "redispatch", "project"} : At(c, t, what)
    BY <1>2 DEF Decide
  <2>2. PICK ops \in Leads(c, Head(work[c][t])) : Goes(c, t, ops)
    BY <1>2 DEF Decide
  <2>3. Head(work[c][t]) \in Statement /\ Head(work[c][t])[1] = what
    BY <1>1, <2>1, AtHead
  <2>4. ops \in Seq(Plain)
    BY <2>2, <2>3, LeadsPlain
  <2>5. ops \in Seq(Statement) /\ \A op \in ToSet(ops) : \A m \in MarksOf(op) : Mark(m)
    BY <2>4, PlainList
  <2>6. UNCHANGED <<clock, storeVars, up, netVars, happened>> /\ active' \in [Commander -> BOOLEAN]
    BY <1>1, <1>2 DEF Decide, roleVars, Typed
  <2> QED BY <2>1, <2>2, <2>5, <2>6, GoesKeeps
<1>3. CASE Deactivate(c, t)
  <2> DEFINE none == <<>>
  <2>1. none \in Seq(Plain)
    BY ListOf, Statements
  <2>2. At(c, t, "deactivate") /\ Goes(c, t, none)
    BY <1>3 DEF Deactivate, Done
  <2>3. UNCHANGED <<clock, storeVars, up, netVars, happened>> /\ active' \in [Commander -> BOOLEAN]
    BY <1>1, <1>3 DEF Deactivate, Typed
  <2> HIDE DEF none
  <2>4. none \in Seq(Statement) /\ \A op \in ToSet(none) : \A m \in MarksOf(op) : Mark(m)
    BY <2>1, PlainList
  <2> QED BY <2>2, <2>3, <2>4, GoesKeeps
<1> QED BY <1>2, <1>3

\* get_since returns entries of the log.
LEMMA SinceItems ==
  ASSUME Typed, NEW c \in Commander
  PROVE  Since(c) \in Seq(Event) /\ ToSet(Since(c)) \subseteq ToSet(events[c])
<1> DEFINE X == { e \in ToSet(events[c]) : e.at > lastAt[c] }
           none == <<>>
           log == events[c]
           r == Since(c)
<1>1. none \in Seq(Event) /\ log \in Seq(Event) /\ ToSet(none) = {} /\ X \subseteq ToSet(log)
  BY DEF Typed, ToSet
<1>2. r = Joined(none, log, X)
  BY DEF Since
<1> HIDE DEF X, none, log, r
<1>3. r \in Seq(Event) /\ ToSet(r) = ToSet(none) \cup (ToSet(log) \cap X)
  BY <1>1, <1>2, JoinedItems
<1>4. r \in Seq(Event) /\ ToSet(r) \subseteq ToSet(log)
  BY <1>1, <1>3
<1> QED BY <1>4 DEF r, log

\* What the snapshot loop has after one more read.
LEMMA ReadsCopies ==
  ASSUME Typed, NEW c \in Commander, NEW op \in Statement,
         op[1] \in {"fires", "states", "versions", "events"},
         \A m \in MarksOf(op) : Mark(m)
  PROVE  Reads(c, op) \in Statement /\ \A m \in MarksOf(Reads(c, op)) : Mark(m)
<1> DEFINE s == op[2]
<1>1. /\ s \in Snapshot /\ s.fire \in FireRecord /\ s.missions \in Missions /\ s.events \in Seq(Event)
      /\ fire[c] \in FireRecord /\ mission[c] \in Missions
      /\ \A m \in SnapMarks(s) : Mark(m)
  BY StatementArgs DEF Reading, Snapshot, Typed, MarksOf
<1>2. /\ Mark(FireMark(s.fire)) /\ \A e \in ToSet(s.events) : Mark(EventMark(e))
      /\ Mark(FireMark(fire[c])) /\ \A e \in ToSet(events[c]) : Mark(EventMark(e))
  BY <1>1, Marked DEF SnapMarks
<1>3. ASSUME NEW what \in Reading, NEW f \in FireRecord, NEW ms \in Missions, NEW es \in Seq(Event),
             Reads(c, op) = <<what, [fire |-> f, missions |-> ms, events |-> es]>>,
             Mark(FireMark(f)), \A e \in ToSet(es) : Mark(EventMark(e))
      PROVE  Reads(c, op) \in Statement /\ \A m \in MarksOf(Reads(c, op)) : Mark(m)
  <2> DEFINE r == [fire |-> f, missions |-> ms, events |-> es]
  <2>1. r \in Snapshot /\ r.fire = f /\ r.events = es
    BY DEF Snapshot
  <2>2. Reads(c, op) = <<what, r>>
    BY <1>3
  <2> HIDE DEF r
  <2>3. \A m \in SnapMarks(r) : Mark(m)
    BY <1>3, <2>1 DEF SnapMarks
  <2>4. MarksOf(<<what, r>>) = SnapMarks(r) /\ <<what, r>> \in Statement
    BY <2>1 DEF MarksOf, Reading, Statement
  <2> QED BY <2>2, <2>3, <2>4
<1>4. CASE op[1] = "fires"
  <2>1. Reads(c, op) = <<"states", [s EXCEPT !.fire = fire[c]]>>
    BY <1>4 DEF Reads, Do
  <2>2. [s EXCEPT !.fire = fire[c]] = [fire |-> fire[c], missions |-> s.missions, events |-> s.events]
    BY <1>1 DEF Snapshot
  <2>3. "states" \in Reading
    BY DEF Reading
  <2> QED BY <1>1, <1>2, <1>3, <2>1, <2>2, <2>3
<1>5. CASE op[1] = "states"
  <2> DEFINE open == { m \in Mission : mission[c][m].state \in Open }
             ms == [m \in Mission |-> IF m \in open THEN mission[c][m] ELSE NoMission]
  <2>1. Reads(c, op) = <<"versions", [s EXCEPT !.missions = ms]>>
    BY <1>5 DEF Reads, Do
  <2>2. NoMission \in [state : MissionState, ver : Time]
    BY ReplicationAssumption DEF NoMission, MissionState, Time
  <2>3. ms \in Missions
    BY <1>1, <2>2 DEF Missions
  <2> HIDE DEF ms
  <2>4. [s EXCEPT !.missions = ms] = [fire |-> s.fire, missions |-> ms, events |-> s.events]
    BY <1>1 DEF Snapshot
  <2>5. "versions" \in Reading
    BY DEF Reading
  <2> QED BY <1>1, <1>2, <1>3, <2>1, <2>3, <2>4, <2>5
<1>6. CASE op[1] = "versions"
  <2> DEFINE seen == { m \in Mission : s.missions[m].state # "NONE" }
             ms == [m \in Mission |-> IF m \in seen
                                      THEN [s.missions[m] EXCEPT !.ver = mission[c][m].ver] ELSE NoMission]
  <2>1. Reads(c, op) = <<"events", [s EXCEPT !.missions = ms]>>
    BY <1>6 DEF Reads, Do
  <2>2. NoMission \in [state : MissionState, ver : Time]
    BY ReplicationAssumption DEF NoMission, MissionState, Time
  <2>3. ms \in Missions
    BY <1>1, <2>2 DEF Missions
  <2> HIDE DEF ms
  <2>4. [s EXCEPT !.missions = ms] = [fire |-> s.fire, missions |-> ms, events |-> s.events]
    BY <1>1 DEF Snapshot
  <2>5. "events" \in Reading
    BY DEF Reading
  <2> QED BY <1>1, <1>2, <1>3, <2>1, <2>3, <2>4, <2>5
<1>7. CASE op[1] = "events"
  <2> DEFINE es == Since(c)
  <2>1. Reads(c, op) = <<"publish", [s EXCEPT !.events = es]>>
    BY <1>7 DEF Reads, Do
  <2>4. es \in Seq(Event) /\ \A e \in ToSet(es) : Mark(EventMark(e))
    BY <1>2, SinceItems
  <2>3. "publish" \in Reading
    BY DEF Reading
  <2> HIDE DEF es
  <2>2. [s EXCEPT !.events = es] = [fire |-> s.fire, missions |-> s.missions, events |-> es]
    BY <1>1 DEF Snapshot
  <2>5. Reads(c, op) = <<"publish", [fire |-> s.fire, missions |-> s.missions, events |-> es]>>
    BY <2>1, <2>2
  <2>6. s.fire \in FireRecord /\ s.missions \in Missions /\ Mark(FireMark(s.fire))
    BY <1>1, <1>2
  <2> HIDE DEF s
  <2> QED BY <1>3, <2>3, <2>4, <2>5, <2>6
<1> QED BY <1>4, <1>5, <1>6, <1>7

\* A read of the snapshot loop.
LEMMA ReadKeeps ==
  ASSUME IInv, NEW c \in Commander, NEW t \in Thread, Read(c, t)
  PROVE  IInv' /\ minted' = minted
<1> DEFINE op == Head(work[c][t])
           next == Reads(c, op)
           ops == <<next>>
<1>1. PICK what \in {"fires", "states", "versions", "events"} : At(c, t, what)
  BY DEF Read
<1>2. Typed
  BY DEF IInv
<1>3. op \in Statement /\ op[1] = what /\ op \in ToSet(work[c][t])
  BY <1>1, <1>2, AtHead
<1>4. \A m \in MarksOf(op) : Mark(m)
  BY <1>3, Marked
<1>5. Goes(c, t, ops) /\ UNCHANGED <<clock, storeVars, up, netVars, happened>>
      /\ active' \in [Commander -> BOOLEAN]
  BY <1>2 DEF Read, roleVars, Typed
<1>6. next \in Statement /\ \A m \in MarksOf(next) : Mark(m)
  <2> HIDE DEF op
  <2> QED BY <1>2, <1>3, <1>4, ReadsCopies
<1>7. ops \in Seq(Statement) /\ ToSet(ops) = {next}
  <2> HIDE DEF next
  <2> QED BY <1>6, ListOf
<1> HIDE DEF op, next, ops
<1>8. \A o \in ToSet(ops) : \A m \in MarksOf(o) : Mark(m)
  BY <1>6, <1>7
<1> QED BY <1>1, <1>5, <1>7, <1>8, GoesKeeps

\* The snapshot that is published has the marks of what was read.
LEMMA PublishKeeps ==
  ASSUME IInv, NEW c \in Commander, NEW t \in Thread, Publish(c, t)
  PROVE  IInv' /\ minted' = minted
<1> DEFINE none == <<>>
           snap == Arg(c, t)
<1>1. /\ Typed /\ At(c, t, "publish") /\ Goes(c, t, none)
      /\ lastAt' = [lastAt EXCEPT ![c] = clock]
      /\ UNCHANGED <<clock, storeVars, roleVars>>
  BY DEF IInv, Publish, Done
<1>2. PICK lost \in SUBSET Commander :
        /\ inbox' = [d \in Commander |->
                       IF up[d] /\ inbox[d] = <<>> /\ d \notin lost THEN <<snap>> ELSE inbox[d]]
        /\ IF lost = {} THEN UNCHANGED happened ELSE Happens
  BY DEF Publish
<1>3. /\ work[c][t] # <<>> /\ Head(work[c][t]) \in ToSet(work[c][t])
      /\ Head(work[c][t]) \in Statement /\ Head(work[c][t])[1] = "publish"
      /\ Head(work[c][t])[2] = snap
  BY <1>1, AtHead
<1>4. snap \in Snapshot /\ \A m \in SnapMarks(snap) : Mark(m)
  <2>1. "publish" \in Reading /\ "publish" \notin {"append", "project", "store"}
    BY DEF Reading
  <2>2. MarksOf(Head(work[c][t])) = SnapMarks(snap)
    BY <1>3, <2>1 DEF MarksOf
  <2> QED BY <1>3, <2>1, <2>2, Marked, StatementArgs
<1>5. none \in Seq(Plain)
  BY ListOf, Statements
<1> HIDE DEF none, snap
<1>6. none \in Seq(Statement) /\ \A op \in ToSet(none) : \A m \in MarksOf(op) : Mark(m)
  BY <1>5, PlainList
<1>7. work' \in Working /\ Delivered(none)
  BY <1>1, <1>3, <1>6, GoesDelivers
<1>8. <<snap>> \in Seq(Snapshot) /\ ToSet(<<snap>>) = {snap}
  BY <1>4, ListOf
<1>9. \A d \in Commander : inbox'[d] = inbox[d] \/ inbox'[d] = <<snap>>
  BY <1>2
<1>10. inbox' \in [Commander -> Seq(Snapshot)]
  <2>1. \A d \in Commander : inbox'[d] \in Seq(Snapshot)
    BY <1>1, <1>8, <1>9 DEF Typed
  <2> QED BY <1>2, <2>1
<1>11. \A d \in Commander : \A s \in ToSet(inbox'[d]) : \A m \in SnapMarks(s) : Mark(m)
  BY <1>4, <1>8, <1>9, Marked
<1>12. /\ lastAt' \in [Commander -> Time] /\ happened' \in 0 .. MaxEvent
       /\ up' \in [Commander -> BOOLEAN] /\ active' \in [Commander -> BOOLEAN]
  BY <1>1, <1>2, ReplicationAssumption DEF Typed, roleVars, Happens
<1> QED BY <1>1, <1>6, <1>7, <1>10, <1>11, <1>12, QuietStep

\* The copy the snapshot loop starts from carries no more than the blank mark.
LEMMA BlankStart ==
  /\ Do("fires", Blank) \in Statement
  /\ \A m \in MarksOf(Do("fires", Blank)) : Mark(m)
<1>1. NoFire \in FireRecord
  <2>1. <<>> \in Seq(Leader) /\ IsInjective(<<>>)
    BY DEF IsInjective
  <2> QED BY <2>1, ReplicationAssumption DEF NoFire, FireRecord, FireState, Time
<1>2. NoMissions \in Missions
  BY ReplicationAssumption DEF NoMissions, NoMission, Missions, MissionState, Time
<1>3. Blank \in Snapshot /\ Blank.fire = NoFire /\ Blank.events = <<>>
  BY <1>1, <1>2 DEF Blank, Snapshot
<1>4. ToSet(<<>>) = {}
  BY DEF ToSet
<1>5. SnapMarks(Blank) = {FireMark(NoFire)}
  BY <1>3, <1>4 DEF SnapMarks
<1>6. Do("fires", Blank) = <<"fires", Blank>>
  BY DEF Do
<1>7. MarksOf(Do("fires", Blank)) = SnapMarks(Blank) /\ Do("fires", Blank) \in Statement
  BY <1>3, <1>6 DEF MarksOf, Reading, Statement
<1> QED BY <1>5, <1>7 DEF Mark

\* A thread begins with statements whose copies are marked already.
LEMMA BeginsKeeps ==
  ASSUME IInv, NEW c \in Commander, NEW t \in Thread, NEW ops \in Seq(Statement),
         Begins(c, t, ops), \A op \in ToSet(ops) : \A m \in MarksOf(op) : Mark(m),
         UNCHANGED <<clock, storeVars, roleVars, lastAt, happened>>,
         inbox' \in [Commander -> Seq(Snapshot)],
         \A d \in Commander : \A s \in ToSet(inbox'[d]) : \A m \in SnapMarks(s) : Mark(m)
  PROVE  IInv' /\ minted' = minted
<1>1. Typed /\ work' = [work EXCEPT ![c][t] = ops]
  BY DEF IInv, Begins
<1>2. work' \in Working /\ Delivered(ops)
  BY <1>1, BeginsDelivers
<1>3. /\ lastAt' \in [Commander -> Time] /\ happened' \in 0 .. MaxEvent
      /\ up' \in [Commander -> BOOLEAN] /\ active' \in [Commander -> BOOLEAN]
      /\ UNCHANGED <<clock, storeVars>>
  BY <1>1 DEF Typed, roleVars
<1> QED BY <1>2, <1>3, QuietStep

\* The snapshot loop begins a round; the backup begins its last one.
LEMMA RoundsKeep ==
  ASSUME IInv, \/ \E c \in Commander : SnapshotLoop(c)
               \/ StandDown
  PROVE  IInv' /\ minted' = minted
<1> DEFINE blank == Do("fires", Blank)
           end == Do("deactivate", NoLeader)
<1>1. /\ inbox' = inbox /\ inbox \in [Commander -> Seq(Snapshot)]
      /\ UNCHANGED <<clock, storeVars, roleVars, lastAt, happened>>
  BY DEF IInv, Typed, SnapshotLoop, StandDown, netVars
<1>2. \A d \in Commander : \A s \in ToSet(inbox'[d]) : \A m \in SnapMarks(s) : Mark(m)
  BY <1>1, InboxMarked
<1>3. blank \in Statement /\ \A m \in MarksOf(blank) : Mark(m)
  BY BlankStart
<1>4. end \in Plain
  BY Statements
<1>5. end \in Statement /\ MarksOf(end) = {}
  <2> HIDE DEF end
  <2> QED BY <1>4, PlainMarks
<1>6. "loop" \in Thread /\ "mqtt" \in Thread /\ Backup \in Commander
  BY DEF Thread, Commander
<1>7. ASSUME NEW c \in Commander, SnapshotLoop(c) PROVE IInv' /\ minted' = minted
  <2>1. Begins(c, "loop", <<blank>>)
    BY <1>7 DEF SnapshotLoop
  <2> HIDE DEF blank
  <2>2. <<blank>> \in Seq(Statement) /\ ToSet(<<blank>>) = {blank}
    BY <1>3, ListOf
  <2> QED BY <1>1, <1>2, <1>3, <1>6, <2>1, <2>2, BeginsKeeps
<1>8. CASE StandDown
  <2>1. Begins(Backup, "mqtt", <<blank, end>>)
    BY <1>8 DEF StandDown
  <2> HIDE DEF blank, end
  <2>2. <<blank, end>> \in Seq(Statement) /\ ToSet(<<blank, end>>) = {blank, end}
    BY <1>3, <1>5, ListOf
  <2>3. \A op \in ToSet(<<blank, end>>) : \A m \in MarksOf(op) : Mark(m)
    BY <1>3, <1>5, <2>2
  <2> QED BY <1>1, <1>2, <1>6, <2>1, <2>2, <2>3, BeginsKeeps
<1> QED BY <1>7, <1>8

\* A merged fire keeps the mark of the one or of the other.
LEMMA MergedFire ==
  ASSUME NEW own \in FireRecord, NEW f \in FireRecord
  PROVE  /\ MergeFire(own, f) \in FireRecord
         /\ FireMark(MergeFire(own, f)) \in {FireMark(own), FireMark(f)}
<1>1. CASE f.state = "UNKNOWN" \/ own.ver >= f.ver
  BY <1>1 DEF MergeFire
<1>2. CASE ~ (f.state = "UNKNOWN" \/ own.ver >= f.ver)
  <2> DEFINE ns == Joined(own.nodes, f.nodes, Leader)
  <2>1. /\ own.nodes \in Seq(Leader) /\ IsInjective(own.nodes)
        /\ f \in [state : FireState, nodes : Seq(Leader), ver : Time]
    BY DEF FireRecord
  <2>2. ns \in Seq(Leader) /\ IsInjective(ns)
    BY <2>1, JoinedItems
  <2>3. MergeFire(own, f) = [f EXCEPT !.nodes = ns]
    BY <1>2 DEF MergeFire
  <2> HIDE DEF ns
  <2>4. MergeFire(own, f) = [state |-> f.state, nodes |-> ns, ver |-> f.ver]
    BY <2>1, <2>3
  <2> QED BY <2>1, <2>2, <2>4 DEF FireRecord, FireMark
<1> QED BY <1>1, <1>2

\* Putting a copy in the record's place, or nothing.
LEMMA PutItems ==
  ASSUME NEW f, NEW g \in FireRecord
  PROVE  /\ Put(f, g) \in Seq(Statement)
         /\ \A op \in ToSet(Put(f, g)) : MarksOf(op) = {FireMark(g)}
<1> DEFINE op == Do("store", g)
<1>1. op \in Statement /\ MarksOf(op) = {FireMark(g)}
  BY DEF Do, Statement, MarksOf
<1>2. Put(f, g) = <<>> \/ Put(f, g) = <<op>>
  BY DEF Put
<1> HIDE DEF op
<1>3. <<op>> \in Seq(Statement) /\ ToSet(<<op>>) = {op} /\ <<>> \in Seq(Statement) /\ ToSet(<<>>) = {}
  BY <1>1, ListOf
<1> QED BY <1>1, <1>2, <1>3

\* A statement about an event has the event's mark.
LEMMA EventItem ==
  ASSUME NEW e \in Event
  PROVE  /\ Do("append", e) \in Statement /\ MarksOf(Do("append", e)) = {EventMark(e)}
         /\ Do("project", e) \in Statement /\ MarksOf(Do("project", e)) = {EventMark(e)}
BY DEF Do, Statement, MarksOf

\* The events of a snapshot are appended and replayed one after another.
Replayed(es) ==
  [i \in 1 .. 2 * Len(es) |-> IF i % 2 = 1 THEN Do("append", es[(i + 1) \div 2])
                              ELSE Do("project", es[i \div 2])]
LEMMA ReplayedItems ==
  ASSUME NEW es \in Seq(Event)
  PROVE  /\ Replayed(es) \in Seq(Statement)
         /\ \A op \in ToSet(Replayed(es)) : \E e \in ToSet(es) : MarksOf(op) = {EventMark(e)}
<1> DEFINE r == Replayed(es)
           n == Len(es)
<1>1. n \in Nat /\ 2 * n \in Nat /\ \A j \in 1 .. n : es[j] \in Event /\ es[j] \in ToSet(es)
  BY DEF ToSet
<1>2. ASSUME NEW i \in 1 .. 2 * n
      PROVE  r[i] \in Statement /\ \E e \in ToSet(es) : MarksOf(r[i]) = {EventMark(e)}
  <2>1. CASE i % 2 = 1
    <3> DEFINE j == (i + 1) \div 2
    <3>1. j \in 1 .. n
      BY <1>1, <2>1
    <3>2. r[i] = Do("append", es[j])
      BY <2>1 DEF Replayed
    <3> HIDE DEF j, r
    <3> QED BY <1>1, <3>1, <3>2, EventItem
  <2>2. CASE i % 2 # 1
    <3> DEFINE j == i \div 2
    <3>1. j \in 1 .. n
      BY <1>1, <2>2
    <3>2. r[i] = Do("project", es[j])
      BY <2>2 DEF Replayed
    <3> HIDE DEF j, r
    <3> QED BY <1>1, <3>1, <3>2, EventItem
  <2> QED BY <2>1, <2>2
<1>3. DOMAIN r = 1 .. 2 * n /\ r = [i \in 1 .. 2 * n |-> r[i]]
  BY DEF Replayed
<1> HIDE DEF r, n
<1>4. r \in Seq(Statement)
  BY <1>1, <1>2, <1>3
<1>5. \A op \in ToSet(r) : \E e \in ToSet(es) : MarksOf(op) = {EventMark(e)}
  BY <1>2, <1>3 DEF ToSet
<1> QED BY <1>4, <1>5 DEF r

\* A commander begins to merge a snapshot.
LEMMA ApplyKeeps ==
  ASSUME IInv, NEW c \in Commander, ApplySnapshot(c)
  PROVE  IInv' /\ minted' = minted
<1> DEFINE box == inbox[c]
           rest == Tail(box)
           snap == Head(box)
           f == MergeFire(fire[c], snap.fire)
           put == Put(fire[c], f)
           missions == Do("missions", snap.missions)
           replay == Replayed(snap.events)
           first == put \o <<missions>>
           ops == first \o replay
<1>1. /\ Typed /\ box # <<>> /\ Begins(c, "mqtt", ops)
      /\ inbox' = [inbox EXCEPT ![c] = rest]
      /\ UNCHANGED <<clock, storeVars, roleVars, lastAt, happened>>
  BY DEF IInv, ApplySnapshot, Replayed
<1>2. fire[c] \in FireRecord /\ box \in Seq(Snapshot) /\ inbox \in [Commander -> Seq(Snapshot)]
  BY <1>1 DEF Typed
<1>3. /\ snap \in ToSet(box) /\ snap \in Snapshot /\ rest \in Seq(Snapshot)
      /\ ToSet(rest) \subseteq ToSet(box)
  <2> HIDE DEF box
  <2>1. <<>> \in Seq(Snapshot)
    BY ListOf, <1>1, <1>2
  <2> QED BY <1>1, <1>2, PutBefore
<1>4. /\ Mark(FireMark(fire[c])) /\ \A m \in SnapMarks(snap) : Mark(m)
      /\ \A d \in Commander : \A s \in ToSet(inbox[d]) : \A m \in SnapMarks(s) : Mark(m)
  BY <1>3, Marked
<1>5. "mqtt" \in Thread
  BY DEF Thread
<1> HIDE DEF rest, snap
<1>6. inbox' \in [Commander -> Seq(Snapshot)]
      /\ \A d \in Commander : \A s \in ToSet(inbox'[d]) : \A m \in SnapMarks(s) : Mark(m)
  <2>1. inbox' \in [Commander -> Seq(Snapshot)]
    BY <1>1, <1>2, <1>3
  <2>2. \A d \in Commander : inbox'[d] = inbox[d] \/ (d = c /\ inbox'[d] = rest)
    BY <1>1, <1>2
  <2>3. \A d \in Commander : ToSet(inbox'[d]) \subseteq ToSet(inbox[d])
    BY <1>3, <2>2
  <2> QED BY <1>4, <2>1, <2>3
<1>7. snap.fire \in FireRecord /\ snap.missions \in Missions /\ snap.events \in Seq(Event)
  BY <1>3 DEF Snapshot
<1>8. Mark(FireMark(snap.fire)) /\ \A e \in ToSet(snap.events) : Mark(EventMark(e))
  BY <1>4 DEF SnapMarks
<1>9. f \in FireRecord /\ Mark(FireMark(f))
  <2>1. f \in FireRecord /\ FireMark(f) \in {FireMark(fire[c]), FireMark(snap.fire)}
    BY <1>2, <1>7, MergedFire
  <2> QED BY <1>4, <1>8, <2>1
<1> HIDE DEF f, box
<1>10. put \in Seq(Statement) /\ \A op \in ToSet(put) : \A m \in MarksOf(op) : Mark(m)
  <2>1. put \in Seq(Statement) /\ \A op \in ToSet(put) : MarksOf(op) = {FireMark(f)}
    BY <1>9, PutItems
  <2> QED BY <1>9, <2>1
<1>11. missions \in Plain
  BY <1>7 DEF Do, Plain
<1>12. /\ replay \in Seq(Statement)
       /\ \A op \in ToSet(replay) : \A m \in MarksOf(op) : Mark(m)
  <2>1. /\ replay \in Seq(Statement)
        /\ \A op \in ToSet(replay) : \E e \in ToSet(snap.events) : MarksOf(op) = {EventMark(e)}
    BY <1>7, ReplayedItems
  <2> QED BY <1>8, <2>1
<1> HIDE DEF put, missions, replay
<1>13. missions \in Statement /\ MarksOf(missions) = {}
  BY <1>11, PlainMarks
<1>14. <<missions>> \in Seq(Statement) /\ ToSet(<<missions>>) = {missions}
  BY <1>13, ListOf
<1>15. first \in Seq(Statement) /\ ToSet(first) \subseteq ToSet(put) \cup {missions}
  <2> DEFINE one == <<missions>>
  <2>1. one \in Seq(Statement) /\ ToSet(one) = {missions}
    BY <1>14
  <2> HIDE DEF one
  <2>2. put \o one \in Seq(Statement) /\ ToSet(put \o one) \subseteq ToSet(put) \cup ToSet(one)
    BY <1>10, <2>1, PutBefore
  <2> QED BY <2>1, <2>2 DEF one
<1> HIDE DEF first
<1>16. ops \in Seq(Statement) /\ ToSet(ops) \subseteq ToSet(first) \cup ToSet(replay)
  BY <1>12, <1>15, PutBefore
<1> HIDE DEF ops
<1>17. \A op \in ToSet(ops) : \A m \in MarksOf(op) : Mark(m)
  BY <1>10, <1>12, <1>13, <1>15, <1>16
<1> QED BY <1>1, <1>5, <1>6, <1>16, <1>17, BeginsKeeps

\* A crash.
LEMMA CrashKeeps ==
  ASSUME IInv, NEW c \in Commander, Crash(c)
  PROVE  IInv' /\ minted' = minted
<1> DEFINE none == <<>>
           idle == [t \in Thread |-> none]
<1>1. /\ Typed /\ happened < MaxEvent /\ happened' = happened + 1
      /\ up' = [up EXCEPT ![c] = FALSE] /\ active' = [active EXCEPT ![c] = FALSE]
      /\ work' = [work EXCEPT ![c] = idle] /\ inbox' = [inbox EXCEPT ![c] = none]
      /\ lastAt' = [lastAt EXCEPT ![c] = 0] /\ UNCHANGED <<clock, storeVars>>
  BY DEF IInv, Crash, Happens
<1>2. none \in Seq(Statement) /\ none \in Seq(Snapshot) /\ ToSet(none) = {}
  BY DEF ToSet
<1> HIDE DEF none
<1>3. idle \in [Thread -> Seq(Statement)] /\ \A t \in Thread : idle[t] = none
  BY <1>2
<1> HIDE DEF idle
<1>4. work' \in Working /\ Delivered(none)
  <2>1. work' \in Working
    BY <1>1, <1>3 DEF Typed, Working
  <2>2. \A d \in Commander, t \in Thread : work'[d][t] = work[d][t] \/ work'[d][t] = none
    BY <1>1, <1>3 DEF Typed, Working
  <2> QED BY <2>1, <2>2 DEF Delivered
<1>5. /\ inbox' \in [Commander -> Seq(Snapshot)]
      /\ \A d \in Commander : inbox'[d] = inbox[d] \/ inbox'[d] = none
  BY <1>1, <1>2 DEF Typed
<1>6. \A d \in Commander : \A s \in ToSet(inbox'[d]) : \A m \in SnapMarks(s) : Mark(m)
  BY <1>2, <1>5, Marked
<1>7. /\ lastAt' \in [Commander -> Time] /\ happened' \in 0 .. MaxEvent
      /\ up' \in [Commander -> BOOLEAN] /\ active' \in [Commander -> BOOLEAN]
  BY <1>1, ReplicationAssumption DEF Typed, Time
<1> QED BY <1>1, <1>2, <1>4, <1>5, <1>6, <1>7, QuietStep

\* The backup takes over.
LEMMA PromoteKeeps ==
  ASSUME IInv, Promote
  PROVE  IInv' /\ minted' = minted
<1> DEFINE none == <<>>
<1>1. /\ Typed /\ active' = [active EXCEPT ![Backup] = TRUE] /\ work' = work /\ inbox' = inbox
      /\ lastAt' = lastAt /\ happened' = happened /\ up' = up /\ UNCHANGED <<clock, storeVars>>
  BY DEF IInv, Promote, netVars
<1>2. ToSet(none) = {}
  BY DEF ToSet
<1> HIDE DEF none
<1>3. work' \in Working /\ Delivered(none)
  BY <1>1 DEF Typed, Delivered
<1>4. /\ lastAt' \in [Commander -> Time] /\ happened' \in 0 .. MaxEvent
      /\ up' \in [Commander -> BOOLEAN] /\ active' \in [Commander -> BOOLEAN]
      /\ inbox' \in [Commander -> Seq(Snapshot)]
  BY <1>1 DEF Typed
<1>5. \A d \in Commander : \A s \in ToSet(inbox'[d]) : \A m \in SnapMarks(s) : Mark(m)
  BY <1>1, InboxMarked
<1> QED BY <1>1, <1>2, <1>3, <1>4, <1>5, QuietStep

\* A step that makes at most one new copy.
LEMMA WriteStep ==
  ASSUME IInv, Typed', Indexed', NEW ops, Delivered(ops), NEW new,
         Mark(new) \/ (new[3] = clock + 1 /\ clock' = clock + 1),
         clock' = clock \/ clock' = clock + 1, inbox' = inbox,
         \A d \in Commander : Mark(FireMark(fire'[d])),
         \A d \in Commander : \A e \in ToSet(events'[d]) : Mark(EventMark(e)) \/ EventMark(e) = new,
         \A op \in ToSet(ops) : \A m \in MarksOf(op) : Mark(m) \/ m = new
  PROVE  IInv'
<1>1. Typed /\ Dated /\ clock \in Nat
  BY ReplicationAssumption DEF IInv, Typed, Time
<1>2. \A d \in Commander : \A s \in ToSet(inbox'[d]) : \A m \in SnapMarks(s) : Mark(m)
  BY InboxMarked
<1>3. \A d \in Commander : Mark(FireMark(fire'[d])) \/ FireMark(fire'[d]) = new
  OBVIOUS
<1>4. \A m : Mark(m)' => Mark(m) \/ m = new
  BY <1>2, <1>3, MarksAfter
<1>5. \A m : Mark(m)' => Mark(m) \/ (m = new /\ new[3] = clock + 1 /\ clock' = clock + 1)
  BY <1>4
<1>6. Dated'
  BY <1>1, <1>5, DatedOn
<1> QED BY <1>6 DEF IInv

\* A method's copy of the record.
LEMMA CopyItems ==
  ASSUME NEW f \in FireRecord, NEW op \in Statement, NEW now \in Time,
         op[1] \in {"ignite", "turn", "assign", "unassign"}
  PROVE  Copied(f, op, now) = f \/ (Copied(f, op, now) \in FireRecord /\ Copied(f, op, now).ver = now)
<1>1. /\ f \in [state : FireState, nodes : Seq(Leader), ver : Time]
      /\ f.nodes \in Seq(Leader) /\ IsInjective(f.nodes) /\ f.state \in FireState
  BY DEF FireRecord
<1>2. <<>> \in Seq(Leader) /\ IsInjective(<<>>)
  BY DEF IsInjective
<1>3. ASSUME NEW s \in FireState, NEW ns \in Seq(Leader), IsInjective(ns),
             Copied(f, op, now) = [state |-> s, nodes |-> ns, ver |-> now]
      PROVE  Copied(f, op, now) \in FireRecord /\ Copied(f, op, now).ver = now
  BY <1>3 DEF FireRecord
<1>4. CASE op[1] = "ignite"
  <2>1. CASE f.state = "UNKNOWN"
    <3>1. Copied(f, op, now) = [state |-> "IGNITED", nodes |-> <<>>, ver |-> now]
      BY <1>4, <2>1 DEF Copied
    <3> QED BY <1>2, <1>3, <3>1, Words
  <2>2. CASE f.state # "UNKNOWN"
    BY <1>4, <2>2 DEF Copied
  <2> QED BY <2>1, <2>2
<1>5. CASE op[1] = "turn"
  <2>1. CASE <<f.state, op[2]>> \in FIRE_TRANSITIONS
    <3>1. Copied(f, op, now) = [f EXCEPT !.state = op[2], !.ver = now]
      BY <1>5, <2>1 DEF Copied, Turned
    <3>2. Copied(f, op, now) = [state |-> op[2], nodes |-> f.nodes, ver |-> now]
      BY <1>1, <3>1
    <3>3. op[2] \in FireState
      BY <1>5, StatementArgs
    <3> QED BY <1>1, <1>3, <3>2, <3>3
  <2>2. CASE <<f.state, op[2]>> \notin FIRE_TRANSITIONS
    BY <1>5, <2>2 DEF Copied, Turned
  <2> QED BY <2>1, <2>2
<1>6. CASE op[1] = "assign"
  <2> DEFINE ns == IF op[2] = NoLeader THEN <<>> ELSE Add(f.nodes, op[2])
  <2>1. op[2] \in Target
    BY <1>6, StatementArgs
  <2>2. ns \in Seq(Leader) /\ IsInjective(ns)
    BY <1>1, <1>2, <2>1, AddItems DEF Target
  <2>3. Copied(f, op, now) = [f EXCEPT !.nodes = ns, !.ver = now]
    BY <1>6 DEF Copied
  <2> HIDE DEF ns
  <2>4. Copied(f, op, now) = [state |-> f.state, nodes |-> ns, ver |-> now]
    BY <1>1, <2>3
  <2> QED BY <1>1, <1>3, <2>2, <2>4
<1>7. CASE op[1] = "unassign"
  <2>1. CASE op[2] \in ToSet(f.nodes)
    <3> DEFINE none == <<>>
               ns == Joined(none, f.nodes, Leader \ {op[2]})
    <3>1. none \in Seq(Leader) /\ IsInjective(none)
      BY <1>2
    <3>2. Copied(f, op, now) = [f EXCEPT !.nodes = ns, !.ver = now]
      BY <1>7, <2>1 DEF Copied
    <3> HIDE DEF none
    <3>3. ns \in Seq(Leader) /\ IsInjective(ns)
      BY <1>1, <3>1, JoinedItems
    <3> HIDE DEF ns
    <3>4. Copied(f, op, now) = [state |-> f.state, nodes |-> ns, ver |-> now]
      BY <1>1, <3>2
    <3> QED BY <1>1, <1>3, <3>3, <3>4
  <2>2. CASE op[2] \notin ToSet(f.nodes)
    BY <1>7, <2>2 DEF Copied
  <2> QED BY <2>1, <2>2
<1> QED BY <1>4, <1>5, <1>6, <1>7

\* A thread makes its copy.
LEMMA WriteFireKeeps ==
  ASSUME IInv, NEW c \in Commander, NEW t \in Thread, WriteFire(c, t)
  PROVE  IInv' /\ minted' = minted
<1> DEFINE op == Head(work[c][t])
           copy == Copied(fire[c], op, clock + 1)
           ops == Put(fire[c], copy)
           new == FireMark(copy)
<1>1. PICK what \in {"ignite", "turn", "assign", "unassign"} : At(c, t, what)
  BY DEF WriteFire
<1>2. /\ Goes(c, t, ops) /\ IF copy = fire[c] THEN UNCHANGED clock ELSE Ticks
      /\ UNCHANGED <<storeVars, roleVars, netVars, happened>>
  BY DEF WriteFire
<1>3. Typed /\ Indexed /\ fire[c] \in FireRecord
  BY DEF IInv, Typed
<1>4. op \in Statement /\ op[1] = what /\ work[c][t] # <<>>
  BY <1>1, <1>3, AtHead
<1>5. Mark(FireMark(fire[c]))
  BY Marked
<1> HIDE DEF op
<1>6. /\ copy \in FireRecord
      /\ clock' \in Time /\ (clock' = clock \/ clock' = clock + 1)
      /\ Mark(new) \/ (new[3] = clock + 1 /\ clock' = clock + 1)
  <2>1. CASE copy = fire[c]
    BY <1>2, <1>3, <1>5, <2>1 DEF Typed
  <2>2. CASE copy # fire[c]
    <3>1. clock' = clock + 1 /\ clock + 1 \in Time
      BY <1>2, <1>3, <2>2, ReplicationAssumption DEF Ticks, Typed, Time
    <3>2. copy \in FireRecord /\ copy.ver = clock + 1
      BY <1>3, <1>4, <2>2, <3>1, CopyItems
    <3> QED BY <3>1, <3>2 DEF FireMark
  <2> QED BY <2>1, <2>2
<1> HIDE DEF copy
<1>7. ops \in Seq(Statement) /\ \A o \in ToSet(ops) : \A m \in MarksOf(o) : m = new
  BY <1>6, PutItems
<1> HIDE DEF ops
<1>8. work' \in Working /\ Delivered(ops)
  BY <1>2, <1>3, <1>4, <1>7, GoesDelivers
<1>9. Typed' /\ Indexed' /\ fire' = fire /\ events' = events /\ inbox' = inbox /\ minted' = minted
  <2>1. Typed'
    BY <1>2, <1>3, <1>6, <1>8 DEF Typed, storeVars, roleVars, netVars
  <2>2. Indexed' /\ fire' = fire /\ events' = events /\ inbox' = inbox /\ minted' = minted
    BY <1>2, <1>3 DEF Indexed, storeVars, netVars
  <2> QED BY <2>1, <2>2
<1>10. /\ \A d \in Commander : Mark(FireMark(fire'[d]))
       /\ \A d \in Commander : \A e \in ToSet(events'[d]) : Mark(EventMark(e))
  BY <1>9, Marked
<1> HIDE DEF new
<1> QED BY <1>6, <1>7, <1>8, <1>9, <1>10, WriteStep

\* The empty list is delivered.
LEMMA DoneDelivers ==
  ASSUME Typed, NEW c \in Commander, NEW t \in Thread, work[c][t] # <<>>, Done(c, t)
  PROVE  work' \in Working /\ Delivered(<<>>) /\ ToSet(<<>>) = {}
<1> DEFINE none == <<>>
<1>1. none \in Seq(Statement) /\ ToSet(none) = {} /\ Goes(c, t, none)
  BY DEF ToSet, Done
<1> HIDE DEF none
<1>2. work' \in Working /\ Delivered(none)
  BY <1>1, GoesDelivers
<1> QED BY <1>1, <1>2 DEF none

\* The copy takes the record's place.
LEMMA StoreFireKeeps ==
  ASSUME IInv, NEW c \in Commander, NEW t \in Thread, StoreFire(c, t)
  PROVE  IInv' /\ minted' = minted
<1> DEFINE none == <<>>
           f == Arg(c, t)
<1>1. /\ Typed /\ Indexed /\ At(c, t, "store") /\ Done(c, t) /\ fire' = [fire EXCEPT ![c] = f]
      /\ UNCHANGED <<clock, mission, index, saved, events, minted, roleVars, netVars, happened>>
  BY DEF IInv, StoreFire
<1>2. /\ work[c][t] # <<>> /\ Head(work[c][t]) \in ToSet(work[c][t])
      /\ Head(work[c][t]) \in Statement /\ Head(work[c][t])[1] = "store"
      /\ Head(work[c][t])[2] = f
  BY <1>1, AtHead
<1>3. f \in FireRecord /\ Mark(FireMark(f))
  <2>1. MarksOf(Head(work[c][t])) = {FireMark(f)}
    BY <1>2 DEF MarksOf
  <2> QED BY <1>2, <2>1, Marked, StatementArgs
<1> HIDE DEF f
<1>4. work' \in Working /\ Delivered(none) /\ ToSet(none) = {}
  BY <1>1, <1>2, DoneDelivers
<1> HIDE DEF none
<1>5. Typed'
  BY <1>1, <1>3, <1>4 DEF Typed, roleVars, netVars
<1>6. Indexed' /\ events' = events /\ inbox' = inbox /\ minted' = minted /\ clock' = clock
  BY <1>1 DEF Indexed, netVars
<1>7. \A d \in Commander : fire'[d] = fire[d] \/ fire'[d] = f
  BY <1>1 DEF Typed
<1>8. /\ \A d \in Commander : Mark(FireMark(fire'[d]))
      /\ \A d \in Commander : \A e \in ToSet(events'[d]) : Mark(EventMark(e))
  BY <1>3, <1>6, <1>7, Marked
<1> QED BY <1>3, <1>4, <1>5, <1>6, <1>8, WriteStep

\* A step that writes missions only, and leaves its thread with ops.
LEMMA MissionStep ==
  ASSUME IInv, NEW c \in Commander, NEW t \in Thread, work[c][t] # <<>>,
         NEW ops \in Seq(Plain), Goes(c, t, ops), Indexed',
         clock' \in Time, clock' = clock \/ clock' = clock + 1, minted' \in 0 .. MaxMission,
         mission' \in [Commander -> Missions], saved' \in [Commander -> Missions],
         index' \in [Commander -> 0 .. MaxMission],
         UNCHANGED <<fire, events, roleVars, netVars, happened>>
  PROVE  IInv'
<1>1. Typed
  BY DEF IInv
<1>2. ops \in Seq(Statement) /\ \A op \in ToSet(ops) : \A m \in MarksOf(op) : Mark(m)
  BY PlainList
<1>3. work' \in Working /\ Delivered(ops)
  BY <1>1, <1>2, GoesDelivers
<1>4. Typed' /\ inbox' = inbox
  BY <1>1, <1>3 DEF Typed, roleVars, netVars
<1>5. /\ \A d \in Commander : Mark(FireMark(fire'[d]))
      /\ \A d \in Commander : \A e \in ToSet(events'[d]) : Mark(EventMark(e))
      /\ Mark(FireMark(NoFire))
  BY Marked
<1> QED BY <1>2, <1>3, <1>4, <1>5, WriteStep

\* A statement on a mission, and what is left to do after it.
LEMMA AtMission ==
  ASSUME IInv, NEW c \in Commander, NEW t \in Thread, NEW what, At(c, t, what)
  PROVE  /\ Typed /\ Indexed /\ work[c][t] # <<>>
         /\ what \in {"move", "pause"} => Arg(c, t) \in MissionState \ {"NONE"}
         /\ what = "stamp" => Arg(c, t) \in Mission
         /\ what = "missions" => Arg(c, t) \in Missions
         /\ what = "log" => Arg(c, t) \in [type : EventType, node : Target]
         /\ what = "append" => /\ Arg(c, t) \in Event /\ Mark(EventMark(Arg(c, t)))
         /\ <<>> \in Seq(Plain) /\ <<>> \in Seq(Statement)
<1> DEFINE op == Head(work[c][t])
<1>1. Typed /\ Indexed
  BY DEF IInv
<1>2. /\ work[c][t] # <<>> /\ op \in ToSet(work[c][t]) /\ op \in Statement
      /\ op[1] = what /\ op[2] = Arg(c, t)
  BY <1>1, AtHead
<1>3. \A m \in MarksOf(op) : Mark(m)
  BY <1>2, Marked
<1> HIDE DEF op
<1>4. what = "append" => Mark(EventMark(Arg(c, t)))
  BY <1>2, <1>3 DEF MarksOf
<1>5. <<>> \in Seq(Plain) /\ <<>> \in Seq(Statement)
  OBVIOUS
<1> QED BY <1>1, <1>2, <1>4, <1>5, StatementArgs

\* A mission is created.
LEMMA CreateKeeps ==
  ASSUME IInv, NEW c \in Commander, NEW t \in Thread, CreateMission(c, t)
  PROVE  /\ IInv'
         /\ \/ minted' = minted
            \/ ~ HasOpen(c) /\ \A d \in Commander \ {c} : mission'[d] = mission[d]
<1> DEFINE none == <<>>
           m == minted + 1
           rec == [state |-> "CREATED", ver |-> clock + 1]
<1>1. /\ At(c, t, "create") /\ Goes(c, t, none)
      /\ UNCHANGED <<fire, events, roleVars, netVars, happened>>
  BY DEF CreateMission, Done
<1>2. Typed /\ Indexed /\ work[c][t] # <<>> /\ none \in Seq(Plain)
  BY <1>1, AtMission
<1> HIDE DEF none
<1>3. CASE HasOpen(c)
  <2>1. UNCHANGED <<clock, mission, index, saved, minted>>
    BY <1>3 DEF CreateMission
  <2>2. Indexed'
    BY <1>2, <2>1 DEF Indexed
  <2> QED BY <1>1, <1>2, <2>1, <2>2, MissionStep DEF Typed
<1>4. CASE ~ HasOpen(c)
  <2>1. /\ minted < MaxMission /\ minted' = m /\ Ticks
        /\ mission' = [mission EXCEPT ![c][m] = rec]
        /\ saved' = [saved EXCEPT ![c][m] = rec]
        /\ index' = [index EXCEPT ![c] = m]
    BY <1>4 DEF CreateMission
  <2>2. m \in Mission /\ m # 0 /\ m \in 0 .. MaxMission
    BY <1>2, <2>1, ReplicationAssumption DEF Typed, Mission
  <2>3. clock' \in Time /\ clock' = clock + 1
    BY <1>2, <2>1, ReplicationAssumption DEF Typed, Ticks, Time
  <2>4. rec \in [state : MissionState, ver : Time] /\ rec.state = "CREATED"
    BY <2>3, Words
  <2> HIDE DEF m, rec
  <2>5. mission' \in [Commander -> Missions] /\ saved' \in [Commander -> Missions]
    BY <1>2, <2>1, <2>2, <2>4 DEF Typed, Missions
  <2>6. /\ \A d \in Commander \ {c} : mission'[d] = mission[d] /\ index'[d] = index[d]
        /\ index'[c] = m /\ mission'[c][m] = rec
    BY <1>2, <2>1, <2>2 DEF Typed, Missions
  <2>11. index'[c] # 0 /\ mission'[c][index'[c]].state # "NONE"
    BY <2>2, <2>4, <2>6
  <2>12. ASSUME NEW d \in Commander \ {c}
         PROVE  /\ index'[d] # 0 => mission'[d][index'[d]].state # "NONE"
                /\ \A k \in Mission : mission'[d][k].state # "NONE" => index'[d] # 0
    <3>1. mission'[d] = mission[d] /\ index'[d] = index[d]
      BY <2>6
    <3> QED BY <1>2, <3>1 DEF Indexed
  <2>7. Indexed'
    BY <2>11, <2>12 DEF Indexed
  <2>8. index' \in [Commander -> 0 .. MaxMission]
    BY <1>2, <2>1, <2>2 DEF Typed
  <2>9. minted' \in 0 .. MaxMission
    BY <2>1, <2>2
  <2>10. IInv'
    BY <1>1, <1>2, <2>3, <2>5, <2>7, <2>8, <2>9, MissionStep
  <2> QED BY <1>4, <2>6, <2>10
<1> QED BY <1>3, <1>4

\* One mission of one commander is changed.
LEMMA MissionChanged ==
  ASSUME NEW of \in [Commander -> Missions], NEW c \in Commander, NEW i \in Mission,
         NEW rec \in [state : MissionState, ver : Time]
  PROVE  /\ [of EXCEPT ![c][i] = rec] \in [Commander -> Missions]
         /\ \A d \in Commander, m \in Mission :
              [of EXCEPT ![c][i] = rec][d][m] = IF d = c /\ m = i THEN rec ELSE of[d][m]
BY DEF Missions

\* A mission changes its state; its version follows; missions are merged.
LEMMA SetStateKeeps ==
  ASSUME IInv, NEW c \in Commander, NEW t \in Thread, SetState(c, t)
  PROVE  IInv' /\ minted' = minted
<1> DEFINE i == index[c]
           st == Arg(c, t)
           none == <<>>
           stamp == Do("stamp", i)
<1>1. PICK what \in {"move", "pause"} : At(c, t, what)
  BY DEF SetState
<1>2. /\ Typed /\ Indexed /\ work[c][t] # <<>> /\ st \in MissionState \ {"NONE"}
      /\ none \in Seq(Plain)
  BY <1>1, AtMission
<1>3. /\ UNCHANGED <<clock, fire, index, saved, events, minted, roleVars, netVars, happened>>
      /\ index' \in [Commander -> 0 .. MaxMission] /\ saved' \in [Commander -> Missions]
      /\ clock' \in Time /\ clock' = clock /\ minted' = minted /\ minted' \in 0 .. MaxMission
  BY <1>2 DEF SetState, Typed
<1> HIDE DEF st, none
<1>4. CASE Moves(c, Head(work[c][t]))
  <2>1. /\ mission' = [mission EXCEPT ![c][i].state = st] /\ Goes(c, t, <<stamp>>)
        /\ i # 0
    BY <1>4 DEF SetState, Moves, st
  <2>2. i \in Mission
    BY <1>2, <2>1, ReplicationAssumption DEF Typed, Mission
  <2>3. stamp \in Plain
    BY <2>2, Statements
  <2> DEFINE rec == [mission[c][i] EXCEPT !.state = st]
  <2>10. /\ rec \in [state : MissionState, ver : Time] /\ rec.state = st
         /\ mission' = [mission EXCEPT ![c][i] = rec]
    <3>1. mission[c][i] \in [state : MissionState, ver : Time]
      BY <1>2, <2>2 DEF Typed, Missions
    <3>2. mission' = [mission EXCEPT ![c][i] = rec]
      BY <2>1
    <3> QED BY <1>2, <3>1, <3>2
  <2> HIDE DEF stamp, i, rec
  <2>4. <<stamp>> \in Seq(Plain)
    BY <2>3, ListOf
  <2>9. /\ mission' \in [Commander -> Missions]
        /\ \A d \in Commander, m \in Mission :
             mission'[d][m] = mission[d][m] \/ mission'[d][m] = rec
    <3>1. mission \in [Commander -> Missions]
      BY <1>2 DEF Typed
    <3>2. /\ [mission EXCEPT ![c][i] = rec] \in [Commander -> Missions]
          /\ \A d \in Commander, m \in Mission :
               [mission EXCEPT ![c][i] = rec][d][m] = IF d = c /\ m = i THEN rec ELSE mission[d][m]
      <4>1. i \in Mission /\ rec \in [state : MissionState, ver : Time]
        BY <2>2, <2>10
      <4> QED BY <3>1, <4>1, MissionChanged
    <3> QED BY <2>10, <3>2
  <2>5. /\ mission' \in [Commander -> Missions]
        /\ \A d \in Commander, m \in Mission :
             mission'[d][m].state = mission[d][m].state \/ mission'[d][m].state = st
    BY <2>9, <2>10
  <2>7. ASSUME NEW d \in Commander, NEW m \in Mission, mission'[d][m].state # "NONE"
        PROVE  index[d] # 0
    BY <1>2, <2>1, <2>2, <2>7 DEF Indexed, Typed, Missions, i
  <2>8. ASSUME NEW d \in Commander, index[d] # 0 PROVE mission'[d][index[d]].state # "NONE"
    <3>1. index[d] \in Mission
      BY <1>2, <2>8, ReplicationAssumption DEF Typed, Mission
    <3> QED BY <1>2, <2>5, <2>8, <3>1 DEF Indexed
  <2>6. Indexed'
    BY <1>3, <2>7, <2>8 DEF Indexed
  <2> QED BY <1>2, <1>3, <2>1, <2>4, <2>5, <2>6, MissionStep
<1>5. CASE ~ Moves(c, Head(work[c][t]))
  <2>1. mission' = mission /\ Goes(c, t, none)
    BY <1>5 DEF SetState, Done, none
  <2>2. Indexed' /\ mission' \in [Commander -> Missions]
    BY <1>2, <1>3, <2>1 DEF Indexed, Typed
  <2> QED BY <1>2, <1>3, <2>1, <2>2, MissionStep
<1> QED BY <1>4, <1>5

\* The version of a mission follows.
LEMMA StampKeeps ==
  ASSUME IInv, NEW c \in Commander, NEW t \in Thread, Stamp(c, t)
  PROVE  IInv' /\ minted' = minted
<1> DEFINE i == Arg(c, t)
           none == <<>>
           now == clock + 1
<1>1. /\ At(c, t, "stamp") /\ Goes(c, t, none) /\ Ticks
      /\ mission' = [mission EXCEPT ![c][i].ver = now]
      /\ saved' = [saved EXCEPT ![c][i] = mission'[c][i]]
      /\ UNCHANGED <<fire, index, events, minted, roleVars, netVars, happened>>
  BY DEF Stamp, Done
<1>2. Typed /\ Indexed /\ work[c][t] # <<>> /\ i \in Mission /\ none \in Seq(Plain)
  BY <1>1, AtMission
<1>3. clock' \in Time /\ clock' = now
  BY <1>1, <1>2, ReplicationAssumption DEF Typed, Ticks, Time
<1> HIDE DEF i, none
<1>4. /\ mission' \in [Commander -> Missions]
      /\ \A d \in Commander, m \in Mission : mission'[d][m].state = mission[d][m].state
  <2> DEFINE rec == [mission[c][i] EXCEPT !.ver = now]
  <2>1. mission[c][i] \in [state : MissionState, ver : Time]
    BY <1>2 DEF Typed, Missions
  <2>2. rec \in [state : MissionState, ver : Time] /\ rec.state = mission[c][i].state
    BY <1>3, <2>1
  <2>3. mission' = [mission EXCEPT ![c][i] = rec]
    BY <1>1
  <2> HIDE DEF rec
  <2>4. /\ mission' \in [Commander -> Missions]
        /\ \A d \in Commander, m \in Mission :
             mission'[d][m] = mission[d][m] \/ (d = c /\ m = i /\ mission'[d][m] = rec)
    <3>1. mission \in [Commander -> Missions]
      BY <1>2 DEF Typed
    <3>2. /\ [mission EXCEPT ![c][i] = rec] \in [Commander -> Missions]
          /\ \A d \in Commander, m \in Mission :
               [mission EXCEPT ![c][i] = rec][d][m] = IF d = c /\ m = i THEN rec ELSE mission[d][m]
      BY <1>2, <2>2, <3>1, MissionChanged
    <3> QED BY <2>3, <3>2
  <2> QED BY <2>2, <2>4
<1>5. saved' \in [Commander -> Missions]
  <2>1. mission'[c][i] \in [state : MissionState, ver : Time]
    BY <1>2, <1>4 DEF Missions
  <2> QED BY <1>1, <1>2, <2>1 DEF Typed, Missions
<1>6. /\ index' \in [Commander -> 0 .. MaxMission] /\ index' = index
      /\ minted' = minted /\ minted' \in 0 .. MaxMission
  BY <1>1, <1>2 DEF Typed
<1>8. ASSUME NEW d \in Commander, index[d] # 0 PROVE mission'[d][index[d]].state # "NONE"
  <2>1. index[d] \in Mission
    BY <1>2, <1>8, ReplicationAssumption DEF Typed, Mission
  <2> QED BY <1>2, <1>4, <1>8, <2>1 DEF Indexed
<1>7. Indexed'
  BY <1>2, <1>4, <1>6, <1>8 DEF Indexed
<1> QED BY <1>1, <1>2, <1>3, <1>4, <1>5, <1>6, <1>7, MissionStep

\* Missions are merged.
LEMMA MergeMissionsKeeps ==
  ASSUME IInv, NEW c \in Commander, NEW t \in Thread, MergeMissions(c, t)
  PROVE  IInv' /\ minted' = minted
<1> DEFINE ms == Arg(c, t)
           newer == Newer(mission[c], ms)
           none == <<>>
           merged == [m \in Mission |-> IF m \in newer THEN ms[m] ELSE mission[c][m]]
<1>1. /\ At(c, t, "missions") /\ Goes(c, t, none)
      /\ mission' = [mission EXCEPT ![c] = merged]
      /\ \/ newer = {} /\ UNCHANGED index
         \/ \E last \in newer : index' = [index EXCEPT ![c] = last]
      /\ UNCHANGED <<clock, fire, saved, events, minted, roleVars, netVars, happened>>
  BY DEF MergeMissions, Done, Repaired
<1>2. Typed /\ Indexed /\ work[c][t] # <<>> /\ ms \in Missions /\ none \in Seq(Plain)
  BY <1>1, AtMission
<1>3. /\ \A m \in newer : m \in Mission /\ ms[m].state # "NONE"
      /\ merged \in Missions
      /\ \A m \in Mission : merged[m] = IF m \in newer THEN ms[m] ELSE mission[c][m]
  BY <1>2 DEF Newer, Typed, Missions
<1> HIDE DEF ms, none, newer, merged
<1>4. /\ mission' \in [Commander -> Missions] /\ mission'[c] = merged
      /\ \A d \in Commander \ {c} : mission'[d] = mission[d]
  BY <1>1, <1>2, <1>3 DEF Typed
<1>5. /\ clock' \in Time /\ clock' = clock /\ minted' = minted /\ minted' \in 0 .. MaxMission
      /\ saved' \in [Commander -> Missions]
  BY <1>1, <1>2 DEF Typed
<1>6. CASE newer = {}
  <2>1. index' = index /\ index' \in [Commander -> 0 .. MaxMission]
    BY <1>1, <1>2, <1>6 DEF Typed
  <2>2. \A d \in Commander, m \in Mission : mission'[d][m] = mission[d][m]
    BY <1>3, <1>4, <1>6
  <2>3. ASSUME NEW d \in Commander, index[d] # 0 PROVE mission'[d][index[d]].state # "NONE"
    <3>1. index[d] \in Mission
      BY <1>2, <2>3, ReplicationAssumption DEF Typed, Mission
    <3> QED BY <1>2, <2>2, <2>3, <3>1 DEF Indexed
  <2>4. Indexed'
    BY <1>2, <2>1, <2>2, <2>3 DEF Indexed
  <2> QED BY <1>1, <1>2, <1>4, <1>5, <2>1, <2>4, MissionStep
<1>7. CASE newer # {}
  <2>1. PICK last \in newer : index' = [index EXCEPT ![c] = last]
    BY <1>1, <1>7
  <2>2. /\ last \in Mission /\ last # 0 /\ last \in 0 .. MaxMission
        /\ merged[last].state # "NONE"
    BY <1>3, ReplicationAssumption DEF Mission
  <2>3. /\ index' \in [Commander -> 0 .. MaxMission] /\ index'[c] = last
        /\ \A d \in Commander \ {c} : index'[d] = index[d]
    BY <1>2, <2>1, <2>2 DEF Typed
  <2>4. Indexed'
    BY <1>2, <1>4, <2>2, <2>3 DEF Indexed
  <2> QED BY <1>1, <1>2, <1>4, <1>5, <2>3, <2>4, MissionStep
<1> QED BY <1>6, <1>7

\* A step that writes a log only.
LEMMA LogStep ==
  ASSUME IInv, NEW c \in Commander, NEW t \in Thread, work[c][t] # <<>>, Done(c, t),
         NEW e \in Event, events' = [events EXCEPT ![c] = Add(@, e)],
         \/ Mark(EventMark(e)) /\ clock' = clock
         \/ e.at = clock + 1 /\ clock' = clock + 1,
         clock' \in Time,
         UNCHANGED <<fire, mission, index, saved, minted, roleVars, netVars, happened>>
  PROVE  IInv' /\ minted' = minted
<1> DEFINE none == <<>>
           r == Add(events[c], e)
           new == EventMark(e)
<1>1. Typed /\ Indexed
  BY DEF IInv
<1>2. work' \in Working /\ Delivered(none) /\ ToSet(none) = {}
  BY <1>1, DoneDelivers
<1> HIDE DEF none
<1>3. events[c] \in Seq(Event) /\ IsInjective(events[c])
  BY <1>1 DEF Typed
<1>4. r \in Seq(Event) /\ IsInjective(r) /\ ToSet(r) = ToSet(events[c]) \cup {e}
  BY <1>3, AddItems
<1>5. events' = [events EXCEPT ![c] = r]
  OBVIOUS
<1> HIDE DEF r
<1>6. Typed'
  <2>1. events' \in [Commander -> Seq(Event)] /\ \A d \in Commander : IsInjective(events'[d])
    BY <1>1, <1>4, <1>5 DEF Typed
  <2> QED BY <1>1, <1>2, <2>1 DEF Typed, roleVars, netVars
<1>7. Indexed' /\ inbox' = inbox /\ fire' = fire
  BY <1>1 DEF Indexed, netVars
<1>8. \A d \in Commander : events'[d] = events[d] \/ (d = c /\ events'[d] = r)
  BY <1>1, <1>5 DEF Typed
<1>9. \A d \in Commander : \A x \in ToSet(events'[d]) : Mark(EventMark(x)) \/ EventMark(x) = new
  BY <1>4, <1>8, Marked
<1>10. \A d \in Commander : Mark(FireMark(fire'[d]))
  BY <1>7, Marked
<1>11. Mark(new) \/ (new[3] = clock + 1 /\ clock' = clock + 1)
  BY DEF EventMark
<1> HIDE DEF new
<1> QED BY <1>2, <1>6, <1>7, <1>9, <1>10, <1>11, WriteStep

\* An event is logged, or appended.
LEMMA LogsKeep ==
  ASSUME IInv, NEW c \in Commander, NEW t \in Thread, LogEvent(c, t) \/ AppendEvent(c, t)
  PROVE  IInv' /\ minted' = minted
<1>1. CASE LogEvent(c, t)
  <2> DEFINE a == Arg(c, t)
             e == [type |-> a.type, node |-> a.node, at |-> clock + 1]
  <2>1. /\ At(c, t, "log") /\ Done(c, t) /\ Ticks
        /\ events' = [events EXCEPT ![c] = Add(@, e)]
        /\ UNCHANGED <<fire, mission, index, saved, minted, roleVars, netVars, happened>>
    BY <1>1 DEF LogEvent
  <2>2. Typed /\ work[c][t] # <<>> /\ a \in [type : EventType, node : Target]
    BY <2>1, AtMission
  <2>3. clock' \in Time /\ clock' = clock + 1
    BY <2>1, <2>2, ReplicationAssumption DEF Typed, Ticks, Time
  <2>4. e \in Event /\ e.at = clock + 1
    BY <2>2, <2>3 DEF Event
  <2> HIDE DEF e
  <2> QED BY <2>1, <2>2, <2>3, <2>4, LogStep
<1>2. CASE AppendEvent(c, t)
  <2> DEFINE e == Arg(c, t)
  <2>1. /\ At(c, t, "append") /\ Done(c, t)
        /\ events' = [events EXCEPT ![c] = Add(@, e)] /\ clock' = clock
        /\ UNCHANGED <<fire, mission, index, saved, minted, roleVars, netVars, happened>>
    BY <1>2 DEF AppendEvent
  <2>2. Typed /\ work[c][t] # <<>> /\ e \in Event /\ Mark(EventMark(e))
    BY <2>1, AtMission
  <2>3. clock' \in Time
    BY <2>1, <2>2 DEF Typed
  <2> HIDE DEF e
  <2> QED BY <2>1, <2>2, <2>3, LogStep
<1> QED BY <1>1, <1>2

\* A log in the order of time has nothing that is not in the log.
LEMMA ByTimeItems ==
  ASSUME NEW log \in Seq(Event)
  PROVE  ByTime(log) \in Seq(Event) /\ ToSet(ByTime(log)) \subseteq ToSet(log)
<1> DEFINE AnyEvent == Event \cup {NoEvent}
           ts == [t \in 1 .. MaxClock |-> EventAt(log, t)]
           r == ByTime(log)
           logged == ToSet(log)
           none == <<>>
<1>1. MaxClock \in Nat /\ logged \subseteq Event
  BY ReplicationAssumption, SetOfSeq
<1>2. \A t \in 1 .. MaxClock : EventAt(log, t) \in AnyEvent
  BY <1>1 DEF EventAt
<1>3. ts \in Seq(AnyEvent) /\ none \in Seq(AnyEvent) /\ ToSet(none) = {}
  <2> HIDE DEF AnyEvent
  <2> QED BY <1>1, <1>2 DEF ToSet
<1>4. r = Joined(none, ts, logged)
  BY DEF ByTime
<1> HIDE DEF AnyEvent, ts, r, logged, none
<1>5. r \in Seq(AnyEvent) /\ ToSet(r) = ToSet(none) \cup (ToSet(ts) \cap logged)
  BY <1>3, <1>4, JoinedItems
<1>6. ToSet(r) \subseteq logged
  BY <1>3, <1>5
<1>7. r \in Seq(Event)
  <2>1. \A i \in 1 .. Len(r) : r[i] \in Event
    BY <1>1, <1>5, <1>6 DEF ToSet
  <2> QED BY <1>5, <2>1
<1> QED BY <1>6, <1>7 DEF r, logged

\* What start() has to replay.
LEMMA ReplayItems ==
  ASSUME NEW es \in Seq(Event)
  PROVE  /\ [i \in 1 .. Len(es) |-> Do("project", es[i])] \in Seq(Statement)
         /\ \A op \in ToSet([i \in 1 .. Len(es) |-> Do("project", es[i])]) :
              \E e \in ToSet(es) : MarksOf(op) = {EventMark(e)}
<1> DEFINE r == [i \in 1 .. Len(es) |-> Do("project", es[i])]
<1>1. ASSUME NEW i \in 1 .. Len(es)
      PROVE  r[i] \in Statement /\ \E e \in ToSet(es) : MarksOf(r[i]) = {EventMark(e)}
  <2>1. es[i] \in Event /\ es[i] \in ToSet(es)
    BY DEF ToSet
  <2>2. r[i] = Do("project", es[i])
    OBVIOUS
  <2> HIDE DEF r
  <2> QED BY <2>1, <2>2, EventItem
<1>2. DOMAIN r = 1 .. Len(es) /\ r = [i \in 1 .. Len(es) |-> r[i]] /\ Len(es) \in Nat
  OBVIOUS
<1> HIDE DEF r
<1>3. r \in Seq(Statement)
  BY <1>1, <1>2
<1>4. \A op \in ToSet(r) : \E e \in ToSet(es) : MarksOf(op) = {EventMark(e)}
  BY <1>1, <1>2 DEF ToSet
<1> QED BY <1>3, <1>4 DEF r

\* The first of its leaders is all that a fire's row keeps.
LEMMA CutFire ==
  ASSUME NEW f \in FireRecord
  PROVE  Row(f) \in FireRecord /\ FireMark(Row(f)) = FireMark(f)
<1> DEFINE ns == IF f.nodes = <<>> THEN <<>> ELSE <<Head(f.nodes)>>
           cut == [f EXCEPT !.nodes = ns]
<1>1. /\ f \in [state : FireState, nodes : Seq(Leader), ver : Time]
      /\ f.nodes \in Seq(Leader) /\ IsInjective(f.nodes)
  BY DEF FireRecord
<1>2. ns \in Seq(Leader) /\ IsInjective(ns)
  <2>1. CASE f.nodes = <<>>
    BY <1>1, <2>1 DEF IsInjective
  <2>2. CASE f.nodes # <<>>
    <3>1. Head(f.nodes) \in Leader
      BY <1>1, <2>2
    <3>2. <<Head(f.nodes)>> \in Seq(Leader)
      BY <3>1, ListOf
    <3>3. IsInjective(<<Head(f.nodes)>>)
      BY DEF IsInjective
    <3> QED BY <2>2, <3>2, <3>3
  <2> QED BY <2>1, <2>2
<1> HIDE DEF ns
<1>3. cut = [state |-> f.state, nodes |-> ns, ver |-> f.ver]
  BY <1>1
<1>4. cut \in FireRecord /\ FireMark(cut) = FireMark(f)
  BY <1>1, <1>2, <1>3 DEF FireRecord, FireMark
<1> QED BY <1>4 DEF ns, Row

\* start(): the stores come back from the disk, and the log is to be replayed.
LEMMA RestartKeeps ==
  ASSUME IInv, NEW c \in Commander, Restart(c)
  PROVE  IInv' /\ minted' = minted
<1> DEFINE cut == Row(fire[c])
           es == ByTime(events[c])
           ops == [i \in 1 .. Len(es) |-> Do("project", es[i])]
           rows == { m \in Mission : saved[c][m].state # "NONE" }
           nofire == FireMark(NoFire)
<1>1. /\ Typed /\ Indexed /\ up' = [up EXCEPT ![c] = TRUE]
      /\ active' = [active EXCEPT ![c] = c = Central]
      /\ fire' = [fire EXCEPT ![c] = cut]
      /\ mission' = [mission EXCEPT ![c] = saved[c]]
      /\ work' = [work EXCEPT ![c]["main"] = ops]
      /\ UNCHANGED <<clock, saved, events, minted, netVars, happened>>
  <2>1. Typed /\ Indexed
    BY DEF IInv
  <2>2. up' = [up EXCEPT ![c] = TRUE] /\ active' = [active EXCEPT ![c] = c = Central]
    BY DEF Restart
  <2>3. fire' = [fire EXCEPT ![c] = cut] /\ mission' = [mission EXCEPT ![c] = saved[c]]
    BY DEF Restart
  <2>4. work' = [work EXCEPT ![c]["main"] = ops]
    BY DEF Restart
  <2>5. UNCHANGED <<clock, saved, events, minted, netVars, happened>>
    BY DEF Restart
  <2> QED BY <2>1, <2>2, <2>3, <2>4, <2>5
<1>2. PICK last \in IF rows = {} THEN {0} ELSE rows : index' = [index EXCEPT ![c] = last]
  BY DEF Restart
<1>3. /\ fire[c] \in FireRecord /\ events[c] \in Seq(Event) /\ saved[c] \in Missions
      /\ "main" \in Thread
  BY <1>1 DEF Typed, Thread
<1>4. cut \in FireRecord /\ FireMark(cut) = FireMark(fire[c])
  BY <1>3, CutFire
<1>5. es \in Seq(Event) /\ ToSet(es) \subseteq ToSet(events[c])
  BY <1>3, ByTimeItems
<1> HIDE DEF cut, es
<1>6. /\ ops \in Seq(Statement)
      /\ \A op \in ToSet(ops) : \E e \in ToSet(es) : MarksOf(op) = {EventMark(e)}
  BY <1>5, ReplayItems
<1> HIDE DEF ops
<1>7. \A op \in ToSet(ops) : \A m \in MarksOf(op) : Mark(m)
  <2>1. \A e \in ToSet(es) : Mark(EventMark(e))
    BY <1>5, Marked
  <2> QED BY <1>6, <2>1
<1>8. work' \in Working /\ Delivered(ops)
  BY <1>1, <1>3, <1>6, BeginsDelivers
<1>9. last \in 0 .. MaxMission /\ (last # 0 => last \in rows) /\ (last = 0 => rows = {})
  <2>1. rows \subseteq 1 .. MaxMission /\ MaxMission \in Nat
    BY ReplicationAssumption DEF Mission
  <2> HIDE DEF rows
  <2> QED BY <1>2, <2>1
<1>10. /\ mission' \in [Commander -> Missions] /\ mission'[c] = saved[c]
       /\ index' \in [Commander -> 0 .. MaxMission] /\ index'[c] = last
       /\ \A d \in Commander \ {c} : mission'[d] = mission[d] /\ index'[d] = index[d]
  BY <1>1, <1>2, <1>3, <1>9 DEF Typed
<1>11. Typed'
  BY <1>1, <1>4, <1>8, <1>10 DEF Typed, netVars
<1>12. Indexed'
  BY <1>1, <1>9, <1>10 DEF Indexed
<1>13. \A d \in Commander : Mark(FireMark(fire'[d]))
  <2>1. \A d \in Commander : fire'[d] = fire[d] \/ (d = c /\ fire'[d] = cut)
    BY <1>1 DEF Typed
  <2> QED BY <1>4, <2>1, Marked
<1>14. /\ \A d \in Commander : \A e \in ToSet(events'[d]) : Mark(EventMark(e))
       /\ Mark(nofire) /\ clock' = clock /\ inbox' = inbox /\ minted' = minted
  BY <1>1, Marked DEF netVars
<1> HIDE DEF nofire
<1> QED BY <1>7, <1>8, <1>11, <1>12, <1>13, <1>14, WriteStep

-----------------------------------------------------------------------------
(* Every state, every step.                                                *)

\* A function of the two commanders, given by its two values.
LEMMA OfEach ==
  ASSUME NEW S, NEW a \in S, NEW b \in S
  PROVE  Each(a, b) \in [Commander -> S] /\ Each(a, b)[Central] = a /\ Each(a, b)[Backup] = b
BY ReplicationAssumption DEF Commander, Each

\* What a list of two events has.
LEMMA TwoItems ==
  ASSUME NEW a, NEW b, a # b
  PROVE  <<a, b>> \in Seq({a, b}) /\ ToSet(<<a, b>>) = {a, b} /\ IsInjective(<<a, b>>)
<1> DEFINE s == <<a, b>>
<1>1. s \in Seq({a, b}) /\ Len(s) = 2 /\ s[1] = a /\ s[2] = b /\ DOMAIN s = 1 .. 2
  OBVIOUS
<1> HIDE DEF s
<1>2. ToSet(s) = {a, b}
  BY <1>1 DEF ToSet
<1>3. IsInjective(s)
  BY <1>1 DEF IsInjective
<1> QED BY <1>1, <1>2, <1>3 DEF s

\* The stores of a commander at the start.
Start(f, ms, i, es) ==
  /\ f \in FireRecord /\ ms \in Missions /\ i \in 0 .. MaxMission
  /\ i # 0 => ms[i].state # "NONE"
  /\ \A m \in Mission : ms[m].state # "NONE" => i # 0
  /\ es \in Seq(Event) /\ IsInjective(es)
  /\ f.ver <= clock /\ (f.ver = 0 => f.state = "UNKNOWN")
  /\ \A e \in ToSet(es) : e.at <= clock
  /\ \A d, e \in ToSet(es) : d.at = e.at => d = e

\* A commander that has just come up has nothing.
LEMMA NothingYet ==
  ASSUME clock \in Nat
  PROVE  Start(NoFire, NoMissions, 0, <<>>)
<1> DEFINE none == <<>>
<1>1. none \in Seq(Event) /\ none \in Seq(Leader) /\ IsInjective(none) /\ ToSet(none) = {}
  BY DEF IsInjective, ToSet
<1>2. NoFire = [state |-> "UNKNOWN", nodes |-> none, ver |-> 0]
  BY DEF NoFire
<1> HIDE DEF none
<1>3. NoFire \in FireRecord /\ NoFire.ver = 0 /\ NoFire.state = "UNKNOWN"
  BY <1>1, <1>2, ReplicationAssumption DEF FireRecord, FireState, Time
<1>4. NoMissions \in Missions /\ \A m \in Mission : NoMissions[m].state = "NONE"
  BY ReplicationAssumption DEF NoMissions, NoMission, Missions, MissionState, Time
<1>5. 0 \in 0 .. MaxMission
  BY ReplicationAssumption
<1>6. Start(NoFire, NoMissions, 0, none)
  BY <1>1, <1>3, <1>4, <1>5 DEF Start
<1> QED BY <1>6 DEF none

\* The fire that Central fights at the start.
LEMMA BurningStart ==
  ASSUME NEW l \in Leader, clock = Fought
  PROVE  Start(Burning(l).fire, Burning(l).mission, 1, Burning(l).events)
<1> DEFINE a == [type |-> "DETECTED", node |-> NoLeader, at |-> 1]
           b == [type |-> "DISPATCHED", node |-> l, at |-> 3]
           f == [state |-> "ACTIVE", nodes |-> <<l>>, ver |-> 2]
           k == [state |-> "RUNNING", ver |-> Fought]
           ms == [NoMissions EXCEPT ![1] = k]
           es == <<a, b>>
<1>1. Burning(l).fire = f /\ Burning(l).mission = ms /\ Burning(l).events = es
  BY DEF Burning
<1>2. a \in Event /\ b \in Event /\ a.at = 1 /\ b.at = 3 /\ a # b
  BY ReplicationAssumption DEF Event, EventType, Target, Time, Fought
<1>3. f \in FireRecord /\ f.state = "ACTIVE" /\ f.ver = 2
  <2>1. <<l>> \in Seq(Leader) /\ IsInjective(<<l>>)
    BY DEF IsInjective
  <2> QED BY <2>1, ReplicationAssumption DEF FireRecord, FireState, Time, Fought
<1>4. k \in [state : MissionState, ver : Time] /\ k.state = "RUNNING"
  BY ReplicationAssumption DEF MissionState, Fought, Time
<1>5. 1 \in Mission /\ 1 \in 0 .. MaxMission
  BY ReplicationAssumption DEF Mission
<1> HIDE DEF a, b, f, k
<1>6. /\ ms \in Missions /\ ms[1].state # "NONE"
      /\ \A m \in Mission : ms[m].state # "NONE" => m = 1
  <2>1. NoMissions \in Missions /\ \A m \in Mission : NoMissions[m].state = "NONE"
    BY ReplicationAssumption DEF NoMissions, NoMission, Missions, MissionState, Time
  <2> QED BY <1>4, <1>5, <2>1 DEF Missions
<1>7. es \in Seq({a, b}) /\ ToSet(es) = {a, b} /\ IsInjective(es)
  BY <1>2, TwoItems
<1>8. es \in Seq(Event)
  BY <1>2
<1> HIDE DEF es, ms
<1>9. Start(f, ms, 1, es)
  BY <1>2, <1>3, <1>5, <1>6, <1>7, <1>8 DEF Start, Fought
<1> QED BY <1>1, <1>9

\* Either way each commander starts so, and Backup with nothing.
Starts ==
  /\ clock \in Time /\ minted \in 0 .. MaxMission
  /\ fire \in [Commander -> FireRecord] /\ mission \in [Commander -> Missions]
  /\ index \in [Commander -> 0 .. MaxMission] /\ events \in [Commander -> Seq(Event)]
  /\ \A c \in Commander : Start(fire[c], mission[c], index[c], events[c])
  /\ fire[Backup] = NoFire /\ events[Backup] = <<>>

\* A pair of such stores.
LEMMA PairStarts ==
  ASSUME NEW f, NEW ms, NEW i, NEW es, Start(f, ms, i, es), clock \in Time,
         minted \in 0 .. MaxMission,
         fire = Each(f, NoFire), mission = Each(ms, NoMissions), index = Each(i, 0),
         events = Each(es, <<>>)
  PROVE  Starts
<1> DEFINE none == <<>>
<1>1. clock \in Nat
  BY ReplicationAssumption DEF Time
<1>2. Start(NoFire, NoMissions, 0, none)
  BY <1>1, NothingYet
<1>3. /\ f \in FireRecord /\ ms \in Missions /\ i \in 0 .. MaxMission /\ es \in Seq(Event)
      /\ NoFire \in FireRecord /\ NoMissions \in Missions /\ 0 \in 0 .. MaxMission
      /\ none \in Seq(Event) /\ events = Each(es, none)
  <2> HIDE DEF none
  <2>1. events = Each(es, none)
    BY DEF none
  <2> QED BY <1>2, <2>1 DEF Start
<1> HIDE DEF none
<1>4. fire \in [Commander -> FireRecord] /\ fire[Central] = f /\ fire[Backup] = NoFire
  BY <1>3, OfEach
<1>5. mission \in [Commander -> Missions] /\ mission[Central] = ms /\ mission[Backup] = NoMissions
  BY <1>3, OfEach
<1>6. index \in [Commander -> 0 .. MaxMission] /\ index[Central] = i /\ index[Backup] = 0
  <2> DEFINE S == 0 .. MaxMission
  <2>1. i \in S /\ 0 \in S
    BY <1>3
  <2> HIDE DEF S
  <2>2. index \in [Commander -> S] /\ index[Central] = i /\ index[Backup] = 0
    BY <2>1, OfEach
  <2> QED BY <2>2 DEF S
<1>7. events \in [Commander -> Seq(Event)] /\ events[Central] = es /\ events[Backup] = none
  BY <1>3, OfEach
<1>8. \A c \in Commander : Start(fire[c], mission[c], index[c], events[c])
  <2>1. Start(fire[Central], mission[Central], index[Central], events[Central])
    BY <1>4, <1>5, <1>6, <1>7
  <2>2. Start(fire[Backup], mission[Backup], index[Backup], events[Backup])
    BY <1>2, <1>4, <1>5, <1>6, <1>7
  <2> QED BY <2>1, <2>2 DEF Commander
<1> QED BY <1>4, <1>5, <1>6, <1>7, <1>8 DEF Starts, none

\* The stores at the start.
LEMMA InitStarts ==
  ASSUME Init
  PROVE  Starts
<1>1. 0 \in Time /\ Fought \in Time /\ 0 \in Nat /\ 0 \in 0 .. MaxMission /\ 1 \in 0 .. MaxMission
  BY ReplicationAssumption DEF Time, Fought
<1>2. CASE /\ clock = 0 /\ minted = 0
           /\ fire = Each(NoFire, NoFire) /\ mission = Each(NoMissions, NoMissions)
           /\ index = Each(0, 0) /\ events = Each(<<>>, <<>>)
  <2> DEFINE none == <<>>
  <2>1. Start(NoFire, NoMissions, 0, none)
    BY <1>1, <1>2, NothingYet
  <2>2. events = Each(none, <<>>)
    BY <1>2
  <2> HIDE DEF none
  <2> QED BY <1>1, <1>2, <2>1, <2>2, PairStarts
<1>3. ASSUME clock = Fought, minted = 1, NEW l \in Leader,
             fire = Each(Burning(l).fire, NoFire),
             mission = Each(Burning(l).mission, NoMissions),
             events = Each(Burning(l).events, <<>>), index = Each(1, 0)
      PROVE  Starts
  <2>1. Start(Burning(l).fire, Burning(l).mission, 1, Burning(l).events)
    BY <1>3, BurningStart
  <2> QED BY <1>1, <1>3, <2>1, PairStarts
<1> QED BY <1>2, <1>3 DEF Init

\* The invariant holds when Backup comes up.
LEMMA InitInv ==
  ASSUME Init
  PROVE  IInv
<1> DEFINE none == <<>>
<1>1. Starts
  BY InitStarts
<1>2. /\ saved = mission /\ happened = 0
      /\ up = Each(TRUE, TRUE) /\ active = Each(TRUE, FALSE)
      /\ work = [c \in Commander |-> [t \in Thread |-> none]]
      /\ lastAt = Each(0, 0) /\ inbox = Each(none, none)
  BY DEF Init
<1>3. /\ none \in Seq(Statement) /\ none \in Seq(Snapshot) /\ ToSet(none) = {}
      /\ 0 \in Time /\ 0 \in 0 .. MaxEvent /\ clock \in Nat
  BY <1>1, ReplicationAssumption DEF ToSet, Time, Starts
<1>4. ToSet(events[Backup]) = {}
  BY <1>1, <1>3 DEF Starts
<1> HIDE DEF none
<1>5. /\ work \in Working /\ up \in [Commander -> BOOLEAN] /\ active \in [Commander -> BOOLEAN]
      /\ lastAt \in [Commander -> Time] /\ inbox \in [Commander -> Seq(Snapshot)]
      /\ inbox[Central] = none /\ inbox[Backup] = none
      /\ \A c \in Commander, t \in Thread : work[c][t] = none
  BY <1>2, <1>3, OfEach DEF Working
<1>6. Typed
  <2>1. \A c \in Commander : IsInjective(events[c])
    BY <1>1 DEF Starts, Start
  <2> QED BY <1>1, <1>2, <1>3, <1>5, <2>1 DEF Typed, Starts
<1>7. Indexed
  BY <1>1 DEF Indexed, Starts, Start
<1>8. Central \in Commander /\ \A c \in Commander : c = Central \/ c = Backup
  BY DEF Commander
<1> DEFINE f == fire[Central]
           es == events[Central]
           nofire == FireMark(NoFire)
           mark == FireMark(f)
<1>9. ASSUME NEW m, Mark(m)
      PROVE  m = nofire \/ m = mark \/ \E e \in ToSet(es) : m = EventMark(e)
  <2>1. CASE m = nofire
    BY <2>1
  <2>2. ASSUME NEW c \in Commander, Holds(c, m)
        PROVE  m = nofire \/ m = mark \/ \E e \in ToSet(es) : m = EventMark(e)
    <3>1. ToSet(inbox[c]) = {} /\ \A t \in Thread : ToSet(work[c][t]) = {}
      BY <1>3, <1>5, <1>8
    <3>2. m = FireMark(fire[c]) \/ \E e \in ToSet(events[c]) : m = EventMark(e)
      BY <2>2, <3>1 DEF Holds
    <3>3. fire[Backup] = NoFire
      BY <1>1 DEF Starts
    <3> QED BY <1>4, <1>8, <3>2, <3>3
  <2> QED BY <1>9, <2>1, <2>2 DEF Mark
<1>10. /\ f.ver \in Nat /\ f.ver <= clock /\ (f.ver = 0 => f.state = "UNKNOWN")
       /\ \A e \in ToSet(es) : e.at \in Nat /\ e.at <= clock
       /\ \A d, e \in ToSet(es) : d.at = e.at => d = e
  <2>1. Start(f, mission[Central], index[Central], es)
    BY <1>1, <1>8 DEF Starts
  <2>2. f.ver \in Time /\ \A e \in ToSet(es) : e \in Event
    BY <2>1, SetOfSeq DEF Start, FireRecord
  <2> QED BY <2>1, <2>2, ReplicationAssumption DEF Start, Event, Time
<1>11. /\ nofire[1] = "fire" /\ nofire[2] = "UNKNOWN" /\ nofire[3] = 0
       /\ mark[1] = "fire" /\ mark[2] = f.state /\ mark[3] = f.ver
       /\ \A e : EventMark(e)[1] = "event" /\ EventMark(e)[2] = e /\ EventMark(e)[3] = e.at
  BY DEF FireMark, NoFire, EventMark
<1> HIDE DEF f, es, nofire, mark
<1>12. Dated
  <2>1. ASSUME NEW m, Mark(m) PROVE m[3] \in Nat /\ m[3] <= clock
    <3>1. CASE m = nofire
      BY <1>3, <1>11, <3>1
    <3>2. CASE m = mark
      BY <1>10, <1>11, <3>2
    <3>3. ASSUME NEW e \in ToSet(es), m = EventMark(e) PROVE m[3] \in Nat /\ m[3] <= clock
      BY <1>10, <1>11, <3>3
    <3> QED BY <1>9, <2>1, <3>1, <3>2, <3>3
  <2>2. ASSUME NEW m, NEW n, Mark(m), Mark(n), m[1] = n[1], m[3] = n[3] PROVE m[2] = n[2]
    <3>1. m = nofire \/ m = mark \/ \E e \in ToSet(es) : m = EventMark(e)
      BY <1>9, <2>2
    <3>2. n = nofire \/ n = mark \/ \E e \in ToSet(es) : n = EventMark(e)
      BY <1>9, <2>2
    <3>3. CASE m[1] = "fire"
      <4>1. (m = nofire \/ m = mark) /\ (n = nofire \/ n = mark)
        BY <1>11, <2>2, <3>1, <3>2, <3>3
      <4> QED BY <1>10, <1>11, <2>2, <4>1
    <3>4. CASE m[1] = "event"
      <4>1. PICK d \in ToSet(es) : m = EventMark(d)
        BY <1>11, <3>1, <3>4
      <4>2. PICK e \in ToSet(es) : n = EventMark(e)
        BY <1>11, <2>2, <3>2, <3>4
      <4> QED BY <1>10, <1>11, <2>2, <4>1, <4>2
    <3> QED BY <1>11, <3>1, <3>3, <3>4
  <2> QED BY <2>1, <2>2 DEF Dated
<1> QED BY <1>6, <1>7, <1>12 DEF IInv

\* What a step that opens a mission finds.
Opens ==
  \E c \in Commander : ~ HasOpen(c) /\ \A d \in Commander \ {c} : mission'[d] = mission[d]

\* Every step keeps the invariant, and only one that finds no open mission opens one.
LEMMA NextInv ==
  ASSUME IInv, [Next]_vars
  PROVE  IInv' /\ (minted' = minted \/ Opens)
<1>1. ASSUME NEW c \in Commander,
             \/ FireDetected(c) \/ FireContained(c) \/ FireSuppressed(c) \/ FireRekindled(c)
             \/ AckReceived(c) \/ \E l \in Leader : LeaderFailed(c, l) \/ LeaderAvailable(c, l)
      PROVE  IInv' /\ minted' = minted
  BY <1>1, HandlersKeep
<1>2. ASSUME NEW c \in Commander, NEW t \in Thread, ThreadStep(c, t)
      PROVE  IInv' /\ (minted' = minted \/ Opens)
  <2>1. CASE WriteFire(c, t)
    BY <2>1, WriteFireKeeps
  <2>2. CASE StoreFire(c, t)
    BY <2>2, StoreFireKeeps
  <2>3. CASE CreateMission(c, t)
    <3>1. /\ IInv'
          /\ minted' = minted \/ (~ HasOpen(c) /\ \A d \in Commander \ {c} : mission'[d] = mission[d])
      BY <2>3, CreateKeeps
    <3> QED BY <3>1, Zenon DEF Opens
  <2>4. CASE SetState(c, t)
    BY <2>4, SetStateKeeps
  <2>5. CASE Stamp(c, t)
    BY <2>5, StampKeeps
  <2>6. CASE MergeMissions(c, t)
    BY <2>6, MergeMissionsKeeps
  <2>7. CASE LogEvent(c, t) \/ AppendEvent(c, t)
    BY <2>7, LogsKeep
  <2>8. CASE Decide(c, t) \/ Deactivate(c, t)
    BY <2>8, DecideKeeps
  <2>9. CASE Read(c, t)
    BY <2>9, ReadKeeps
  <2>10. CASE Publish(c, t)
    BY <2>10, PublishKeeps
  <2> QED BY <1>2, <2>1, <2>2, <2>3, <2>4, <2>5, <2>6, <2>7, <2>8, <2>9, <2>10 DEF ThreadStep
<1>3. CASE \E c \in Commander : SnapshotLoop(c)
  BY <1>3, RoundsKeep
<1>4. CASE StandDown
  BY <1>4, RoundsKeep
<1>5. CASE Promote
  BY <1>5, PromoteKeeps
<1>6. ASSUME NEW c \in Commander, ApplySnapshot(c) PROVE IInv' /\ minted' = minted
  BY <1>6, ApplyKeeps
<1>7. ASSUME NEW c \in Commander, Crash(c) PROVE IInv' /\ minted' = minted
  BY <1>7, CrashKeeps
<1>8. ASSUME NEW c \in Commander, Restart(c) PROVE IInv' /\ minted' = minted
  BY <1>8, RestartKeeps
<1>9. CASE UNCHANGED vars
  <2>1. Typed' /\ Indexed' /\ minted' = minted
    BY <1>9 DEF IInv, Typed, Indexed, vars, storeVars, roleVars, netVars
  <2>2. clock' = clock /\ fire' = fire /\ events' = events /\ work' = work /\ inbox' = inbox
    BY <1>9 DEF vars, storeVars, netVars
  <2>3. \A m : Mark(m)' => Mark(m)
    BY <2>2 DEF Mark, Holds
  <2>4. Dated'
    BY <2>2, <2>3 DEF IInv, Dated
  <2> QED BY <2>1, <2>4 DEF IInv
<1> QED BY <1>1, <1>2, <1>3, <1>4, <1>5, <1>6, <1>7, <1>8, <1>9, Zenon DEF Next

\* Every reachable state: the strengthened invariant.
LEMMA Invariant == Spec => []IInv
<1>1. Init => IInv
  BY InitInv
<1>2. IInv /\ [Next]_vars => IInv'
  BY NextInv
<1> QED BY <1>1, <1>2, PTL DEF Spec

-----------------------------------------------------------------------------
(* Theorems                                                                *)

\* The stores, logs, clocks and roles stay what they are; two entries of the logs
\* that carry the same time are the same event, whichever commander made them, and
\* no log has one twice (domain_events.py, mission_store.py, fire_state_store.py).
THEOREM TypesHold == Spec => []TypeOK
<1>1. IInv => TypeOK
  <2> SUFFICES ASSUME IInv PROVE TypeOK
    OBVIOUS
  <2>1. Typed /\ Dated /\ Indexed
    BY DEF IInv
  <2>2. ASSUME NEW c \in Commander
        PROVE  /\ fire[c].state \in FireState /\ fire[c].ver \in Time
               /\ fire[c].nodes \in Seq(Leader) /\ IsInjective(fire[c].nodes)
    BY <2>1 DEF Typed, FireRecord
  <2>3. ASSUME NEW c \in Commander
        PROVE  /\ mission[c] \in [Mission -> [state : MissionState, ver : Time]]
               /\ saved[c] \in [Mission -> [state : MissionState, ver : Time]]
               /\ index[c] \in 0 .. MaxMission /\ lastAt[c] \in Time
               /\ IsInjective(events[c])
               /\ index[c] # 0 => mission[c][index[c]].state # "NONE"
    BY <2>1 DEF Typed, Missions, Indexed
  <2>4. ASSUME NEW c \in Commander, NEW d \in Commander,
               NEW e \in ToSet(events[c]), NEW o \in ToSet(events[d]), e.at = o.at
        PROVE  e = o
    <3>1. Mark(EventMark(e)) /\ Mark(EventMark(o))
      BY Marked
    <3>2. /\ EventMark(e)[1] = EventMark(o)[1] /\ EventMark(e)[3] = EventMark(o)[3]
          /\ EventMark(e)[2] = e /\ EventMark(o)[2] = o
      BY <2>4 DEF EventMark
    <3> HIDE DEF EventMark
    <3> QED BY <2>1, <3>1, <3>2 DEF Dated
  <2> QED BY <2>1, <2>2, <2>3, <2>4 DEF TypeOK, Typed
<1> QED BY <1>1, Invariant, PTL

\* For any number of leaders, threads, crashes and losses: two copies of a fire that
\* carry the same updated_at are in the same state, wherever they are.  The
\* invariant says it of every copy there is, in a store, in a log, in the hands of a
\* thread that has not put it in its place yet, and on its way; for a new copy
\* bears a time no other one bears (fire_state_store.py, transition and
\* apply_snapshot_record).
THEOREM VersionsTellTheTruth == Spec => []SameVersionSameFire
<1>1. IInv => SameVersionSameFire
  <2> SUFFICES ASSUME IInv PROVE SameVersionSameFire
    OBVIOUS
  <2>1. Typed /\ Dated
    BY DEF IInv
  <2>2. ASSUME NEW s \in Snapshots PROVE Mark(FireMark(s.fire))
    <3>1. PICK c \in Commander : inbox[c] # <<>> /\ s = inbox[c][1]
      BY DEF Snapshots
    <3>2. s \in ToSet(inbox[c])
      <4>1. inbox[c] \in Seq(Snapshot)
        BY <2>1 DEF Typed
      <4> QED BY <3>1, <4>1 DEF ToSet
    <3>3. FireMark(s.fire) \in SnapMarks(s)
      BY DEF SnapMarks
    <3> QED BY <3>2, <3>3, Marked
  <2>3. ASSUME NEW f \in { fire[c] : c \in Commander } \cup { s.fire : s \in Snapshots }
        PROVE  Mark(FireMark(f))
    BY <2>2, Marked
  <2>4. ASSUME NEW f \in { fire[c] : c \in Commander } \cup { s.fire : s \in Snapshots },
               NEW g \in { fire[c] : c \in Commander } \cup { s.fire : s \in Snapshots },
               f.ver = g.ver
        PROVE  f.state = g.state
    <3>1. Mark(FireMark(f)) /\ Mark(FireMark(g))
      BY <2>3
    <3>2. /\ FireMark(f)[1] = FireMark(g)[1] /\ FireMark(f)[3] = FireMark(g)[3]
          /\ FireMark(f)[2] = f.state /\ FireMark(g)[2] = g.state
      BY <2>4 DEF FireMark
    <3> HIDE DEF FireMark
    <3> QED BY <2>1, <3>1, <3>2 DEF Dated
  <2> QED BY <2>4, Zenon DEF SameVersionSameFire
<1> QED BY <1>1, Invariant, PTL

\* For any number of missions: a commander whose stores hold one mission, and that
\* an open one, opens no second, whichever thread comes to MissionStore.create and
\* whether the mission is its own or was merged from the other; for the index names
\* a mission as soon as there is one (mission_store.py:117-147, 264-283).
THEOREM OneMission == Spec => NoSecondMission
<1> DEFINE One(c, m) == /\ mission[c][m].state \in Open
                        /\ \A n \in Mission \ {m} : mission[c][n].state = "NONE"
           Step == \A c \in Commander, m \in Mission :
                     One(c, m) => minted' = minted \/ mission'[c] = mission[c]
<1>1. IInv /\ [Next]_vars => Step
  <2> SUFFICES ASSUME IInv, [Next]_vars, NEW c \in Commander, NEW m \in Mission, One(c, m)
               PROVE  minted' = minted \/ mission'[c] = mission[c]
    BY Zenon
  <2>1. minted' = minted \/ Opens
    BY NextInv
  <2>2. HasOpen(c)
    <3>1. Typed /\ Indexed /\ "NONE" \notin Open
      BY DEF IInv, Open
    <3>2. index[c] # 0 /\ mission[c][index[c]].state # "NONE"
      BY <3>1 DEF Indexed
    <3>3. index[c] \in Mission
      BY <3>1, <3>2, ReplicationAssumption DEF Typed, Mission
    <3>4. index[c] = m
      BY <3>2, <3>3
    <3> QED BY <3>2, <3>4 DEF HasOpen
  <2> QED BY <2>1, <2>2 DEF Opens
<1> QED BY <1>1, Invariant, PTL DEF Spec, NoSecondMission
=============================================================================
