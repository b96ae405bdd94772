------------------------ MODULE FireCommanderProofs ------------------------
(***************************************************************************)
(* Proofs about FireCommander and its rules, for every set of leaders,     *)
(* backups and fires, every list of severities and every bound.            *)
(*                                                                         *)
(* A rule takes a record of all the stores and returns one, so the first   *)
(* lemmas are about records: what a rule or a store operation makes of a   *)
(* good one.  The invariant FireInv follows, with one lemma per action, and *)
(* the theorems are at the end.                                            *)
(***************************************************************************)
EXTENDS FireCommander, SequenceTheorems, WellFoundedInduction, TLAPS

\* The states a fire goes through, and the stores a rule may be given.
FireStates == {"UNKNOWN", "IGNITED", "ACTIVE", "CONTAINED", "SUPPRESSED"}

Worlds ==
  [state : [Fire -> FireStates], severity : [Fire -> Severity], nodes : [Fire -> Seq(Node)],
   mission : [Fire -> Seq(MissionState)], current : [Fire -> Nat],
   status : [Node -> {"REGISTERED", "ACTIVE", "OFFLINE"}], job : [Node -> Fire \cup {NoFire}],
   target : BOOLEAN, ledger : [Trace -> {"NONE"} \cup LedgerStatus], unheard : SUBSET Fire,
   asked : SUBSET Fire]

\* An unknown fire has no leader and is nobody's job.
FiresOK(w) ==
  \A f \in Fire :
    /\ IsInjective(w.nodes[f])
    /\ w.state[f] = "UNKNOWN" => w.nodes[f] = <<>>

\* The index names a mission that is there and was not evicted.
MissionsOK(w) ==
  \A f \in Fire :
    /\ w.current[f] <= Len(w.mission[f])
    /\ w.current[f] # 0 => w.mission[f][w.current[f]] # "EVICTED"

\* A node at work was sent to its fire.
JobsOK(w) ==
  \A n \in Node : w.job[n] # NoFire =>
    /\ w.state[w.job[n]] # "UNKNOWN"
    /\ w.ledger[<<"RESPOND_TO_FIRE", w.job[n], n>>] # "NONE"

Good(w) == w \in Worlds /\ FiresOK(w) /\ MissionsOK(w) /\ JobsOK(w)

\* What the rules never touch, and what they only add to.
Kept(w, v) ==
  /\ v.severity = w.severity /\ v.target = w.target /\ v.mission = w.mission /\ v.current = w.current
  /\ v.status = w.status
  /\ \A f \in Fire : v.state[f] = w.state[f] \/ (w.state[f] = "CONTAINED" /\ v.state[f] = "ACTIVE")
  /\ \A t \in Trace : v.ledger[t] = w.ledger[t] \/ (w.ledger[t] = "NONE" /\ v.ledger[t] = "ISSUED")
  /\ w.asked \subseteq v.asked /\ w.unheard \subseteq v.unheard

\* Only an idle leader is given a job.
Books(w, v) == \A l \in Leader : v.job[l] = w.job[l] \/ l \in Available(w)

\* A set of numbers that is not empty has a least one: the nearest leader, the
\* least severe fire.
LEMMA MinimumExists ==
  ASSUME NEW S \in SUBSET Nat, S # {}
  PROVE  \E m \in S : \A k \in S : m <= k
<1> DEFINE R == OpToRel(<, Nat)
<1>1. IsWellFoundedOn(R, Nat)
  BY Zenon, NatLessThanWellFounded
<1>2. \A i, j \in Nat : i < j => <<i, j>> \in R
  BY DEF OpToRel
<1> HIDE DEF R
<1>3. PICK m \in S : \A k \in S : ~ (<<k, m>> \in R)
  BY <1>1, WFMin, Zenon
<1>4. \A k \in S : k \in Nat /\ m \in Nat /\ ~ (k < m)
  BY <1>2, <1>3, Zenon
<1> QED
  BY <1>3, <1>4

\* What is left of a list without repetition when one item is taken out.
LEMMA RemoveAtItems ==
  ASSUME NEW S, NEW s \in Seq(S), IsInjective(s), NEW i \in DOMAIN s
  PROVE  RemoveAt(s, i) \in Seq(S) /\ IsInjective(RemoveAt(s, i))
<1> DEFINE a == SubSeq(s, 1, i - 1)
           b == SubSeq(s, i + 1, Len(s))
<1>1. i \in 1 .. Len(s) /\ Len(s) \in Nat /\ DOMAIN s = 1 .. Len(s)
  BY LenProperties
<1>2. /\ a \in Seq(S) /\ Len(a) = i - 1
      /\ \A k \in 1 .. i - 1 : a[k] = s[k]
  BY <1>1, SubSeqProperties
<1>3. /\ b \in Seq(S) /\ Len(b) = Len(s) - i
      /\ \A k \in 1 .. Len(s) - i : b[k] = s[i + k]
  BY <1>1, SubSeqProperties
<1>4. /\ a \o b \in Seq(S) /\ Len(a \o b) = Len(s) - 1
      /\ \A k \in 1 .. Len(s) - 1 : (a \o b)[k] = IF k < i THEN s[k] ELSE s[k + 1]
  <2> HIDE DEF a, b
  <2>1. /\ a \o b \in Seq(S) /\ Len(a \o b) = Len(a) + Len(b)
        /\ \A k \in 1 .. Len(a) + Len(b) :
             (a \o b)[k] = IF k <= Len(a) THEN a[k] ELSE b[k - Len(a)]
    BY <1>2, <1>3, ConcatProperties
  <2>2. Len(a) + Len(b) = Len(s) - 1
    BY <1>1, <1>2, <1>3
  <2>3. ASSUME NEW k \in 1 .. Len(s) - 1, k < i
        PROVE  (a \o b)[k] = s[k]
    BY <2>1, <2>2, <2>3, <1>1, <1>2
  <2>4. ASSUME NEW k \in 1 .. Len(s) - 1, ~ (k < i)
        PROVE  (a \o b)[k] = s[k + 1]
    <3>1. k - (i - 1) \in 1 .. Len(s) - i /\ i + (k - (i - 1)) = k + 1
      BY <2>4, <1>1
    <3>2. (a \o b)[k] = b[k - (i - 1)]
      BY <2>1, <2>2, <2>4, <1>1, <1>2
    <3> QED
      BY <3>1, <3>2, <1>3
  <2> QED
    BY <2>1, <2>2, <2>3, <2>4
<1>5. RemoveAt(s, i) = a \o b
  BY DEF RemoveAt
<1> HIDE DEF a, b
<1>6. ASSUME NEW j \in 1 .. Len(s) - 1, NEW k \in 1 .. Len(s) - 1, (a \o b)[j] = (a \o b)[k]
      PROVE  j = k
  <2> DEFINE at(x) == IF x < i THEN x ELSE x + 1
  <2>1. at(j) \in DOMAIN s /\ at(k) \in DOMAIN s
    BY <1>1
  <2>2. s[at(j)] = s[at(k)]
    BY <1>4, <1>6
  <2>3. at(j) = at(k)
    BY <2>1, <2>2, Zenon DEF IsInjective
  <2> QED
    BY <2>3, <1>1
<1>7. DOMAIN (a \o b) = 1 .. Len(s) - 1
  BY <1>4, LenProperties
<1>8. IsInjective(a \o b)
  BY <1>6, <1>7, Zenon DEF IsInjective
<1> QED
  BY <1>4, <1>5, <1>8

\* What a rule may make of the stores.
Follows(w, v) == Good(v) /\ Kept(w, v) /\ Books(w, v)

\* A rule may leave the stores as they are.
LEMMA FollowsItself ==
  ASSUME NEW w, Good(w)
  PROVE  Follows(w, w)
  BY DEF Follows, Kept, Books

\* Two rules one after the other are still what a rule may do.
LEMMA FollowsTransitive ==
  ASSUME NEW u, NEW v, NEW w, Good(u), Follows(u, v), Follows(v, w)
  PROVE  Follows(u, w)
<1>1. u \in Worlds /\ v \in Worlds /\ w \in Worlds /\ Good(w)
  BY DEF Follows, Good
<1>2. Kept(u, w)
  BY <1>1 DEF Follows, Kept, Worlds
<1>3. Books(u, w)
  BY <1>1 DEF Follows, Kept, Worlds, Books, Available, Node
<1> QED
  BY <1>1, <1>2, <1>3 DEF Follows

\* CommandTracker.issue: a command is in the ledger afterwards.
LEMMA SendGood ==
  ASSUME NEW w, Good(w), NEW t \in Trace
  PROVE  /\ Good(Send(w, t)) /\ Kept(w, Send(w, t))
         /\ Send(w, t).job = w.job /\ Send(w, t).nodes = w.nodes /\ Send(w, t).state = w.state
         /\ Send(w, t).ledger[t] # "NONE" /\ Send(w, t).asked = w.asked
<1> DEFINE v == Send(w, t)
<1>1. v \in Worlds
  BY DEF Send, Good, Worlds, LedgerStatus
<1>2. /\ v.job = w.job /\ v.nodes = w.nodes /\ v.state = w.state /\ v.mission = w.mission
      /\ v.current = w.current /\ v.status = w.status /\ v.severity = w.severity /\ v.target = w.target
      /\ v.asked = w.asked /\ v.unheard = w.unheard
  BY DEF Send, Good, Worlds
<1>3. /\ v.ledger[t] # "NONE"
      /\ \A r \in Trace : v.ledger[r] = w.ledger[r] \/ (w.ledger[r] = "NONE" /\ v.ledger[r] = "ISSUED")
  BY DEF Send, Good, Worlds
<1> HIDE DEF v
<1>4. Kept(w, v)
  BY <1>2, <1>3 DEF Kept
<1>5. FiresOK(v) /\ MissionsOK(v)
  BY <1>2 DEF Good, FiresOK, MissionsOK
<1>6. JobsOK(v)
  BY <1>2, <1>3 DEF Good, JobsOK, Worlds, Trace
<1> QED
  BY <1>1, <1>2, <1>3, <1>4, <1>5, <1>6 DEF Good, v

\* FireStateStore.assign_node: the fire lists the leader, once.
LEMMA AssignGood ==
  ASSUME NEW w, Good(w), NEW f \in Fire, NEW n \in Node, w.state[f] # "UNKNOWN"
  PROVE  LET v == Assign(w, f, n)
         IN /\ Good(v) /\ Kept(w, v)
            /\ v.job = w.job /\ v.state = w.state /\ v.asked = w.asked /\ v.ledger = w.ledger
            /\ v.nodes[f] # <<>>
            /\ n \in ToSet(v.nodes[f])
            /\ \A g \in Fire \ {f} : v.nodes[g] = w.nodes[g]
<1> DEFINE v == Assign(w, f, n)
           s == w.nodes[f]
<1>1. s \in Seq(Node) /\ IsInjective(s)
  BY DEF Good, Worlds, FiresOK
<1>2. n \in ToSet(s) => s # <<>>
  BY <1>1 DEF ToSet
<1>3. /\ Append(s, n) \in Seq(Node) /\ Len(Append(s, n)) = Len(s) + 1
      /\ DOMAIN Append(s, n) = 1 .. Len(s) + 1 /\ DOMAIN s = 1 .. Len(s) /\ Len(s) \in Nat
      /\ \A i \in 1 .. Len(s) : Append(s, n)[i] = s[i]
      /\ Append(s, n)[Len(s) + 1] = n
  BY <1>1, AppendProperties, LenProperties
<1>4. ASSUME n \notin ToSet(s)
      PROVE  IsInjective(Append(s, n))
  <2> DEFINE a == Append(s, n)
  <2>1. \A i \in 1 .. Len(s) : a[i] = s[i] /\ a[i] # n
    BY <1>3, <1>4 DEF ToSet
  <2>2. \A i, j \in 1 .. Len(s) : s[i] = s[j] => i = j
    BY <1>1, <1>3 DEF IsInjective
  <2>3. DOMAIN a = 1 .. Len(s) + 1 /\ a[Len(s) + 1] = n /\ Len(s) \in Nat
    BY <1>3
  <2>4. \A i \in 1 .. Len(s) + 1 : i \in 1 .. Len(s) \/ i = Len(s) + 1
    BY <2>3
  <2> HIDE DEF a, s
  <2>5. \A i, j \in 1 .. Len(s) + 1 : a[i] = a[j] => i = j
    BY <2>1, <2>2, <2>3, <2>4
  <2> QED
    BY <2>3, <2>5 DEF IsInjective, a
<1>5. Append(s, n) # <<>> /\ n \in ToSet(Append(s, n))
  BY <1>1, <1>3 DEF ToSet
<1>6. /\ v.job = w.job /\ v.state = w.state /\ v.asked = w.asked /\ v.ledger = w.ledger
      /\ v.mission = w.mission /\ v.current = w.current /\ v.status = w.status
      /\ v.severity = w.severity /\ v.target = w.target /\ v.unheard = w.unheard
  BY DEF Assign, Good, Worlds
<1>7. /\ v.nodes[f] = IF n \in ToSet(s) THEN s ELSE Append(s, n)
      /\ \A g \in Fire \ {f} : v.nodes[g] = w.nodes[g]
  BY DEF Assign, Good, Worlds
<1>8. v \in Worlds
  <2> HIDE DEF s
  <2>1. CASE n \in ToSet(s)
    BY <2>1 DEF Assign, Good, s
  <2>2. CASE n \notin ToSet(s)
    <3>1. v = [w EXCEPT !.nodes = [w.nodes EXCEPT ![f] = Append(s, n)]]
      BY <2>2 DEF Assign, s
    <3>2. [w.nodes EXCEPT ![f] = Append(s, n)] \in [Fire -> Seq(Node)]
      BY <1>3 DEF Good, Worlds
    <3> HIDE DEF v
    <3> QED
      BY <3>1, <3>2 DEF Good, Worlds
  <2> QED
    BY <2>1, <2>2
<1> HIDE DEF v, s
<1>9. Kept(w, v)
  BY <1>6 DEF Kept
<1>10. MissionsOK(v) /\ JobsOK(v)
  BY <1>6 DEF Good, MissionsOK, JobsOK
<1>11. ASSUME NEW g \in Fire
       PROVE  IsInjective(v.nodes[g]) /\ (v.state[g] = "UNKNOWN" => v.nodes[g] = <<>>)
  <2>1. CASE g = f
    BY <2>1, <1>1, <1>4, <1>6, <1>7
  <2>2. CASE g # f
    BY <2>2, <1>6, <1>7 DEF Good, FiresOK
  <2> QED
    BY <2>1, <2>2
<1>12. Good(v)
  BY <1>8, <1>10, <1>11 DEF Good, FiresOK
<1>13. v.nodes[f] # <<>> /\ n \in ToSet(v.nodes[f])
  BY <1>2, <1>5, <1>7
<1> QED
  BY <1>6, <1>7, <1>9, <1>12, <1>13 DEF v

\* Booking a node that was sent to a known fire.
LEMMA BookGood ==
  ASSUME NEW w, Good(w), NEW f \in Fire, NEW n \in Node, w.state[f] # "UNKNOWN",
         w.ledger[<<"RESPOND_TO_FIRE", f, n>>] # "NONE"
  PROVE  LET v == [w EXCEPT !.job[n] = f]
         IN /\ Good(v) /\ Kept(w, v)
            /\ v.nodes = w.nodes /\ v.state = w.state /\ v.asked = w.asked /\ v.ledger = w.ledger
<1> DEFINE v == [w EXCEPT !.job[n] = f]
<1>1. v \in Worlds
  BY DEF Good, Worlds
<1>2. /\ v.nodes = w.nodes /\ v.state = w.state /\ v.asked = w.asked /\ v.ledger = w.ledger
      /\ v.mission = w.mission /\ v.current = w.current /\ v.status = w.status
      /\ v.severity = w.severity /\ v.target = w.target /\ v.unheard = w.unheard
  BY DEF Good, Worlds
<1>3. \A m \in Node : v.job[m] = IF m = n THEN f ELSE w.job[m]
  BY DEF Good, Worlds
<1> HIDE DEF v
<1>4. Kept(w, v)
  BY <1>2 DEF Kept
<1>5. FiresOK(v) /\ MissionsOK(v)
  BY <1>2 DEF Good, FiresOK, MissionsOK
<1>6. JobsOK(v)
  BY <1>2, <1>3 DEF Good, JobsOK
<1> QED
  BY <1>1, <1>2, <1>4, <1>5, <1>6 DEF Good, v

\* RESPOND_TO_FIRE: sent, listed and booked.
LEMMA RespondGood ==
  ASSUME NEW w, Good(w), NEW f \in Fire, NEW n \in Node, w.state[f] # "UNKNOWN"
  PROVE  LET v == Respond(w, f, n)
         IN /\ Good(v) /\ Kept(w, v)
            /\ v.job = [w.job EXCEPT ![n] = f] /\ v.state = w.state /\ v.asked = w.asked
            /\ v.nodes[f] # <<>>
            /\ n \in ToSet(v.nodes[f])
            /\ \A g \in Fire \ {f} : v.nodes[g] = w.nodes[g]
<1> DEFINE t == <<"RESPOND_TO_FIRE", f, n>>
           sent == Send(w, t)
           booked == [sent EXCEPT !.job[n] = f]
           v == Assign(booked, f, n)
<1>1. t \in Trace
  BY DEF Trace
<1>2. Respond(w, f, n) = v
  BY DEF Respond
<1> HIDE DEF t
<1>3. /\ Good(sent) /\ Kept(w, sent) /\ sent.job = w.job /\ sent.nodes = w.nodes
      /\ sent.state = w.state /\ sent.ledger[t] # "NONE" /\ sent.asked = w.asked
  BY <1>1, SendGood
<1> HIDE DEF sent
<1>4. /\ Good(booked) /\ Kept(sent, booked) /\ booked.nodes = w.nodes
      /\ booked.state = w.state /\ booked.asked = w.asked
  BY <1>3, BookGood DEF t
<1>5. booked.job = [w.job EXCEPT ![n] = f]
  BY <1>3 DEF Good, Worlds
<1> HIDE DEF booked
<1>6. /\ Good(v) /\ Kept(booked, v)
      /\ v.job = booked.job /\ v.state = w.state /\ v.asked = w.asked
      /\ v.nodes[f] # <<>>
      /\ n \in ToSet(v.nodes[f])
      /\ \A g \in Fire \ {f} : v.nodes[g] = w.nodes[g]
  BY <1>4, AssignGood
<1> HIDE DEF v
<1>7. Kept(w, v)
  BY <1>3, <1>4, <1>6 DEF Kept, Good, Worlds
<1> QED
  BY <1>2, <1>5, <1>6, <1>7

\* FireStateStore.transition: a fire moves along FIRE_TRANSITIONS or not at all.
LEMMA TurnGood ==
  ASSUME NEW w, Good(w), NEW f \in Fire, NEW to \in FireStates, to # "UNKNOWN"
  PROVE  LET v == Turn(w, f, to)
         IN /\ Good(v)
            /\ v = [w EXCEPT !.state = v.state]
            /\ v.state \in [Fire -> FireStates]
            /\ \A g \in Fire : v.state[g] =
                 IF g = f /\ <<w.state[f], to>> \in FIRE_TRANSITIONS THEN to ELSE w.state[g]
<1> DEFINE v == Turn(w, f, to)
<1>1. v \in Worlds /\ v = [w EXCEPT !.state = v.state]
  <2>1. CASE <<w.state[f], to>> \in FIRE_TRANSITIONS
    <3>1. v = [w EXCEPT !.state = [w.state EXCEPT ![f] = to]]
      BY <2>1 DEF Turn
    <3>2. [w.state EXCEPT ![f] = to] \in [Fire -> FireStates]
      BY DEF Good, Worlds
    <3> HIDE DEF v
    <3> QED
      BY <3>1, <3>2 DEF Good, Worlds
  <2>2. CASE <<w.state[f], to>> \notin FIRE_TRANSITIONS
    BY <2>2 DEF Turn, Good, Worlds
  <2> QED
    BY <2>1, <2>2
<1>2. \A g \in Fire : v.state[g] =
        IF g = f /\ <<w.state[f], to>> \in FIRE_TRANSITIONS THEN to ELSE w.state[g]
  BY DEF Turn, Good, Worlds
<1> HIDE DEF v
<1>3. /\ v.job = w.job /\ v.nodes = w.nodes /\ v.ledger = w.ledger /\ v.mission = w.mission
      /\ v.current = w.current /\ v.state \in [Fire -> FireStates]
  BY <1>1 DEF Good, Worlds
<1>4. \A g \in Fire : v.state[g] = "UNKNOWN" <=> w.state[g] = "UNKNOWN"
  BY <1>2 DEF FIRE_TRANSITIONS
<1>5. FiresOK(v) /\ MissionsOK(v)
  BY <1>3, <1>4 DEF Good, FiresOK, MissionsOK
<1>6. JobsOK(v)
  BY <1>3, <1>4 DEF Good, JobsOK, Worlds
<1> QED
  BY <1>1, <1>2, <1>3, <1>5, <1>6 DEF Good, v

\* FireStateStore.clear_assigned_nodes.
LEMMA ClearGood ==
  ASSUME NEW w, Good(w), NEW f \in Fire
  PROVE  LET v == Clear(w, f)
         IN /\ Good(v)
            /\ v = [w EXCEPT !.nodes = v.nodes]
            /\ v.nodes[f] = <<>>
            /\ \A g \in Fire \ {f} : v.nodes[g] = w.nodes[g]
<1> DEFINE v == Clear(w, f)
<1>1. v = [w EXCEPT !.nodes = [w.nodes EXCEPT ![f] = <<>>]]
  BY DEF Clear
<1>2. [w.nodes EXCEPT ![f] = <<>>] \in [Fire -> Seq(Node)]
  BY EmptySeq DEF Good, Worlds
<1> HIDE DEF v
<1>3. v \in Worlds /\ v = [w EXCEPT !.nodes = v.nodes]
  BY <1>1, <1>2 DEF Good, Worlds
<1>4. \A g \in Fire : v.nodes[g] = IF g = f THEN <<>> ELSE w.nodes[g]
  BY <1>1, <1>2 DEF Good, Worlds
<1>5. /\ v.job = w.job /\ v.state = w.state /\ v.ledger = w.ledger /\ v.mission = w.mission
      /\ v.current = w.current
  BY <1>3 DEF Good, Worlds
<1>6. IsInjective(<<>>)
  BY DEF IsInjective
<1>7. FiresOK(v) /\ MissionsOK(v) /\ JobsOK(v)
  BY <1>4, <1>5, <1>6 DEF Good, FiresOK, MissionsOK, JobsOK
<1> QED
  BY <1>3, <1>4, <1>7 DEF Good, v

\* NodeRegistry.release_job.
LEMMA ReleaseGood ==
  ASSUME NEW w, Good(w), NEW n \in Node
  PROVE  LET v == Release(w, n)
         IN /\ Good(v)
            /\ v = [w EXCEPT !.job = v.job]
            /\ v.job[n] = NoFire
            /\ \A m \in Node \ {n} : v.job[m] = w.job[m]
<1> DEFINE v == Release(w, n)
<1>1. v \in Worlds /\ v = [w EXCEPT !.job = v.job]
  BY DEF Release, Good, Worlds
<1>2. \A m \in Node : v.job[m] = IF m = n THEN NoFire ELSE w.job[m]
  BY DEF Release, Good, Worlds
<1> HIDE DEF v
<1>3. /\ v.nodes = w.nodes /\ v.state = w.state /\ v.ledger = w.ledger /\ v.mission = w.mission
      /\ v.current = w.current
  BY <1>1 DEF Good, Worlds
<1>4. FiresOK(v) /\ MissionsOK(v) /\ JobsOK(v)
  BY <1>2, <1>3 DEF Good, FiresOK, MissionsOK, JobsOK
<1> QED
  BY <1>1, <1>2, <1>4 DEF Good, v

\* An escalation asks the operator and changes nothing else.
LEMMA EscalateFollows ==
  ASSUME NEW w, Good(w), NEW f \in Fire
  PROVE  LET v == Escalate(w, f)
         IN Follows(w, v) /\ v = [w EXCEPT !.asked = v.asked] /\ f \in v.asked
<1> DEFINE v == Escalate(w, f)
<1>1. v \in Worlds /\ v = [w EXCEPT !.asked = v.asked] /\ v.asked = w.asked \cup {f}
  <2>1. w \in Worlds /\ w.asked \cup {f} \in SUBSET Fire
    BY DEF Good, Worlds
  <2>2. v.asked = w.asked \cup {f} /\ v = [w EXCEPT !.asked = v.asked]
    BY <2>1 DEF Escalate, Worlds
  <2>3. v \in Worlds
    BY <2>1 DEF Escalate, Worlds
  <2> QED
    BY <2>2, <2>3
<1> HIDE DEF v
<1>2. /\ v.nodes = w.nodes /\ v.state = w.state /\ v.ledger = w.ledger /\ v.mission = w.mission
      /\ v.current = w.current /\ v.job = w.job /\ v.status = w.status
      /\ v.severity = w.severity /\ v.target = w.target /\ v.unheard = w.unheard
  BY <1>1 DEF Good, Worlds
<1>3. FiresOK(v) /\ MissionsOK(v) /\ JobsOK(v)
  BY <1>2 DEF Good, FiresOK, MissionsOK, JobsOK
<1>4. Kept(w, v) /\ Books(w, v)
  BY <1>1, <1>2 DEF Kept, Books
<1> QED
  BY <1>1, <1>3, <1>4 DEF Good, Follows, v

\* FireDispatchRule: a fire without a leader gets the nearest free one.
LEMMA FireDispatchFollows ==
  ASSUME NEW w, Good(w), NEW f \in Fire
  PROVE  LET v == FireDispatch(w, f)
         IN /\ Follows(w, v) /\ v.state = w.state
            /\ Unassigned(w, f) /\ Available(w) # {} =>
                 /\ v.nodes[f] # <<>>
                 /\ \E n \in ToSet(v.nodes[f]) : v.status[n] = "ACTIVE"
            /\ ~ (Unassigned(w, f) /\ Available(w) # {}) => v = w
<1>1. CASE ~ (Unassigned(w, f) /\ Available(w) # {})
  <2>1. FireDispatch(w, f) = w
    BY <1>1 DEF FireDispatch
  <2> QED
    BY <1>1, <2>1, FollowsItself
<1>2. CASE Unassigned(w, f) /\ Available(w) # {}
  <2> DEFINE Nearest(l) == \A m \in Available(w) : Distance[f][l] <= Distance[f][m]
             l == CHOOSE x \in Available(w) : Nearest(x)
             v == Respond(w, f, l)
  <2>1. Available(w) \subseteq Leader /\ Leader \subseteq Node
    BY DEF Available, Node
  <2>2. { Distance[f][x] : x \in Available(w) } \in SUBSET Nat
    BY <2>1, RuleAssumption
  <2>3. PICK d \in { Distance[f][x] : x \in Available(w) } :
               \A k \in { Distance[f][x] : x \in Available(w) } : d <= k
    <3> DEFINE S == { Distance[f][x] : x \in Available(w) }
    <3>1. S \in SUBSET Nat /\ S # {}
      BY <1>2, <2>2
    <3> HIDE DEF S
    <3>2. \E m \in S : \A k \in S : m <= k
      BY <3>1, MinimumExists
    <3> QED
      BY <3>2 DEF S
  <2>4. \E x \in Available(w) : Nearest(x)
    BY <2>3
  <2>5. l \in Available(w)
    <3> HIDE DEF Nearest
    <3> QED BY <2>4
  <2>6. FireDispatch(w, f) = v
    BY <1>2 DEF FireDispatch
  <2> HIDE DEF l
  <2>7. w.state[f] = "ACTIVE" /\ l \in Node /\ w.status[l] = "ACTIVE"
    BY <1>2, <2>1, <2>5 DEF Unassigned, Available
  <2>8. /\ Good(v) /\ Kept(w, v) /\ v.job = [w.job EXCEPT ![l] = f] /\ v.state = w.state
        /\ v.nodes[f] # <<>> /\ l \in ToSet(v.nodes[f])
    BY <2>7, RespondGood
  <2> HIDE DEF v
  <2>9. Books(w, v)
    BY <2>5, <2>8 DEF Books, Good, Worlds, Node
  <2>10. v.status[l] = "ACTIVE"
    BY <2>7, <2>8 DEF Kept
  <2> QED
    BY <1>2, <2>6, <2>8, <2>9, <2>10 DEF Follows
<1> QED
  BY <1>1, <1>2

\* Rules that change neither a fire nor a node.
Notes(w, v) ==
  Follows(w, v) /\ v.state = w.state /\ v.nodes = w.nodes /\ v.job = w.job /\ v.status = w.status

\* Two such rules one after the other are such a rule.
LEMMA NotesTransitive ==
  ASSUME NEW u, NEW v, NEW w, Good(u), Notes(u, v), Notes(v, w)
  PROVE  Notes(u, w)
  BY FollowsTransitive DEF Notes

\* A command changes neither.
LEMMA SendNotes ==
  ASSUME NEW w, Good(w), NEW t \in Trace
  PROVE  Notes(w, Send(w, t))
  BY SendGood DEF Notes, Follows, Kept, Books

\* An escalation changes neither.
LEMMA EscalateNotes ==
  ASSUME NEW w, Good(w), NEW f \in Fire
  PROVE  Notes(w, Escalate(w, f)) /\ f \in Escalate(w, f).asked
<1> DEFINE v == Escalate(w, f)
<1>1. Follows(w, v) /\ v = [w EXCEPT !.asked = v.asked] /\ f \in v.asked
  BY EscalateFollows
<1> HIDE DEF v
<1>2. v.state = w.state /\ v.nodes = w.nodes /\ v.job = w.job /\ v.status = w.status
  BY <1>1 DEF Good, Worlds
<1> QED
  BY <1>1, <1>2 DEF Notes, v

\* A rule that does nothing.
LEMMA NothingNoted ==
  ASSUME NEW w, Good(w)
  PROVE  Notes(w, w)
  BY FollowsItself DEF Notes

\* HighSeverityRule only asks the operator.
LEMMA HighSeverityNotes ==
  ASSUME NEW w, Good(w), NEW f \in Fire
  PROVE  Notes(w, HighSeverity(w, f))
  BY EscalateNotes, NothingNoted DEF HighSeverity, EscalateToCommanders

\* NoRespondersRule only asks the operator, when nobody is free.
LEMMA NoRespondersNotes ==
  ASSUME NEW w, Good(w), NEW f \in Fire
  PROVE  /\ Notes(w, NoResponders(w, f))
         /\ Unassigned(w, f) /\ Available(w) = {} /\ w.target => f \in NoResponders(w, f).asked
  BY EscalateNotes, NothingNoted DEF NoResponders, EscalateToCommanders

\* A tactical order to the leaders of a fire.
LEMMA OrderNotes ==
  ASSUME NEW w, Good(w), NEW f \in Fire, NEW type \in {"CONTAIN_FIRE", "STAND_DOWN"}
  PROVE  Notes(w, Order(w, type, f))
<1>1. CASE w.nodes[f] = <<>>
  BY <1>1, NothingNoted DEF Order
<1>2. CASE w.nodes[f] # <<>>
  <2>1. Head(w.nodes[f]) \in Node
    BY <1>2, HeadTailProperties DEF Good, Worlds
  <2>2. <<type, f, Head(w.nodes[f])>> \in Trace
    BY <2>1 DEF Trace
  <2> QED
    BY <1>2, <2>2, SendNotes DEF Order
<1> QED
  BY <1>1, <1>2

\* The orders to the leader of a contained and of a suppressed fire.
LEMMA OrdersNote ==
  ASSUME NEW w, Good(w), NEW f \in Fire
  PROVE  Notes(w, FireContained(w, f)) /\ Notes(w, FireSuppressed(w, f))
  BY OrderNotes, NothingNoted DEF FireContained, FireSuppressed

\* ContainmentFailureRule: a contained fire that lost a leader burns again, and
\* has none.
LEMMA ContainmentFailureFollows ==
  ASSUME NEW w, Good(w), NEW f \in Fire
  PROVE  LET v == ContainmentFailure(w, f)
         IN /\ Follows(w, v) /\ v.job = w.job
            /\ w.state[f] # "CONTAINED" => v = w
            /\ w.state[f] = "CONTAINED" /\ w.nodes[f] = <<>> => Unassigned(v, f)
<1> DEFINE turned == Turn(w, f, "ACTIVE")
           v == Clear(turned, f)
<1>1. CASE w.state[f] = "CONTAINED" /\ (w.nodes[f] = <<>> \/ Lost(w, f) # {})
  <2>1. ContainmentFailure(w, f) = v
    BY <1>1 DEF ContainmentFailure
  <2>2. <<w.state[f], "ACTIVE">> \in FIRE_TRANSITIONS /\ "ACTIVE" \in FireStates
    BY <1>1 DEF FIRE_TRANSITIONS, FireStates
  <2>3. /\ Good(turned) /\ turned = [w EXCEPT !.state = turned.state]
        /\ \A g \in Fire : turned.state[g] = IF g = f THEN "ACTIVE" ELSE w.state[g]
    BY <2>2, TurnGood
  <2> HIDE DEF turned
  <2>4. /\ Good(v) /\ v = [turned EXCEPT !.nodes = v.nodes] /\ v.nodes[f] = <<>>
    BY <2>3, ClearGood
  <2> HIDE DEF v
  <2> DEFINE Rest(u) == <<u.job, u.ledger, u.mission, u.current, u.status, u.severity, u.target, u.unheard, u.asked>>
  <2>5. Rest(turned) = Rest(w)
    BY <2>3 DEF Good, Worlds
  <2>6. Rest(v) = Rest(turned) /\ v.state = turned.state
    BY <2>3, <2>4 DEF Good, Worlds
  <2>7. /\ v.job = w.job /\ v.ledger = w.ledger /\ v.mission = w.mission
        /\ v.current = w.current /\ v.status = w.status
        /\ v.severity = w.severity /\ v.target = w.target /\ v.unheard = w.unheard /\ v.asked = w.asked
        /\ v.state = turned.state
    BY <2>5, <2>6
  <2>8. Kept(w, v) /\ Books(w, v)
    BY <1>1, <2>3, <2>7 DEF Kept, Books
  <2>9. Unassigned(v, f)
    BY <2>3, <2>4, <2>7 DEF Unassigned
  <2> QED
    BY <1>1, <2>1, <2>4, <2>7, <2>8, <2>9 DEF Follows
<1>2. CASE ~ (w.state[f] = "CONTAINED" /\ (w.nodes[f] = <<>> \/ Lost(w, f) # {}))
  BY <1>2, FollowsItself DEF ContainmentFailure
<1> QED
  BY <1>1, <1>2

\* LeaderLostRule: a fire whose leaders are all gone may get a backup, and no
\* leader is booked.
LEMMA LeaderLostFollows ==
  ASSUME NEW w, Good(w), NEW f \in Fire
  PROVE  LET v == LeaderLost(w, f)
         IN /\ Follows(w, v) /\ v.state = w.state
            /\ \A l \in Leader : v.job[l] = w.job[l]
            /\ w.nodes[f] = <<>> => v = w
            /\ w.nodes[f] # <<>> => v.nodes[f] # <<>>
            /\ (\E n \in ToSet(w.nodes[f]) : w.status[n] = "ACTIVE") => v = w
<1> DEFINE backups == { b \in Backup : w.status[b] = "ACTIVE" /\ Zone[b] = Zone[Head(w.nodes[f])] }
<1>1. CASE w.nodes[f] = <<>> \/ Lost(w, f) # DOMAIN w.nodes[f]
  <2>1. LeaderLost(w, f) = w
    BY <1>1 DEF LeaderLost
  <2> QED
    BY <2>1, FollowsItself
<1>2. CASE w.nodes[f] # <<>> /\ Lost(w, f) = DOMAIN w.nodes[f] /\ backups # {}
  <2> DEFINE b == CHOOSE x \in backups : TRUE
             v == Respond(w, f, b)
  <2>1. LeaderLost(w, f) = v
    BY <1>2 DEF LeaderLost
  <2>2. b \in Backup /\ b \in Node
    BY <1>2 DEF Node
  <2> HIDE DEF b
  <2>3. w.state[f] # "UNKNOWN"
    BY <1>2 DEF Good, FiresOK
  <2>4. /\ Good(v) /\ Kept(w, v) /\ v.job = [w.job EXCEPT ![b] = f] /\ v.state = w.state
        /\ v.nodes[f] # <<>>
    BY <2>2, <2>3, RespondGood
  <2> HIDE DEF v
  <2>5. \A l \in Leader : v.job[l] = w.job[l]
    BY <2>2, <2>4, RuleAssumption DEF Good, Worlds, Node
  <2>6. ~ \E n \in ToSet(w.nodes[f]) : w.status[n] = "ACTIVE"
    BY <1>2 DEF Lost, ToSet
  <2> QED
    BY <1>2, <2>1, <2>4, <2>5, <2>6 DEF Follows, Books
<1>3. CASE w.nodes[f] # <<>> /\ Lost(w, f) = DOMAIN w.nodes[f] /\ backups = {}
  <2> DEFINE v == [w EXCEPT !.unheard = w.unheard \cup {f}]
  <2>1. LeaderLost(w, f) = v
    BY <1>3 DEF LeaderLost
  <2>2. v \in Worlds
    BY DEF Good, Worlds
  <2>3. /\ v.job = w.job /\ v.ledger = w.ledger /\ v.mission = w.mission
        /\ v.current = w.current /\ v.status = w.status /\ v.nodes = w.nodes
        /\ v.severity = w.severity /\ v.target = w.target /\ v.unheard = w.unheard \cup {f} /\ v.asked = w.asked
        /\ v.state = w.state
    BY DEF Good, Worlds
  <2> HIDE DEF v
  <2>4. Kept(w, v) /\ Books(w, v)
    BY <2>3 DEF Kept, Books
  <2>5. FiresOK(v) /\ MissionsOK(v) /\ JobsOK(v)
    BY <2>3 DEF Good, FiresOK, MissionsOK, JobsOK
  <2>6. ~ \E n \in ToSet(w.nodes[f]) : w.status[n] = "ACTIVE"
    BY <1>3 DEF Lost, ToSet
  <2> QED
    BY <1>3, <2>1, <2>2, <2>3, <2>4, <2>5, <2>6 DEF Follows, Good
<1> QED
  BY <1>1, <1>2, <1>3

\* What a burning fire without a leader is owed: one that is active, or, when
\* nobody is free, the operator's attention if there is a commander to ask.
Helped(w, f) ==
  \/ \E n \in ToSet(w.nodes[f]) : w.status[n] = "ACTIVE"
  \/ Available(w) = {} /\ (w.target => f \in w.asked)

\* The chain of rules on a fire: what a rule may do, and a fire that
\* burns without a leader is helped.
LEMMA EvaluateFollows ==
  ASSUME NEW w, Good(w), NEW f \in Fire
  PROVE  LET v == Evaluate(w, f)
         IN /\ Follows(w, v)
            /\ Unassigned(w, f) => Helped(v, f)
            /\ w.state[f] # "ACTIVE" => \A l \in Leader : v.job[l] = w.job[l]
            /\ w.state[f] = "ACTIVE" /\ (Available(w) # {} \/ w.nodes[f] # <<>>) =>
                 v.nodes[f] # <<>>
            /\ w.state[f] = "CONTAINED" /\ w.nodes[f] = <<>> => Unassigned(v, f)
<1> DEFINE d == FireDispatch(w, f)
           h == HighSeverity(d, f)
           r == NoResponders(h, f)
           k == FireContained(r, f)
           x == FireSuppressed(k, f)
           c == ContainmentFailure(x, f)
           v == LeaderLost(c, f)
<1>1. Evaluate(w, f) = v
  BY DEF Evaluate
<1>2. /\ Follows(w, d) /\ Good(d) /\ d.state = w.state
      /\ Unassigned(w, f) /\ Available(w) # {} =>
           d.nodes[f] # <<>> /\ \E n \in ToSet(d.nodes[f]) : d.status[n] = "ACTIVE"
      /\ ~ (Unassigned(w, f) /\ Available(w) # {}) => d = w
  BY FireDispatchFollows DEF Follows
<1> HIDE DEF d
<1>3. Notes(d, h) /\ Good(h)
  BY <1>2, HighSeverityNotes DEF Notes, Follows
<1> HIDE DEF h
<1>4. Notes(h, r) /\ Good(r) /\ (Unassigned(h, f) /\ Available(h) = {} /\ h.target => f \in r.asked)
  BY <1>3, NoRespondersNotes DEF Notes, Follows
<1> HIDE DEF r
<1>5. Notes(r, k) /\ Good(k)
  BY <1>4, OrdersNote DEF Notes, Follows
<1> HIDE DEF k
<1>6. Notes(k, x) /\ Good(x)
  BY <1>5, OrdersNote DEF Notes, Follows
<1> HIDE DEF x
<1>7. Notes(d, x) /\ Notes(r, x)
  BY <1>2, <1>3, <1>4, <1>5, <1>6, NotesTransitive
<1>8. /\ Follows(x, c) /\ Good(c) /\ c.job = x.job
      /\ x.state[f] # "CONTAINED" => c = x
      /\ x.state[f] = "CONTAINED" /\ x.nodes[f] = <<>> => Unassigned(c, f)
  BY <1>6, ContainmentFailureFollows DEF Follows
<1> HIDE DEF c
<1>9. /\ Follows(c, v) /\ v.state = c.state
      /\ \A l \in Leader : v.job[l] = c.job[l]
      /\ c.nodes[f] = <<>> => v = c
      /\ c.nodes[f] # <<>> => v.nodes[f] # <<>>
      /\ (\E n \in ToSet(c.nodes[f]) : c.status[n] = "ACTIVE") => v = c
  BY <1>8, LeaderLostFollows
<1> HIDE DEF v
<1>10. Follows(w, v)
  <2>1. Follows(w, x)
    BY <1>2, <1>7, FollowsTransitive DEF Notes
  <2> QED
    BY <2>1, <1>8, <1>9, FollowsTransitive
<1>11. x.state = w.state /\ x.nodes = d.nodes /\ x.job = d.job /\ x.status = d.status
  BY <1>2, <1>7 DEF Notes
<1>12. ASSUME Unassigned(w, f)
       PROVE  Helped(v, f)
  <2>1. c = x
    BY <1>8, <1>11, <1>12 DEF Unassigned
  <2>2. CASE Available(w) # {}
    BY <2>1, <2>2, <1>2, <1>9, <1>11, <1>12 DEF Helped
  <2>3. CASE Available(w) = {}
    <3>1. d = w
      BY <2>3, <1>2
    <3>2. Unassigned(h, f) /\ Available(h) = {}
      BY <3>1, <2>3, <1>3, <1>12 DEF Notes, Unassigned, Available
    <3>3. x.target => f \in x.asked
      <4>1. r.asked \subseteq x.asked /\ x.target = r.target
        BY <1>7 DEF Notes, Follows, Kept
      <4>2. r.target = h.target
        BY <1>4 DEF Notes, Follows, Kept
      <4> QED
        BY <3>2, <4>1, <4>2, <1>4
    <3>4. v = x /\ x.nodes[f] = <<>> /\ Available(x) = {}
      BY <2>1, <2>3, <3>1, <1>9, <1>11, <1>12 DEF Unassigned, Available
    <3> QED
      BY <3>3, <3>4 DEF Helped
  <2> QED
    BY <2>2, <2>3
<1>13. w.state[f] # "ACTIVE" => \A l \in Leader : v.job[l] = w.job[l]
  BY <1>2, <1>8, <1>9, <1>11 DEF Unassigned
<1>14. ASSUME w.state[f] = "ACTIVE", Available(w) # {} \/ w.nodes[f] # <<>>
       PROVE  v.nodes[f] # <<>>
  <2>1. d.nodes[f] # <<>>
    BY <1>2, <1>14 DEF Unassigned
  <2> QED
    BY <2>1, <1>8, <1>9, <1>11, <1>14
<1>15. ASSUME w.state[f] = "CONTAINED", w.nodes[f] = <<>>
       PROVE  Unassigned(v, f)
  <2>1. d = w
    BY <1>2, <1>15 DEF Unassigned
  <2>2. Unassigned(c, f)
    BY <2>1, <1>8, <1>11, <1>15
  <2> QED
    BY <2>2, <1>9 DEF Unassigned
<1> QED
  BY <1>1, <1>10, <1>12, <1>13, <1>14, <1>15

-----------------------------------------------------------------------------
\* The states of a fire that burns, and its missions.
Burning == {"ACTIVE", "CONTAINED"}
HasUnfinished(w, f) == \E i \in DOMAIN w.mission[f] : w.mission[f][i] \in Unfinished
IsRunning(w, f) == \E i \in DOMAIN w.mission[f] : w.mission[f][i] = "RUNNING"

\* What most handlers make of the stores: no fire starts to burn or loses its
\* unfinished mission while it burns, no mission starts to run, and no command
\* or answer is forgotten.
Advances(w, v) ==
  /\ Good(v)
  /\ \A f \in Fire :
       /\ v.state[f] \in Burning =>
            w.state[f] \in Burning /\ (HasUnfinished(w, f) => HasUnfinished(v, f))
       /\ v.state[f] = "IGNITED" => w.state[f] = "IGNITED"
       /\ w.state[f] = "UNKNOWN" => v.state[f] = "UNKNOWN"
       /\ IsRunning(v, f) => IsRunning(w, f)
  /\ \A t \in Trace :
       /\ w.ledger[t] # "NONE" => v.ledger[t] # "NONE"
       /\ w.ledger[t] \in LedgerStatus \ {"ISSUED"} => v.ledger[t] \in LedgerStatus \ {"ISSUED"}

\* Two steps of a handler one after the other.
LEMMA AdvancesTransitive ==
  ASSUME NEW u, NEW v, NEW w, Advances(u, v), Advances(v, w)
  PROVE  Advances(u, w)
<1>1. /\ Good(w)
      /\ \A t \in Trace :
           /\ u.ledger[t] # "NONE" => w.ledger[t] # "NONE"
           /\ u.ledger[t] \in LedgerStatus \ {"ISSUED"} => w.ledger[t] \in LedgerStatus \ {"ISSUED"}
  BY Zenon DEF Advances
<1>2. \A f \in Fire :
        /\ w.state[f] \in Burning =>
             u.state[f] \in Burning /\ (HasUnfinished(u, f) => HasUnfinished(w, f))
        /\ w.state[f] = "IGNITED" => u.state[f] = "IGNITED"
        /\ u.state[f] = "UNKNOWN" => w.state[f] = "UNKNOWN"
        /\ IsRunning(w, f) => IsRunning(u, f)
  BY Zenon DEF Advances
<1> QED
  BY <1>1, <1>2 DEF Advances

\* What a rule does is what a handler may do, if it starts no fire.
LEMMA KeptAdvances ==
  ASSUME NEW w, NEW v, Good(w), Good(v), Kept(w, v)
  PROVE  Advances(w, v)
  BY DEF Kept, Advances, HasUnfinished, IsRunning, Burning, LedgerStatus

\* MissionStore.transition moves the current mission of one fire and loses none.
LEMMA MoveMissionGood ==
  ASSUME NEW w, Good(w), NEW f \in Fire, NEW to \in {"ASSIGNED", "RUNNING", "PAUSED", "COMPLETED"}
  PROVE  LET v == MoveMission(w, f, to)
         IN /\ Good(v) /\ v = [w EXCEPT !.mission = v.mission]
            /\ \A g \in Fire \ {f} : v.mission[g] = w.mission[g]
            /\ to # "COMPLETED" => (HasUnfinished(w, f) => HasUnfinished(v, f))
            /\ to # "RUNNING" => (IsRunning(v, f) => IsRunning(w, f))
<1> DEFINE v == MoveMission(w, f, to)
           i == w.current[f]
           m == [w.mission[f] EXCEPT ![i] = to]
<1>1. CASE HasMission(w, f) /\ <<w.mission[f][i], to>> \in MISSION_TRANSITIONS
  <2>1. /\ w.mission[f] \in Seq(MissionState) /\ i \in Nat /\ i # 0 /\ i <= Len(w.mission[f])
    BY <1>1 DEF Good, Worlds, MissionsOK, HasMission
  <2>2. i \in 1 .. Len(w.mission[f]) /\ DOMAIN w.mission[f] = 1 .. Len(w.mission[f])
    BY <2>1, LenProperties
  <2>3. /\ m \in Seq(MissionState) /\ Len(m) = Len(w.mission[f])
        /\ DOMAIN m = DOMAIN w.mission[f] /\ m[i] = to
        /\ \A j \in DOMAIN m : j # i => m[j] = w.mission[f][j]
    <3>1. to \in MissionState
      BY DEF MissionState
    <3> QED
      BY <2>1, <2>2, <3>1, ExceptSeq
  <2>4. v = [w EXCEPT !.mission = [w.mission EXCEPT ![f] = m]]
    BY <1>1 DEF MoveMission
  <2> HIDE DEF m
  <2>5. [w.mission EXCEPT ![f] = m] \in [Fire -> Seq(MissionState)]
    BY <2>3 DEF Good, Worlds
  <2> HIDE DEF v
  <2>6. /\ v \in Worlds /\ v = [w EXCEPT !.mission = v.mission]
        /\ v.mission[f] = m /\ \A g \in Fire \ {f} : v.mission[g] = w.mission[g]
    BY <2>4, <2>5 DEF Good, Worlds
  <2>7. v.state = w.state /\ v.nodes = w.nodes /\ v.job = w.job /\ v.ledger = w.ledger
        /\ v.current = w.current
    BY <2>4 DEF Good, Worlds
  <2>8. FiresOK(v) /\ JobsOK(v)
    BY <2>7 DEF Good, FiresOK, JobsOK
  <2>9. MissionsOK(v)
    BY <2>3, <2>6, <2>7 DEF Good, MissionsOK
  <2>10. to # "COMPLETED" => HasUnfinished(v, f)
    BY <2>2, <2>3, <2>6 DEF HasUnfinished, Unfinished
  <2>11. to # "RUNNING" => (IsRunning(v, f) => IsRunning(w, f))
    BY <2>3, <2>6 DEF IsRunning
  <2> QED
    BY <2>6, <2>8, <2>9, <2>10, <2>11 DEF Good, v
<1>2. CASE ~ (HasMission(w, f) /\ <<w.mission[f][i], to>> \in MISSION_TRANSITIONS)
  <2>1. v = w
    BY <1>2 DEF MoveMission
  <2>2. w = [w EXCEPT !.mission = w.mission]
    BY DEF Good, Worlds
  <2> QED
    BY <2>1, <2>2
<1> QED
  BY <1>1, <1>2

\* The same for a mission that does not start to run, and ends only with its fire.
LEMMA MoveMissionAdvances ==
  ASSUME NEW w, Good(w), NEW f \in Fire, NEW to \in {"ASSIGNED", "PAUSED", "COMPLETED"},
         to = "COMPLETED" => w.state[f] \notin Burning
  PROVE  Advances(w, MoveMission(w, f, to))
<1> DEFINE v == MoveMission(w, f, to)
<1>1. /\ Good(v) /\ v = [w EXCEPT !.mission = v.mission]
      /\ \A g \in Fire \ {f} : v.mission[g] = w.mission[g]
      /\ to # "COMPLETED" => (HasUnfinished(w, f) => HasUnfinished(v, f))
      /\ IsRunning(v, f) => IsRunning(w, f)
  <2>1. to \in {"ASSIGNED", "RUNNING", "PAUSED", "COMPLETED"} /\ to # "RUNNING"
    OBVIOUS
  <2>2. LET u == MoveMission(w, f, to)
        IN /\ Good(u) /\ u = [w EXCEPT !.mission = u.mission]
           /\ \A g \in Fire \ {f} : u.mission[g] = w.mission[g]
           /\ to # "COMPLETED" => (HasUnfinished(w, f) => HasUnfinished(u, f))
           /\ to # "RUNNING" => (IsRunning(u, f) => IsRunning(w, f))
    <3> HIDE DEF v
    <3> QED BY Zenon, <2>1, MoveMissionGood
  <2> QED
    BY Zenon, <2>1, <2>2
<1> HIDE DEF v
<1>2. v.state = w.state /\ v.ledger = w.ledger
  BY <1>1 DEF Good, Worlds
<1>3. ASSUME NEW g \in Fire \ {f}
      PROVE  (HasUnfinished(w, g) => HasUnfinished(v, g)) /\ (IsRunning(v, g) => IsRunning(w, g))
  BY <1>1 DEF HasUnfinished, IsRunning
<1>4. Advances(w, v)
  BY <1>1, <1>2, <1>3 DEF Advances
<1> QED
  BY <1>4 DEF v

\* MissionStore.create: the fire has an unfinished mission afterwards.
LEMMA CreateMissionGood ==
  ASSUME NEW w, Good(w), NEW f \in Fire
  PROVE  LET v == CreateMission(w, f)
         IN /\ Good(v) /\ v = [w EXCEPT !.mission = v.mission, !.current = v.current]
            /\ \A g \in Fire \ {f} : v.mission[g] = w.mission[g]
            /\ HasUnfinished(v, f)
            /\ IsRunning(v, f) => IsRunning(w, f)
<1> DEFINE v == CreateMission(w, f)
           s == w.mission[f]
           m == Append(s, "CREATED")
<1>0. s \in Seq(MissionState) /\ Len(s) \in Nat /\ DOMAIN s = 1 .. Len(s)
  BY LenProperties DEF Good, Worlds
<1>1. CASE HasMission(w, f) /\ w.mission[f][w.current[f]] \notin TERMINAL_MISSION_STATES
  <2>1. v = w
    BY <1>1 DEF CreateMission
  <2>2. w = [w EXCEPT !.mission = w.mission, !.current = w.current]
    BY DEF Good, Worlds
  <2>3. w.current[f] \in DOMAIN s /\ w.mission[f][w.current[f]] \notin {"EVICTED", "COMPLETED"}
    BY <1>0, <1>1 DEF Good, Worlds, MissionsOK, HasMission, TERMINAL_MISSION_STATES
  <2>4. w.mission[f][w.current[f]] \in MissionState
    BY <2>3, <1>0, ElementOfSeq
  <2>5. HasUnfinished(w, f)
    BY <2>3, <2>4 DEF HasUnfinished, Unfinished, MissionState
  <2> QED
    BY <2>1, <2>2, <2>5
<1>2. CASE ~ (HasMission(w, f) /\ w.mission[f][w.current[f]] \notin TERMINAL_MISSION_STATES)
  <2>1. "CREATED" \in MissionState
    BY DEF MissionState
  <2>2. /\ m \in Seq(MissionState) /\ Len(m) = Len(s) + 1 /\ DOMAIN m = 1 .. Len(s) + 1
        /\ \A i \in 1 .. Len(s) : m[i] = s[i]
        /\ m[Len(s) + 1] = "CREATED"
    BY <1>0, <2>1, AppendProperties, LenProperties
  <2>3. v = [w EXCEPT !.mission = [w.mission EXCEPT ![f] = m],
                      !.current = [w.current EXCEPT ![f] = Len(s) + 1]]
    BY <1>2 DEF CreateMission
  <2> HIDE DEF m, s
  <2>4. /\ [w.mission EXCEPT ![f] = m] \in [Fire -> Seq(MissionState)]
        /\ [w.current EXCEPT ![f] = Len(s) + 1] \in [Fire -> Nat]
    BY <1>0, <2>2 DEF Good, Worlds
  <2> HIDE DEF v
  <2>5. /\ v \in Worlds /\ v = [w EXCEPT !.mission = v.mission, !.current = v.current]
        /\ v.mission[f] = m /\ \A g \in Fire \ {f} : v.mission[g] = w.mission[g]
        /\ v.current[f] = Len(s) + 1 /\ \A g \in Fire \ {f} : v.current[g] = w.current[g]
    BY <2>3, <2>4 DEF Good, Worlds
  <2>6. v.state = w.state /\ v.nodes = w.nodes /\ v.job = w.job /\ v.ledger = w.ledger
    BY <2>3 DEF Good, Worlds
  <2>7. FiresOK(v) /\ JobsOK(v)
    BY <2>6 DEF Good, FiresOK, JobsOK
  <2>8. MissionsOK(v)
    BY <1>0, <2>2, <2>5 DEF Good, MissionsOK
  <2>9. HasUnfinished(v, f)
    BY <1>0, <2>2, <2>5 DEF HasUnfinished, Unfinished
  <2>10. IsRunning(v, f) => IsRunning(w, f)
    BY <1>0, <2>2, <2>5 DEF IsRunning, s
  <2> QED
    BY <2>5, <2>7, <2>8, <2>9, <2>10 DEF Good, v
<1> QED
  BY <1>1, <1>2

-----------------------------------------------------------------------------
\* FireStateStore.unassign_node: everybody else stays on the list.
LEMMA UnassignGood ==
  ASSUME NEW w, Good(w), NEW f \in Fire, NEW n \in Node
  PROVE  LET v == Unassign(w, f, n)
         IN /\ Good(v)
            /\ v = [w EXCEPT !.nodes = v.nodes]
            /\ \A g \in Fire \ {f} : v.nodes[g] = w.nodes[g]
<1> DEFINE v == Unassign(w, f, n)
           s == w.nodes[f]
           at == CHOOSE i \in DOMAIN s : s[i] = n
           r == RemoveAt(s, at)
<1>1. s \in Seq(Node) /\ IsInjective(s)
  BY DEF Good, Worlds, FiresOK
<1>2. CASE n \in ToSet(s)
  <2>1. at \in DOMAIN s
    BY <1>2 DEF ToSet
  <2>2. r \in Seq(Node) /\ IsInjective(r)
    <3> HIDE DEF at, s
    <3> QED BY <1>1, <2>1, RemoveAtItems
  <2>3. v = [w EXCEPT !.nodes = [w.nodes EXCEPT ![f] = r]]
    BY <1>2 DEF Unassign
  <2> HIDE DEF r
  <2>4. [w.nodes EXCEPT ![f] = r] \in [Fire -> Seq(Node)]
    BY <2>2 DEF Good, Worlds
  <2> HIDE DEF v
  <2>5. v \in Worlds /\ v = [w EXCEPT !.nodes = v.nodes]
    BY <2>3, <2>4 DEF Good, Worlds
  <2>6. \A g \in Fire : v.nodes[g] = IF g = f THEN r ELSE w.nodes[g]
    BY <2>3, <2>4 DEF Good, Worlds
  <2>7. /\ v.job = w.job /\ v.state = w.state /\ v.ledger = w.ledger /\ v.mission = w.mission
        /\ v.current = w.current
    BY <2>5 DEF Good, Worlds
  <2>8. w.state[f] # "UNKNOWN"
    BY <1>2 DEF Good, FiresOK, ToSet
  <2>9. FiresOK(v) /\ MissionsOK(v) /\ JobsOK(v)
    BY <2>2, <2>6, <2>7, <2>8 DEF Good, FiresOK, MissionsOK, JobsOK
  <2> QED
    BY <2>5, <2>6, <2>9 DEF Good, v
<1>3. CASE n \notin ToSet(s)
  <2>1. v = w /\ w = [w EXCEPT !.nodes = w.nodes]
    BY <1>3 DEF Unassign, Good, Worlds
  <2> QED
    BY <2>1
<1> QED
  BY <1>2, <1>3

\* PriorityRule takes a leader only when none is free and the fire has none.
LEMMA PriorityFollows ==
  ASSUME NEW w, Good(w), NEW f \in Fire, w.state[f] # "UNKNOWN"
  PROVE  LET v == Priority(w, f)
         IN /\ Good(v) /\ Kept(w, v)
            /\ Helped(w, f) => Helped(v, f)
            /\ v = w \/ (Available(w) = {} /\ w.nodes[f] = <<>>)
<1> DEFINE led == { g \in Fire \ {f} : w.state[g] # "UNKNOWN" /\ w.nodes[g] # <<>> }
           Least(g) == \A h \in led : w.severity[g] <= w.severity[h]
           lowest == CHOOSE g \in led : Least(g)
           stolen == Head(w.nodes[lowest])
           t == <<"STAND_DOWN", lowest, stolen>>
           sent == Send(w, t)
           r == Respond(sent, f, stolen)
           v == Unassign(r, lowest, stolen)
           takes == Available(w) = {} /\ w.nodes[f] = <<>> /\ led # {} /\ w.severity[lowest] < w.severity[f]
<1>1. CASE takes
  <2>1. Priority(w, f) = v
    BY <1>1 DEF Priority
  <2>2. \E g \in led : Least(g)
    <3> DEFINE S == { w.severity[g] : g \in led }
    <3>1. led \subseteq Fire /\ led # {}
      BY <1>1
    <3>0. w.severity \in [Fire -> Severity]
      BY DEF Good, Worlds
    <3> HIDE DEF led, takes
    <3>2. S \in SUBSET Nat /\ S # {}
      BY ONLY <3>0, <3>1, RuleAssumption
    <3> HIDE DEF S
    <3>3. PICK m \in S : \A k \in S : m <= k
      BY <3>2, MinimumExists
    <3> QED
      BY <3>3 DEF S
  <2>3. lowest \in led
    <3> HIDE DEF led, Least
    <3> QED BY <2>2
  <2>4. lowest \in Fire /\ lowest # f /\ w.nodes[lowest] # <<>>
    BY <2>3
  <2> HIDE DEF lowest, led
  <2>5. stolen \in Node
    BY <2>4, HeadTailProperties DEF Good, Worlds
  <2> HIDE DEF stolen
  <2>6. t \in Trace
    BY <2>4, <2>5 DEF Trace
  <2> HIDE DEF t
  <2>7. Good(sent) /\ Kept(w, sent) /\ sent.state = w.state /\ sent.job = w.job /\ sent.asked = w.asked
    BY <2>6, SendGood
  <2> HIDE DEF sent
  <2>8. Good(r) /\ Kept(sent, r) /\ r.job = [w.job EXCEPT ![stolen] = f] /\ r.asked = w.asked
    BY <2>5, <2>7, RespondGood
  <2> HIDE DEF r
  <2>9. Good(v) /\ v = [r EXCEPT !.nodes = v.nodes]
    BY <2>4, <2>5, <2>8, UnassignGood
  <2> HIDE DEF v
  <2>10. /\ v.job = r.job /\ v.state = r.state /\ v.ledger = r.ledger /\ v.mission = r.mission
         /\ v.current = r.current /\ v.status = r.status /\ v.severity = r.severity /\ v.target = r.target
         /\ v.unheard = r.unheard /\ v.asked = r.asked
    BY <2>8, <2>9 DEF Good, Worlds
  <2>11. Kept(w, r)
    BY <2>7, <2>8 DEF Kept, Good, Worlds
  <2>12. Kept(w, v)
    BY <2>10, <2>11 DEF Kept
  <2>13. Available(v) = {}
    BY <1>1, <2>8, <2>10, <2>12, RuleAssumption DEF Available, Kept, Good, Worlds, Node
  <2>14. ASSUME Helped(w, f)
         PROVE  Helped(v, f)
    <3>1. ~ \E n \in ToSet(w.nodes[f]) : w.status[n] = "ACTIVE"
      BY <1>1 DEF ToSet
    <3>2. v.asked = w.asked /\ v.target = w.target
      BY <2>8, <2>10, <2>12 DEF Kept
    <3> QED
      BY <3>1, <3>2, <2>13, <2>14 DEF Helped
  <2> QED
    BY <1>1, <2>1, <2>9, <2>12, <2>14
<1>2. CASE ~ takes
  <2>1. Priority(w, f) = w
    BY <1>2 DEF Priority
  <2> QED
    BY <2>1, FollowsItself DEF Follows
<1> QED
  BY <1>1, <1>2

\* redispatch_fire: the list is cleared and the rules are asked anew, twice if
\* need be; a fire that burns is helped.
LEMMA RedispatchAdvances ==
  ASSUME NEW w, Good(w), NEW f \in Fire
  PROVE  LET v == Redispatch(w, f)
         IN /\ Advances(w, v) /\ Books(w, v) /\ v.status = w.status
            /\ w.state[f] \in Burning => Helped(v, f)
<1> DEFINE c == Clear(w, f)
           first == Evaluate(c, f)
           after == IF Unassigned(first, f) THEN Evaluate(first, f) ELSE first
           v == IF after.nodes[f] # <<>> THEN MoveMission(after, f, "ASSIGNED") ELSE after
<1>1. CASE w.state[f] = "SUPPRESSED"
  <2>1. Redispatch(w, f) = w
    BY <1>1 DEF Redispatch
  <2> QED
    BY <1>1, <2>1, FollowsItself, KeptAdvances DEF Follows, Burning
<1>2. CASE w.state[f] # "SUPPRESSED"
  <2>1. Redispatch(w, f) = v
    BY <1>2 DEF Redispatch
  <2>2. Good(c) /\ c = [w EXCEPT !.nodes = c.nodes] /\ c.nodes[f] = <<>>
    BY ClearGood
  <2> HIDE DEF c
  <2>3. /\ c.job = w.job /\ c.state = w.state /\ c.ledger = w.ledger /\ c.mission = w.mission
        /\ c.current = w.current /\ c.status = w.status /\ c.severity = w.severity
        /\ c.target = w.target /\ c.unheard = w.unheard /\ c.asked = w.asked
    BY <2>2 DEF Good, Worlds
  <2>4. Follows(w, c)
    BY <2>2, <2>3 DEF Follows, Kept, Books
  <2>5. /\ Follows(c, first) /\ Good(first)
        /\ Unassigned(c, f) => Helped(first, f)
        /\ c.state[f] = "CONTAINED" /\ c.nodes[f] = <<>> => Unassigned(first, f)
    BY <2>2, EvaluateFollows DEF Follows
  <2> HIDE DEF first
  <2>6. /\ Follows(first, after) /\ Good(after)
        /\ Unassigned(first, f) => Helped(after, f)
        /\ ~ Unassigned(first, f) => after = first
    <3>1. CASE Unassigned(first, f)
      BY <3>1, <2>5, EvaluateFollows DEF Follows
    <3>2. CASE ~ Unassigned(first, f)
      BY <3>2, <2>5, FollowsItself
    <3> QED
      BY <3>1, <3>2
  <2>7. w.state[f] \in Burning => Helped(after, f)
    BY <2>2, <2>3, <2>5, <2>6 DEF Unassigned, Burning
  <2> HIDE DEF after
  <2>8. Follows(w, after) /\ Advances(w, after) /\ after.status = w.status
    <3>1. Follows(w, after)
      BY <2>2, <2>4, <2>5, <2>6, FollowsTransitive
    <3> QED
      BY <3>1, KeptAdvances DEF Follows, Kept
  <2>9. /\ Advances(after, v) /\ v.nodes = after.nodes /\ v.job = after.job
        /\ v.status = after.status /\ v.asked = after.asked /\ v.target = after.target
    <3>1. CASE after.nodes[f] # <<>>
      <4>1. Advances(after, v)
        BY <3>1, <2>6, MoveMissionAdvances
      <4>2. v = MoveMission(after, f, "ASSIGNED")
        BY <3>1
      <4> HIDE DEF v
      <4>3. v = [after EXCEPT !.mission = v.mission]
        BY <4>2, <2>6, MoveMissionGood
      <4> QED
        BY <4>1, <4>3, <2>6 DEF Good, Worlds
    <3>2. CASE after.nodes[f] = <<>>
      <4>1. v = after
        BY <3>2
      <4> QED
        BY <4>1, <2>6, FollowsItself, KeptAdvances DEF Follows
    <3> QED
      BY <3>1, <3>2
  <2> HIDE DEF v
  <2>10. Advances(w, v)
    BY <2>8, <2>9, AdvancesTransitive
  <2>11. Books(w, v) /\ v.status = w.status /\ (Helped(after, f) => Helped(v, f))
    BY <2>8, <2>9 DEF Follows, Books, Helped, Available
  <2> QED
    BY <2>1, <2>7, <2>10, <2>11
<1> QED
  BY <1>1, <1>2

\* A reinforcement is a command and nothing else.
LEMMA ReinforceNotes ==
  ASSUME NEW w, Good(w), NEW f \in Fire, Fresh(w, f) # {}
  PROVE  Notes(w, Reinforce(w, f))
<1> DEFINE l == CHOOSE x \in Fresh(w, f) : TRUE
<1>1. l \in Leader
  BY DEF Fresh
<1>2. Reinforce(w, f) = Send(w, <<"REINFORCE_FIRE", f, l>>)
  BY DEF Reinforce
<1> HIDE DEF l
<1>3. <<"REINFORCE_FIRE", f, l>> \in Trace
  BY <1>1 DEF Trace
<1> QED
  BY <1>2, <1>3, SendNotes

\* Or the operator is asked, when there is nobody to send.
LEMMA ReinforceOrEscalateNotes ==
  ASSUME NEW w, Good(w), NEW f \in Fire
  PROVE  Notes(w, ReinforceOrEscalate(w, f))
  BY ReinforceNotes, EscalateNotes DEF ReinforceOrEscalate

\* The commands that stand all leaders of a fire down.
LEMMA StandDownNotes ==
  ASSUME NEW w, Good(w), NEW f \in Fire
  PROVE  Notes(w, [w EXCEPT !.ledger = [t \in Trace |->
                     IF w.ledger[t] = "NONE" /\ t[1] = "STAND_DOWN" /\ t[2] = f
                        /\ \E i \in DOMAIN w.nodes[f] : w.nodes[f][i] = t[3]
                     THEN "ISSUED" ELSE w.ledger[t]]])
<1> DEFINE ordered(t) == t[1] = "STAND_DOWN" /\ t[2] = f /\ \E i \in DOMAIN w.nodes[f] : w.nodes[f][i] = t[3]
           L == [t \in Trace |-> IF w.ledger[t] = "NONE" /\ ordered(t) THEN "ISSUED" ELSE w.ledger[t]]
           v == [w EXCEPT !.ledger = L]
<1> HIDE DEF ordered
<1>1. L \in [Trace -> {"NONE"} \cup LedgerStatus]
  BY DEF Good, Worlds, LedgerStatus
<1>2. \A t \in Trace : L[t] = w.ledger[t] \/ (w.ledger[t] = "NONE" /\ L[t] = "ISSUED")
  OBVIOUS
<1> HIDE DEF L
<1>3. v \in Worlds
  BY <1>1 DEF Good, Worlds
<1>4. /\ v.job = w.job /\ v.ledger = L /\ v.mission = w.mission
      /\ v.current = w.current /\ v.status = w.status /\ v.nodes = w.nodes
      /\ v.severity = w.severity /\ v.target = w.target /\ v.unheard = w.unheard /\ v.asked = w.asked
      /\ v.state = w.state
  BY DEF Good, Worlds
<1> HIDE DEF v
<1>5. FiresOK(v) /\ MissionsOK(v)
  BY <1>4 DEF Good, FiresOK, MissionsOK
<1>6. JobsOK(v)
  BY <1>2, <1>4 DEF Good, JobsOK, Worlds, Trace
<1>7. Kept(w, v) /\ Books(w, v)
  BY <1>2, <1>4 DEF Kept, Books
<1>8. Notes(w, v)
  BY <1>3, <1>4, <1>5, <1>6, <1>7 DEF Notes, Follows, Good
<1> QED
  BY <1>8 DEF v, L, ordered

\* A contained fire that spreads is ACTIVE again, and nobody is booked.
LEMMA ContainmentSlipsFollows ==
  ASSUME NEW w, Good(w), NEW f \in Fire, NEW report
  PROVE  Follows(w, ContainmentSlips(w, f, report)) /\ ContainmentSlips(w, f, report).job = w.job
<1> DEFINE held == ContainmentFailure(w, f)
           v == Turn(held, f, "ACTIVE")
<1>1. Follows(w, held) /\ Good(held) /\ held.job = w.job
  BY ContainmentFailureFollows DEF Follows
<1> HIDE DEF held
<1>2. CASE held.state[f] = "CONTAINED" /\ report.spread # "SLOW"
  <2>1. ContainmentSlips(w, f, report) = v
    BY <1>2 DEF ContainmentSlips, held
  <2>2. "ACTIVE" \in FireStates /\ <<"CONTAINED", "ACTIVE">> \in FIRE_TRANSITIONS
    BY DEF FireStates, FIRE_TRANSITIONS
  <2>3. /\ Good(v) /\ v = [held EXCEPT !.state = v.state]
        /\ \A g \in Fire : v.state[g] = IF g = f THEN "ACTIVE" ELSE held.state[g]
    BY <1>1, <1>2, <2>2, TurnGood
  <2> HIDE DEF v
  <2>4. /\ v.job = held.job /\ v.ledger = held.ledger /\ v.mission = held.mission
        /\ v.current = held.current /\ v.status = held.status
        /\ v.severity = held.severity /\ v.target = held.target /\ v.unheard = held.unheard /\ v.asked = held.asked
    BY <1>1, <2>3 DEF Good, Worlds
  <2>5. Follows(held, v)
    BY <1>2, <2>3, <2>4 DEF Follows, Kept, Books
  <2> QED
    BY <1>1, <2>1, <2>4, <2>5, FollowsTransitive
<1>3. CASE ~ (held.state[f] = "CONTAINED" /\ report.spread # "SLOW")
  <2>1. ContainmentSlips(w, f, report) = held
    BY <1>3 DEF ContainmentSlips, held
  <2> QED
    BY <1>1, <2>1
<1> QED
  BY <1>2, <1>3

\* The chain of rules on a status of the swarm.
LEMMA EvaluateTelemetryFollows ==
  ASSUME NEW w, Good(w), NEW f \in Fire, NEW report
  PROVE  Follows(w, EvaluateTelemetry(w, f, report)) /\ EvaluateTelemetry(w, f, report).job = w.job
<1> DEFINE e == FireExpansion(w, f, report)
           a == ContainmentSlips(e, f, report)
           s == SwarmAttrition(a, f, report)
           v == ResourceExhaustion(s, f, report)
<1>1. EvaluateTelemetry(w, f, report) = v
  BY DEF EvaluateTelemetry
<1>2. Notes(w, e) /\ Good(e)
  BY ReinforceNotes, NothingNoted DEF FireExpansion, Notes, Follows
<1> HIDE DEF e
<1>3. Follows(e, a) /\ a.job = e.job /\ Good(a)
  BY <1>2, ContainmentSlipsFollows DEF Follows
<1> HIDE DEF a
<1>4. Notes(a, s) /\ Good(s)
  BY <1>3, ReinforceOrEscalateNotes, NothingNoted DEF SwarmAttrition, Notes, Follows
<1> HIDE DEF s
<1>5. Notes(s, v)
  <2> DEFINE stood == [s EXCEPT !.ledger = [t \in Trace |->
                         IF s.ledger[t] = "NONE" /\ t[1] = "STAND_DOWN" /\ t[2] = f
                            /\ \E i \in DOMAIN s.nodes[f] : s.nodes[f][i] = t[3]
                         THEN "ISSUED" ELSE s.ledger[t]]]
  <2>1. Notes(s, stood) /\ Good(stood)
    BY <1>4, StandDownNotes DEF Notes, Follows
  <2>2. v = IF report.exhausted THEN ReinforceOrEscalate(stood, f) ELSE s
    BY DEF ResourceExhaustion
  <2> HIDE DEF stood, v
  <2>3. Notes(stood, ReinforceOrEscalate(stood, f))
    BY <2>1, ReinforceOrEscalateNotes
  <2>4. Notes(s, ReinforceOrEscalate(stood, f))
    BY <1>4, <2>1, <2>3, NotesTransitive
  <2> QED
    BY <1>4, <2>2, <2>4, NothingNoted
<1> HIDE DEF v
<1>6. Follows(w, a) /\ a.job = w.job
  BY <1>2, <1>3, FollowsTransitive DEF Notes
<1>7. Follows(w, s) /\ s.job = w.job
  BY <1>4, <1>6, FollowsTransitive DEF Notes
<1>8. Follows(w, v) /\ v.job = w.job
  BY <1>5, <1>7, FollowsTransitive DEF Notes
<1> QED
  BY <1>1, <1>8

-----------------------------------------------------------------------------
\* The inductive invariant.
FireInv ==
  /\ Good(World)
  /\ \A f \in Fire : state[f] # "IGNITED"
  /\ dead \subseteq Node /\ rekindled \subseteq Fire /\ again \subseteq Fire
  /\ events \in Nat /\ reports \in Nat
  /\ RunningWasAnswered
  /\ BurningHasMission

\* Become assigns every field of the record.
LEMMA WorldBecomes ==
  ASSUME NEW w \in Worlds, Become(w)
  PROVE  World' = w
  BY DEF World, Become, Worlds

\* The record holds the variables.
LEMMA WorldFields ==
  /\ World.state = state /\ World.severity = severity /\ World.nodes = nodes
  /\ World.mission = mission /\ World.current = current
  /\ World.status = status /\ World.job = job /\ World.target = target
  /\ World.ledger = ledger /\ World.unheard = unheard /\ World.asked = asked
  BY DEF World

\* The invariant in the terms of the lemmas.
LEMMA BurningSays ==
  BurningHasMission <=>
    \A f \in Fire : state[f] \in Burning /\ f \notin rekindled => HasUnfinished(World, f)
  BY DEF BurningHasMission, HasUnfinished, World, Burning, ToSet

\* The other one, likewise.
LEMMA RunningSays ==
  RunningWasAnswered <=>
    \A f \in Fire : IsRunning(World, f) =>
      \E n \in Node : /\ ledger[<<"RESPOND_TO_FIRE", f, n>>] # "NONE"
                      /\ \E t \in Trace : t[3] = n /\ ledger[t] \in LedgerStatus \ {"ISSUED"}
<1> DEFINE Answered(f) ==
      \E n \in Node : /\ ledger[<<"RESPOND_TO_FIRE", f, n>>] # "NONE"
                      /\ \E t \in Trace : t[3] = n /\ ledger[t] \in LedgerStatus \ {"ISSUED"}
<1>1. \A f \in Fire : "RUNNING" \in ToSet(mission[f]) <=> IsRunning(World, f)
  BY DEF IsRunning, World, ToSet
<1>2. RunningWasAnswered <=> \A f \in Fire : "RUNNING" \in ToSet(mission[f]) => Answered(f)
  BY DEF RunningWasAnswered
<1> HIDE DEF Answered
<1>3. RunningWasAnswered <=> \A f \in Fire : IsRunning(World, f) => Answered(f)
  BY <1>1, <1>2
<1> QED
  BY <1>3 DEF Answered

\* A RESPOND_TO_FIRE is a trace of the ledger.
LEMMA RespondTrace ==
  ASSUME NEW f \in Fire, NEW n \in Node
  PROVE  <<"RESPOND_TO_FIRE", f, n>> \in Trace
  BY DEF Trace

\* A mission that runs already, or whose fire has a leader that answered in this
\* very step.
LEMMA RunningKept ==
  ASSUME FireInv,
         \A t \in Trace :
           /\ ledger[t] # "NONE" => ledger'[t] # "NONE"
           /\ ledger[t] \in LedgerStatus \ {"ISSUED"} => ledger'[t] \in LedgerStatus \ {"ISSUED"},
         \A f \in Fire : IsRunning(World', f) =>
           \/ IsRunning(World, f)
           \/ \E n \in Node : /\ ledger'[<<"RESPOND_TO_FIRE", f, n>>] # "NONE"
                              /\ \E t \in Trace : t[3] = n /\ ledger'[t] \in LedgerStatus \ {"ISSUED"}
  PROVE  RunningWasAnswered'
<1>1. \A f \in Fire : IsRunning(World, f) =>
        \E n \in Node : /\ ledger[<<"RESPOND_TO_FIRE", f, n>>] # "NONE"
                        /\ \E t \in Trace : t[3] = n /\ ledger[t] \in LedgerStatus \ {"ISSUED"}
  BY RunningSays DEF FireInv
<1>2. ASSUME NEW f \in Fire, IsRunning(World', f)
      PROVE  \E n \in Node : /\ ledger'[<<"RESPOND_TO_FIRE", f, n>>] # "NONE"
                             /\ \E t \in Trace : t[3] = n /\ ledger'[t] \in LedgerStatus \ {"ISSUED"}
  <2>1. CASE IsRunning(World, f)
    <3>1. PICK n \in Node : /\ ledger[<<"RESPOND_TO_FIRE", f, n>>] # "NONE"
                            /\ \E t \in Trace : t[3] = n /\ ledger[t] \in LedgerStatus \ {"ISSUED"}
      BY <1>1, <2>1
    <3>2. PICK t \in Trace : t[3] = n /\ ledger[t] \in LedgerStatus \ {"ISSUED"}
      BY <3>1
    <3>3. ledger'[<<"RESPOND_TO_FIRE", f, n>>] # "NONE"
      BY <3>1, RespondTrace
    <3> QED
      BY <3>2, <3>3
  <2> QED
    BY <1>2, <2>1
<1> QED
  BY <1>2 DEF RunningWasAnswered, IsRunning, World, ToSet

\* What the record does not hold keeps its type.
OthersOK ==
  dead' \subseteq Node /\ again' \subseteq Fire /\ events' \in Nat /\ reports' \in Nat

\* No fire is detected in this step.
UnknownKept == \A f \in Fire : state[f] = "UNKNOWN" => state'[f] = "UNKNOWN"

\* BusyLeaderKept of one step: a leader at work gets another fire only if no
\* leader is free, or a command of its own was never answered.
BusyKept ==
  \A l \in Leader :
    job[l] # NoFire /\ job'[l] \notin {job[l], NoFire} =>
      \/ Available(World) = {}
      \/ \E t \in Trace : t[3] = l /\ ledger[t] = "ISSUED"

\* A fire is new, or its leader is declared dead.
Alone(f) ==
  \/ state[f] = "UNKNOWN" /\ state'[f] # "UNKNOWN"
  \/ \E l \in Leader : l \in dead' \ dead /\ job[l] = f /\ state[f] # "SUPPRESSED"
Attended == \A f \in Fire : Alone(f) => Helped(World', f)

\* What every step but two does: no new fire, nobody declared dead.
Quiet == UnknownKept /\ BusyKept /\ dead' \subseteq dead

\* A handler that only advances the stores keeps the invariant.
LEMMA AdvanceKeepsInv ==
  ASSUME FireInv, NEW w, Advances(World, w), Become(w), OthersOK, rekindled' = rekindled
  PROVE  FireInv' /\ UnknownKept
<1>1. Good(w) /\ World' = w
  BY WorldBecomes DEF Advances, Good
<1>2. /\ state' = w.state /\ ledger' = w.ledger
  BY DEF Become
<1>3. Good(World)' 
  BY <1>1 DEF Good, FiresOK, MissionsOK, JobsOK
<1>4. \A f \in Fire : state'[f] # "IGNITED"
  BY <1>2, WorldFields DEF FireInv, Advances
<1>5. BurningHasMission'
  <2>1. \A f \in Fire : state[f] \in Burning /\ f \notin rekindled => HasUnfinished(World, f)
    BY BurningSays DEF FireInv
  <2>2. \A f \in Fire : state'[f] \in Burning /\ f \notin rekindled' => HasUnfinished(w, f)
    BY <2>1, <1>2, WorldFields DEF Advances
  <2>3. \A f \in Fire : state'[f] \in Burning /\ f \notin rekindled' => HasUnfinished(World, f)'
    BY <2>2, <1>1 DEF HasUnfinished
  <2> QED
    BY <2>3 DEF BurningHasMission, HasUnfinished, World, Burning, ToSet
<1>6. RunningWasAnswered'
  BY <1>1, <1>2, WorldFields, RunningKept DEF Advances
<1>7. UnknownKept
  BY <1>2, WorldFields DEF UnknownKept, Advances
<1> QED
  BY <1>3, <1>4, <1>5, <1>6, <1>7 DEF FireInv, OthersOK

\* Such a handler is also quiet, if it robs no leader of its job.
LEMMA QuietStep ==
  ASSUME FireInv, NEW w, Advances(World, w), Become(w), OthersOK, rekindled' = rekindled,
         BusyKept, dead' \subseteq dead
  PROVE  FireInv' /\ Quiet
  BY AdvanceKeepsInv DEF Quiet

\* A leader who keeps its job, or is idle afterwards, was not robbed of it.
LEMMA SameJobs ==
  ASSUME NEW w, Become(w), \A l \in Leader : w.job[l] \in {job[l], NoFire}
  PROVE  BusyKept
  BY DEF Become, BusyKept

\* Nor is an idle leader who was booked.
LEMMA IdleBooked ==
  ASSUME NEW v, NEW w, Become(w), Books(v, w), v.job = job, v.status = status
  PROVE  BusyKept
  BY DEF Become, BusyKept, Books, Available

-----------------------------------------------------------------------------
\* Releasing a node advances the stores.
LEMMA ReleaseAdvances ==
  ASSUME NEW w, Good(w), NEW n \in Node
  PROVE  Advances(w, Release(w, n))
<1> DEFINE v == Release(w, n)
<1>1. Good(v) /\ v = [w EXCEPT !.job = v.job]
  BY ReleaseGood
<1> HIDE DEF v
<1>2. v.state = w.state /\ v.ledger = w.ledger /\ v.mission = w.mission
  BY <1>1 DEF Good, Worlds
<1> QED
  BY <1>1, <1>2 DEF Advances, HasUnfinished, IsRunning, v

\* So does a state of a fire that is no new blaze.
LEMMA TurnAdvances ==
  ASSUME NEW w, Good(w), NEW f \in Fire, NEW to \in {"CONTAINED", "SUPPRESSED"}
  PROVE  /\ Advances(w, Turn(w, f, to)) /\ Turn(w, f, to).job = w.job
         /\ w.state[f] # "UNKNOWN" /\ to = "SUPPRESSED" => Turn(w, f, to).state[f] = "SUPPRESSED"
<1> DEFINE v == Turn(w, f, to)
<1>1. /\ Good(v)
      /\ v = [w EXCEPT !.state = v.state]
      /\ \A g \in Fire : v.state[g] =
           IF g = f /\ <<w.state[f], to>> \in FIRE_TRANSITIONS THEN to ELSE w.state[g]
  <2>1. to \in FireStates /\ to # "UNKNOWN"
    BY DEF FireStates
  <2> QED
    BY <2>1, TurnGood
<1> HIDE DEF v
<1>2. v.job = w.job /\ v.ledger = w.ledger /\ v.mission = w.mission
  BY <1>1 DEF Good, Worlds
<1>3. \A g \in Fire : v.state[g] \in Burning => w.state[g] \in Burning
  BY <1>1 DEF FIRE_TRANSITIONS, Burning
<1>4. \A g \in Fire : /\ v.state[g] = "IGNITED" => w.state[g] = "IGNITED"
                      /\ w.state[g] = "UNKNOWN" => v.state[g] = "UNKNOWN"
  BY <1>1 DEF FIRE_TRANSITIONS
<1>5. Advances(w, v)
  BY <1>1, <1>2, <1>3, <1>4 DEF Advances, HasUnfinished, IsRunning
<1>6. w.state[f] \in FireStates
  BY DEF Good, Worlds
<1>7. w.state[f] # "UNKNOWN" /\ to = "SUPPRESSED" => v.state[f] = "SUPPRESSED"
  BY <1>1, <1>6 DEF FIRE_TRANSITIONS, FireStates
<1> QED
  BY <1>2, <1>5, <1>7 DEF v

\* So does a new severity.
LEMMA SeverityAdvances ==
  ASSUME NEW w, Good(w), NEW f \in Fire, NEW s \in Severity
  PROVE  LET v == [w EXCEPT !.severity[f] = s] IN Advances(w, v) /\ v.job = w.job
<1> DEFINE v == [w EXCEPT !.severity[f] = s]
<1>1. v \in Worlds
  BY DEF Good, Worlds
<1>2. /\ v.job = w.job /\ v.ledger = w.ledger /\ v.mission = w.mission
      /\ v.state = w.state /\ v.nodes = w.nodes /\ v.current = w.current
  BY DEF Good, Worlds
<1> HIDE DEF v
<1>3. FiresOK(v) /\ MissionsOK(v) /\ JobsOK(v)
  BY <1>2 DEF Good, FiresOK, MissionsOK, JobsOK
<1> QED
  BY <1>1, <1>2, <1>3 DEF Advances, Good, HasUnfinished, IsRunning, v

\* So does the status of a node.
LEMMA StatusAdvances ==
  ASSUME NEW w, Good(w), NEW n \in Node, NEW to \in {"ACTIVE", "OFFLINE"}
  PROVE  LET v == [w EXCEPT !.status[n] = to]
         IN Advances(w, v) /\ v.job = w.job /\ v.state = w.state /\ v.status = [w.status EXCEPT ![n] = to]
<1> DEFINE v == [w EXCEPT !.status[n] = to]
<1>1. v \in Worlds
  BY DEF Good, Worlds
<1>2. /\ v.job = w.job /\ v.ledger = w.ledger /\ v.mission = w.mission
      /\ v.state = w.state /\ v.nodes = w.nodes /\ v.current = w.current
      /\ v.status = [w.status EXCEPT ![n] = to]
  BY DEF Good, Worlds
<1> HIDE DEF v
<1>3. FiresOK(v) /\ MissionsOK(v) /\ JobsOK(v)
  BY <1>2 DEF Good, FiresOK, MissionsOK, JobsOK
<1> QED
  BY <1>1, <1>2, <1>3 DEF Advances, Good, HasUnfinished, IsRunning, v

\* The counters that bound the run stay numbers.
LEMMA BoundsKept ==
  ASSUME FireInv
  PROVE  /\ Event => events' \in Nat /\ reports' \in Nat
         /\ Report => events' \in Nat /\ reports' \in Nat
         /\ NoEvent => events' \in Nat /\ reports' \in Nat
  BY DEF FireInv, Event, Report, NoEvent

\* _handle_fire_event, CONTAINED.
LEMMA FireContainedInv ==
  ASSUME FireInv, NEW f \in Fire, FireContainedEvent(f)
  PROVE  FireInv' /\ Quiet
<1> DEFINE t == Turn(World, f, "CONTAINED")
           w == Evaluate(t, f)
<1>1. Become(w) /\ OthersOK /\ rekindled' = rekindled
  BY BoundsKept DEF FireInv, FireContainedEvent, OthersOK
<1>2. Advances(World, t) /\ Good(t) /\ t.job = job /\ t.status = status
  <2>1. Advances(World, t)
    BY TurnAdvances DEF FireInv
  <2>2. t.job = job /\ t.status = status
    BY DEF Turn, World
  <2> QED
    BY <2>1, <2>2 DEF Advances
<1> HIDE DEF t
<1>3. Advances(t, w) /\ Books(t, w)
  BY <1>2, EvaluateFollows, KeptAdvances DEF Follows
<1> HIDE DEF w
<1>4. BusyKept /\ dead' \subseteq dead
  BY <1>1, <1>2, <1>3, IdleBooked DEF FireContainedEvent
<1> QED
  BY <1>1, <1>2, <1>3, <1>4, AdvancesTransitive, QuietStep

\* _handle_fire_event, SUPPRESSED: the mission is COMPLETED when the fire is out.
LEMMA FireSuppressedInv ==
  ASSUME FireInv, NEW f \in Fire, FireSuppressedEvent(f)
  PROVE  FireInv' /\ Quiet
<1> DEFINE freed == IF nodes[f] # <<>> THEN Release(World, Head(nodes[f])) ELSE World
           t == Turn(freed, f, "SUPPRESSED")
           out == Evaluate(t, f)
           w == MoveMission(out, f, "COMPLETED")
<1>0. Good(World) /\ state[f] # "UNKNOWN"
  BY DEF FireInv, FireSuppressedEvent, Known
<1>1. Become(w) /\ OthersOK /\ rekindled' = rekindled
  BY BoundsKept DEF FireInv, FireSuppressedEvent, OthersOK
<1>2. /\ Advances(World, freed) /\ Good(freed) /\ freed.state = state
      /\ \A l \in Leader : freed.job[l] \in {job[l], NoFire}
  <2>1. CASE nodes[f] # <<>>
    <3>1. Head(nodes[f]) \in Node
      BY <2>1, <1>0, WorldFields, HeadTailProperties DEF Good, Worlds
    <3>2. freed = Release(World, Head(nodes[f]))
      BY <2>1
    <3>3. /\ Release(World, Head(nodes[f])).state = state
          /\ \A l \in Leader : Release(World, Head(nodes[f])).job[l] \in {job[l], NoFire}
      BY <1>0, WorldFields DEF Release, World, Good, Worlds, Node
    <3> QED
      BY <3>1, <3>2, <3>3, <1>0, ReleaseAdvances DEF Advances
  <2>2. CASE nodes[f] = <<>>
    BY <2>2, <1>0, WorldFields, FollowsItself, KeptAdvances DEF Follows
  <2> QED
    BY <2>1, <2>2
<1> HIDE DEF freed
<1>3. Advances(freed, t) /\ Good(t) /\ t.state[f] = "SUPPRESSED" /\ t.job = freed.job
  BY <1>0, <1>2, TurnAdvances DEF Advances
<1> HIDE DEF t
<1>4. /\ Advances(t, out) /\ Good(out) /\ out.state[f] = "SUPPRESSED"
      /\ \A l \in Leader : out.job[l] = t.job[l]
  BY <1>3, EvaluateFollows, KeptAdvances DEF Follows, Kept
<1> HIDE DEF out
<1>5. Advances(out, w)
  BY <1>4, MoveMissionAdvances DEF Burning
<1>6. w.job = out.job
  BY DEF MoveMission
<1> HIDE DEF w
<1>7. BusyKept /\ dead' \subseteq dead
  BY <1>1, <1>2, <1>3, <1>4, <1>6, SameJobs DEF FireSuppressedEvent
<1> QED
  BY <1>1, <1>2, <1>3, <1>4, <1>5, <1>7, AdvancesTransitive, QuietStep

\* _handle_fire_intensity.
LEMMA FireIntensityInv ==
  ASSUME FireInv, NEW f \in Fire, NEW s \in Severity, FireIntensity(f, s)
  PROVE  FireInv' /\ Quiet
<1> DEFINE t == [World EXCEPT !.severity[f] = s]
           w == HighSeverity(t, f)
<1>1. Become(w) /\ OthersOK /\ rekindled' = rekindled
  BY BoundsKept DEF FireInv, FireIntensity, OthersOK
<1>2. Advances(World, t) /\ Good(t) /\ t.job = job
  BY SeverityAdvances, WorldFields DEF FireInv, Advances
<1> HIDE DEF t
<1>3. Advances(t, w) /\ w.job = job
  BY <1>2, HighSeverityNotes, KeptAdvances DEF Notes, Follows
<1> HIDE DEF w
<1>4. BusyKept /\ dead' \subseteq dead
  BY <1>1, <1>3, SameJobs DEF FireIntensity
<1> QED
  BY <1>1, <1>2, <1>3, <1>4, AdvancesTransitive, QuietStep

\* _handle_swarm_status and the rules on telemetry.
LEMMA SwarmStatusInv ==
  ASSUME FireInv, NEW f \in Fire, NEW report, SwarmStatus(f, report)
  PROVE  FireInv' /\ Quiet
<1> DEFINE w == EvaluateTelemetry(World, f, report)
<1>1. Become(w) /\ OthersOK /\ rekindled' = rekindled
  BY BoundsKept DEF FireInv, SwarmStatus, OthersOK
<1>2. Advances(World, w) /\ w.job = job
  BY EvaluateTelemetryFollows, KeptAdvances, WorldFields DEF FireInv, Follows
<1> HIDE DEF w
<1>3. BusyKept /\ dead' \subseteq dead
  BY <1>1, <1>2, SameJobs DEF SwarmStatus
<1> QED
  BY <1>1, <1>2, <1>3, QuietStep

\* _handle_swarm_election: the winner joins the leaders of the fire.
LEMMA SwarmElectionInv ==
  ASSUME FireInv, NEW f \in Fire, NEW n \in Leader, SwarmElection(f, n)
  PROVE  FireInv' /\ Quiet
<1> DEFINE a == Assign(World, f, n)
           w == ElectedLeader(a, f, n)
<1>1. Become(w) /\ OthersOK /\ rekindled' = rekindled
  BY BoundsKept DEF FireInv, SwarmElection, OthersOK
<1>2. Good(World) /\ n \in Node /\ World.state[f] # "UNKNOWN"
  BY WorldFields DEF FireInv, SwarmElection, Known, Node
<1>3. Advances(World, a) /\ Good(a) /\ a.job = job
  BY <1>2, AssignGood, KeptAdvances, WorldFields
<1> HIDE DEF a
<1>4. <<"CONFIRM_LEADERSHIP", f, n>> \in Trace
  BY DEF Trace
<1>5. Advances(a, w) /\ w.job = job
  BY <1>3, <1>4, SendGood, KeptAdvances DEF ElectedLeader
<1> HIDE DEF w
<1>6. BusyKept /\ dead' \subseteq dead
  BY <1>1, <1>5, SameJobs DEF SwarmElection
<1> QED
  BY <1>1, <1>3, <1>5, <1>6, AdvancesTransitive, QuietStep

\* One fire that waited is looked at again after a leader came back.
LEMMA LookAgainInv ==
  ASSUME FireInv, NEW f \in Fire, LookAgain(f)
  PROVE  FireInv' /\ Quiet
<1> DEFINE d == FireDispatch(World, f)
           w == NoResponders(d, f)
<1>1. Become(w) /\ OthersOK /\ rekindled' = rekindled
  BY BoundsKept DEF FireInv, LookAgain, OthersOK
<1>2. Advances(World, d) /\ Good(d) /\ Books(World, d)
  BY FireDispatchFollows, KeptAdvances DEF FireInv, Follows
<1> HIDE DEF d
<1>3. Advances(d, w) /\ w.job = d.job
  BY <1>2, NoRespondersNotes, KeptAdvances DEF Notes, Follows
<1> HIDE DEF w
<1>4. Books(World, w)
  BY <1>2, <1>3 DEF Books
<1>5. BusyKept /\ dead' \subseteq dead
  BY <1>1, <1>4, IdleBooked, WorldFields DEF LookAgain
<1> QED
  BY <1>1, <1>2, <1>3, <1>5, AdvancesTransitive, QuietStep

\* HeartbeatMonitor.update.
LEMMA HeartbeatInv ==
  ASSUME FireInv, NEW n \in Node, Heartbeat(n)
  PROVE  FireInv' /\ Quiet
<1> DEFINE w == [World EXCEPT !.status[n] = "ACTIVE"]
<1>1. Advances(World, w) /\ w.job = job
  BY StatusAdvances, WorldFields DEF FireInv
<1>2. Become(w) /\ OthersOK /\ rekindled' = rekindled /\ dead' \subseteq dead
  BY BoundsKept DEF FireInv, Heartbeat, OthersOK, Become, World, fireVars, missionVars
<1> HIDE DEF w
<1>3. BusyKept
  BY <1>1, <1>2, SameJobs
<1> QED
  BY <1>1, <1>2, <1>3, QuietStep

\* A node is announced OFFLINE, by itself or by its last will.
LEMMA AnnounceOfflineInv ==
  ASSUME FireInv, NEW n \in Node, AnnounceOffline(n)
  PROVE  FireInv' /\ Quiet
<1> DEFINE w == [World EXCEPT !.status[n] = "OFFLINE"]
<1>1. Advances(World, w) /\ w.job = job
  BY StatusAdvances, WorldFields DEF FireInv
<1>2. Become(w) /\ OthersOK /\ rekindled' = rekindled /\ dead' \subseteq dead
  BY BoundsKept DEF FireInv, AnnounceOffline, OthersOK, Become, World, fireVars, missionVars
<1> HIDE DEF w
<1>3. BusyKept
  BY <1>1, <1>2, SameJobs
<1> QED
  BY <1>1, <1>2, <1>3, QuietStep

\* A commander is heard, or lost: the stores keep everything else.
LEMMA CommanderInv ==
  ASSUME FireInv, CommanderHeard \/ CommanderLost
  PROVE  FireInv' /\ Quiet
<1> DEFINE w == [World EXCEPT !.target = target']
<1>1. target' \in BOOLEAN
  BY DEF CommanderHeard, CommanderLost
<1>2. /\ w \in Worlds /\ w.state = state /\ w.nodes = nodes /\ w.mission = mission
      /\ w.current = current /\ w.job = job /\ w.ledger = ledger
  BY <1>1 DEF FireInv, Good, Worlds, World
<1>3. Become(w) /\ OthersOK /\ rekindled' = rekindled /\ dead' \subseteq dead
  BY BoundsKept DEF FireInv, CommanderHeard, CommanderLost, OthersOK, Become, World, fireVars,
    missionVars
<1> HIDE DEF w
<1>4. Good(w)
  BY <1>2, WorldFields DEF FireInv, Good, FiresOK, MissionsOK, JobsOK
<1>5. Advances(World, w)
  BY <1>2, <1>4, WorldFields DEF Advances, HasUnfinished, IsRunning
<1>6. BusyKept
  BY <1>2, <1>3, SameJobs
<1> QED
  BY <1>3, <1>5, <1>6, QuietStep

\* A node that announces itself again is released.
LEMMA AnnounceInv ==
  ASSUME FireInv, NEW n \in Node, Announce(n)
  PROVE  FireInv' /\ Quiet
<1>1. Advances(World, Release(World, n))
  BY ReleaseAdvances DEF FireInv
<1>2. Become(Release(World, n)) /\ OthersOK /\ rekindled' = rekindled
  BY BoundsKept DEF FireInv, Announce, OthersOK
<1>3. \A l \in Leader : Release(World, n).job[l] \in {job[l], NoFire}
  BY WorldFields DEF FireInv, Good, Worlds, Release, Node
<1>4. BusyKept /\ dead' \subseteq dead
  BY <1>2, <1>3, SameJobs DEF Announce
<1> QED
  BY <1>1, <1>2, <1>4, QuietStep

\* _on_node_failed: the only step that declares a node dead, and its fire is helped.
LEMMA NodeFailedInv ==
  ASSUME FireInv, NEW n \in Node, NodeFailed(n)
  PROVE  FireInv' /\ BusyKept /\ Attended
<1> DEFINE down == [World EXCEPT !.status[n] = "OFFLINE"]
           f == job[n]
           freed == Release(down, n)
           moved == MoveMission(freed, f, "PAUSED")
           w == IF n \in Leader /\ f # NoFire THEN Redispatch(moved, f) ELSE down
<1>1. Become(w) /\ OthersOK /\ rekindled' = rekindled /\ dead' = dead \cup {n}
  BY BoundsKept DEF FireInv, NodeFailed, OthersOK
<1>2. /\ Advances(World, down) /\ Good(down) /\ down.job = job /\ down.state = state
      /\ down.status = [status EXCEPT ![n] = "OFFLINE"]
  <2>1. "OFFLINE" \in {"ACTIVE", "OFFLINE"} /\ Good(World)
    BY DEF FireInv
  <2>2. /\ Advances(World, down) /\ down.job = World.job /\ down.state = World.state
        /\ down.status = [World.status EXCEPT ![n] = "OFFLINE"]
    BY <2>1, StatusAdvances
  <2> HIDE DEF down
  <2> QED
    BY <2>2, WorldFields DEF Advances
<1> HIDE DEF down
<1>3. CASE n \in Leader /\ f # NoFire
  <2>1. f \in Fire
    BY <1>3, WorldFields DEF FireInv, Good, Worlds
  <2>2. f = job[n]
    OBVIOUS
  <2> HIDE DEF f
  <2>3. /\ Advances(down, freed) /\ Good(freed) /\ freed = [down EXCEPT !.job = freed.job]
        /\ \A m \in Node \ {n} : freed.job[m] = job[m]
    BY <1>2, ReleaseAdvances, ReleaseGood DEF Advances
  <2>4. freed.state = state /\ freed.status = [status EXCEPT ![n] = "OFFLINE"]
    BY <1>2, <2>3 DEF Good, Worlds
  <2> HIDE DEF freed
  <2>5. Advances(freed, moved) /\ Good(moved)
    BY <2>1, <2>3, MoveMissionAdvances DEF Advances
  <2>6. moved.state = state /\ moved.status = freed.status /\ moved.job = freed.job
    BY <2>4 DEF MoveMission
  <2> HIDE DEF moved
  <2>7. w = Redispatch(moved, f)
    BY <1>3
  <2> HIDE DEF w
  <2>8. Advances(moved, w) /\ Books(moved, w) /\ (state[f] \in Burning => Helped(w, f))
    BY <2>1, <2>5, <2>6, <2>7, RedispatchAdvances
  <2>9. Advances(World, w)
    BY <1>2, <2>3, <2>5, <2>8, AdvancesTransitive
  <2>10. FireInv' /\ UnknownKept
    BY <1>1, <2>9, AdvanceKeepsInv
  <2>11. \A l \in Leader : l \in Available(moved) => job[l] = NoFire /\ l # n
    BY <2>3, <2>4, <2>6, <1>2, WorldFields DEF Available, FireInv, Good, Worlds, Node
  <2>12. \A l \in Leader : l # n => moved.job[l] = job[l]
    BY <2>3, <2>6 DEF Node
  <2>13. moved.job[n] \in {NoFire}
    <3>1. freed.job[n] = NoFire
      BY <1>2, ReleaseGood DEF freed
    <3> QED
      BY <3>1, <2>6
  <2>14. BusyKept
    BY <1>1, <2>8, <2>11, <2>12, <2>13 DEF BusyKept, Books, Become
  <2>15. World' = w
    BY <1>1, <2>9, WorldBecomes DEF Advances, Good
  <2>16. state[f] \in {"ACTIVE", "CONTAINED", "SUPPRESSED"}
    BY <1>3, <2>1, <2>2, WorldFields DEF FireInv, Good, Worlds, JobsOK, FireStates
  <2>17. Attended
    BY <1>1, <2>2, <2>8, <2>10, <2>15, <2>16 DEF Attended, Alone, UnknownKept, Burning
  <2> QED
    BY <2>10, <2>14, <2>17
<1>4. CASE ~ (n \in Leader /\ f # NoFire)
  <2>1. w = down
    BY <1>4
  <2>2. FireInv' /\ UnknownKept
    BY <1>1, <1>2, <2>1, AdvanceKeepsInv
  <2>3. BusyKept
    BY <1>1, <1>2, <2>1, SameJobs
  <2>4. NoFire \notin Fire
    BY RuleAssumption
  <2>5. Attended
    BY <1>1, <1>4, <2>2, <2>4 DEF Attended, Alone, UnknownKept
  <2> QED
    BY <2>2, <2>3, <2>5
<1> QED
  BY <1>3, <1>4

\* A command of which no answer came in time.
LEMMA AckTimeoutInv ==
  ASSUME FireInv, NEW t \in Trace, AckTimeout(t)
  PROVE  FireInv' /\ Quiet
<1> DEFINE freed == Release(World, t[3])
           w == Redispatch(freed, t[2])
<1>1. Become(w) /\ OthersOK /\ rekindled' = rekindled
  BY BoundsKept DEF FireInv, AckTimeout, OthersOK
<1>2. t[2] \in Fire /\ t[3] \in Node
  BY DEF Trace, Node
<1>3. Advances(World, freed) /\ Good(freed)
  BY <1>2, ReleaseAdvances DEF FireInv, Advances
<1>4. \A l \in Leader : l # t[3] => freed.job[l] = job[l]
  BY <1>2, ReleaseGood, WorldFields DEF FireInv, Node
<1>5. freed.status = status
  BY DEF Release, World
<1> HIDE DEF freed
<1>6. Advances(freed, w) /\ Books(freed, w)
  BY <1>2, <1>3, RedispatchAdvances
<1> HIDE DEF w
<1>7. ledger[t] = "ISSUED" /\ dead' \subseteq dead
  BY DEF AckTimeout
<1>8. BusyKept
  BY <1>1, <1>4, <1>5, <1>6, <1>7 DEF BusyKept, Books, Available, Become
<1> QED
  BY <1>1, <1>3, <1>6, <1>7, <1>8, AdvancesTransitive, QuietStep

\* A command that nobody hears is timed out, and the fire dispatched again.
LEMMA UnheardTimeoutInv ==
  ASSUME FireInv, NEW f \in Fire, UnheardTimeout(f)
  PROVE  FireInv' /\ Quiet
<1>1. Advances(World, Redispatch(World, f)) /\ Books(World, Redispatch(World, f))
  BY RedispatchAdvances DEF FireInv
<1>2. Become(Redispatch(World, f)) /\ OthersOK /\ rekindled' = rekindled
  BY BoundsKept DEF FireInv, UnheardTimeout, OthersOK
<1>3. BusyKept /\ dead' \subseteq dead
  BY <1>1, <1>2, IdleBooked, WorldFields DEF UnheardTimeout
<1> QED
  BY <1>1, <1>2, <1>3, QuietStep

\* The stores when ignite() has put a new fire among them.
LEMMA DetectedIsGood ==
  ASSUME FireInv, NEW f \in Fire
  PROVE  LET lit == IF Known(f) THEN World ELSE [World EXCEPT !.state[f] = "IGNITED"]
         IN /\ Good(lit) /\ lit.mission = mission /\ lit.ledger = ledger
            /\ lit.nodes = nodes /\ lit.job = job /\ lit.status = status /\ lit.severity = severity
            /\ lit.state[f] # "UNKNOWN"
            /\ \A g \in Fire \ {f} : lit.state[g] = state[g]
            /\ state[f] = "UNKNOWN" => lit.state[f] = "IGNITED" /\ nodes[f] = <<>>
<1>1. CASE Known(f)
  BY <1>1, WorldFields DEF FireInv, Known
<1>2. CASE ~ Known(f)
  <2> DEFINE lit == [World EXCEPT !.state[f] = "IGNITED"]
  <2>1. /\ lit \in Worlds /\ lit.mission = mission /\ lit.ledger = ledger
        /\ lit.nodes = nodes /\ lit.job = job /\ lit.status = status /\ lit.severity = severity
        /\ lit.current = current
        /\ \A g \in Fire : lit.state[g] = IF g = f THEN "IGNITED" ELSE state[g]
    BY DEF FireInv, Good, Worlds, World, FireStates
  <2> HIDE DEF lit
  <2>2. FiresOK(World) /\ MissionsOK(World) /\ JobsOK(World) /\ World \in Worlds
    BY DEF FireInv, Good
  <2>3. FiresOK(lit) /\ MissionsOK(lit)
    BY <2>1, <2>2, WorldFields DEF FiresOK, MissionsOK
  <2>4. \A n \in Node : job[n] # NoFire =>
          /\ job[n] \in Fire /\ state[job[n]] # "UNKNOWN"
          /\ ledger[<<"RESPOND_TO_FIRE", job[n], n>>] # "NONE"
    BY <2>2, WorldFields DEF Worlds, JobsOK
  <2>5. JobsOK(lit)
    BY <2>1, <2>4 DEF JobsOK
  <2>6. nodes[f] = <<>>
    BY <1>2, WorldFields DEF FireInv, Good, FiresOK, Known
  <2> QED
    BY <1>2, <2>1, <2>3, <2>5, <2>6 DEF Good, lit
<1> QED
  BY <1>1, <1>2

\* A known fire keeps its state until it is ACTIVE; a new one is IGNITED first.
LEMMA FireDetectedInv ==
  ASSUME FireInv, NEW f \in Fire, FireDetected(f)
  PROVE  FireInv' /\ BusyKept /\ Attended
<1> DEFINE lit == IF Known(f) THEN World ELSE [World EXCEPT !.state[f] = "IGNITED"]
           turned == Turn(lit, f, "ACTIVE")
           opened == CreateMission(turned, f)
           after == EvaluateNew(opened, f)
           w == IF Available(after) # {} THEN MoveMission(after, f, "ASSIGNED") ELSE after
<1>1. /\ Become(w) /\ OthersOK /\ dead' = dead
      /\ rekindled' = IF opened.mission[f] # mission[f] THEN rekindled \ {f} ELSE rekindled
  BY BoundsKept DEF FireInv, FireDetected, OthersOK
<1>2. /\ Good(lit) /\ lit.mission = mission /\ lit.ledger = ledger /\ lit.state[f] # "UNKNOWN"
      /\ lit.nodes = nodes /\ lit.job = job /\ lit.status = status
      /\ \A g \in Fire \ {f} : lit.state[g] = state[g]
      /\ state[f] = "UNKNOWN" => nodes[f] = <<>>
  BY DetectedIsGood
<1> HIDE DEF lit
<1>3. /\ Good(turned) /\ turned = [lit EXCEPT !.state = turned.state]
      /\ \A g \in Fire : turned.state[g] =
           IF g = f /\ <<lit.state[f], "ACTIVE">> \in FIRE_TRANSITIONS THEN "ACTIVE" ELSE lit.state[g]
  <2>1. "ACTIVE" \in FireStates
    BY DEF FireStates
  <2> QED
    BY <2>1, <1>2, TurnGood
<1>4. turned.state[f] = "ACTIVE"
  <2>1. lit.state[f] \in FireStates
    BY <1>2 DEF Good, Worlds
  <2> QED
    BY <2>1, <1>2, <1>3 DEF FireStates, FIRE_TRANSITIONS
<1>5. /\ turned.mission = mission /\ turned.ledger = ledger
      /\ turned.nodes = nodes /\ turned.job = job /\ turned.status = status
  BY <1>2, <1>3 DEF Good, Worlds
<1> HIDE DEF turned
<1>6. /\ Good(opened) /\ opened = [turned EXCEPT !.mission = opened.mission, !.current = opened.current]
      /\ \A g \in Fire \ {f} : opened.mission[g] = mission[g]
      /\ HasUnfinished(opened, f)
      /\ IsRunning(opened, f) => IsRunning(turned, f)
  BY <1>3, <1>5, CreateMissionGood
<1>7. /\ opened.state = turned.state /\ opened.ledger = ledger
      /\ opened.nodes = nodes /\ opened.job = job /\ opened.status = status
  BY <1>3, <1>5, <1>6 DEF Good, Worlds
<1> HIDE DEF opened
<1>8. /\ Advances(opened, after)
      /\ nodes[f] = <<>> => Helped(after, f)
      /\ Available(opened) = {} \/ Books(opened, after)
  <2> DEFINE e == Evaluate(opened, f)
  <2>1. /\ Follows(opened, e) /\ Good(e)
        /\ Unassigned(opened, f) => Helped(e, f)
        /\ opened.state[f] = "ACTIVE" /\ Available(opened) # {} => e.nodes[f] # <<>>
    BY <1>6, EvaluateFollows DEF Follows
  <2>2. after = Priority(e, f)
    BY DEF EvaluateNew
  <2> HIDE DEF e, after
  <2>3. e.state[f] # "UNKNOWN"
    BY <2>1, <1>4, <1>7 DEF Follows, Kept
  <2>4. /\ Good(after) /\ Kept(e, after) /\ (Helped(e, f) => Helped(after, f))
        /\ after = e \/ e.nodes[f] = <<>>
    BY <2>1, <2>2, <2>3, PriorityFollows
  <2>5. Advances(opened, after)
    BY <1>6, <2>1, <2>4, KeptAdvances, AdvancesTransitive DEF Follows
  <2>6. nodes[f] = <<>> => Helped(after, f)
    BY <1>4, <1>7, <2>1, <2>4 DEF Unassigned
  <2>7. Available(opened) = {} \/ Books(opened, after)
    BY <1>4, <1>7, <2>1, <2>4 DEF Follows
  <2> QED
    BY <2>5, <2>6, <2>7
<1> HIDE DEF after
<1>9. /\ Advances(opened, w) /\ w.nodes = after.nodes /\ w.job = after.job
      /\ w.status = after.status /\ w.asked = after.asked /\ w.target = after.target
  <2>1. Good(after)
    BY <1>8 DEF Advances
  <2>2. Advances(after, MoveMission(after, f, "ASSIGNED"))
    BY <2>1, MoveMissionAdvances
  <2>3. Advances(opened, w)
    BY <1>8, <2>2, AdvancesTransitive
  <2> QED
    BY <2>3 DEF MoveMission
<1> HIDE DEF w
<1>10. Good(w) /\ World' = w /\ state' = w.state /\ ledger' = w.ledger
  BY <1>1, <1>9, WorldBecomes DEF Advances, Good, Become
<1>11. Good(World)'
  BY <1>10 DEF Good, FiresOK, MissionsOK, JobsOK
<1>12. \A g \in Fire : state'[g] # "IGNITED"
  BY <1>2, <1>3, <1>4, <1>7, <1>9, <1>10 DEF Advances, FireInv
<1>13. ASSUME NEW g \in Fire, state'[g] \in Burning, g \notin rekindled'
       PROVE  HasUnfinished(w, g)
  <2>1. CASE g = f
    BY <2>1, <1>6, <1>9, <1>10, <1>13 DEF Advances
  <2>2. CASE g # f
    <3>1. g \notin rekindled
      BY <2>2, <1>1, <1>13
    <3>2. state[g] \in Burning
      BY <2>2, <1>2, <1>3, <1>7, <1>9, <1>10, <1>13 DEF Advances
    <3>3. HasUnfinished(World, g)
      BY <3>1, <3>2, BurningSays DEF FireInv
    <3>4. HasUnfinished(opened, g)
      BY <2>2, <3>3, <1>6, WorldFields DEF HasUnfinished
    <3> QED
      BY <3>4, <1>9, <1>10, <1>13 DEF Advances
  <2> QED
    BY <2>1, <2>2
<1>14. BurningHasMission'
  BY <1>10, <1>13 DEF BurningHasMission, HasUnfinished, World, Burning, ToSet
<1>15. ASSUME NEW g \in Fire, IsRunning(w, g)
       PROVE  IsRunning(World, g)
  BY <1>5, <1>6, <1>9, <1>15, WorldFields DEF Advances, IsRunning
<1>16. RunningWasAnswered'
  BY <1>7, <1>9, <1>10, <1>15, RunningKept DEF Advances
<1>17. BusyKept
  <2>1. Available(opened) = Available(World)
    BY <1>7, WorldFields DEF Available
  <2>2. CASE Available(World) = {}
    BY <2>2 DEF BusyKept
  <2>3. CASE Available(World) # {}
    <3>1. Books(opened, w)
      BY <2>1, <2>3, <1>8, <1>9 DEF Books
    <3> QED
      BY <3>1, <1>1, <1>7, IdleBooked
  <2> QED
    BY <2>2, <2>3
<1>18. Attended
  <2>1. \A g \in Fire : Alone(g) => g = f /\ state[f] = "UNKNOWN"
    BY <1>1, <1>2, <1>3, <1>7, <1>9, <1>10 DEF Alone, Advances
  <2>2. state[f] = "UNKNOWN" => Helped(w, f)
    BY <1>2, <1>8, <1>9 DEF Helped, Available
  <2> QED
    BY <2>1, <2>2, <1>10 DEF Attended
<1> QED
  BY <1>1, <1>11, <1>12, <1>14, <1>16, <1>17, <1>18 DEF FireInv, OthersOK

\* _handle_fire_rekindled: the fire burns again, and the rules are not asked.
LEMMA FireRekindledInv ==
  ASSUME FireInv, NEW f \in Fire, FireRekindled(f)
  PROVE  FireInv' /\ Quiet
<1> DEFINE w == Turn(World, f, "ACTIVE")
<1>1. Become(w) /\ OthersOK /\ rekindled' = rekindled \cup {f}
  BY BoundsKept DEF FireInv, FireRekindled, OthersOK
<1>2. /\ Good(w) /\ w = [World EXCEPT !.state = w.state]
      /\ \A g \in Fire \ {f} : w.state[g] = state[g]
      /\ w.state[f] # "IGNITED"
  <2>1. "ACTIVE" \in FireStates
    BY DEF FireStates
  <2>2. /\ Good(w) /\ w = [World EXCEPT !.state = w.state]
        /\ \A g \in Fire : w.state[g] =
             IF g = f /\ <<World.state[f], "ACTIVE">> \in FIRE_TRANSITIONS THEN "ACTIVE" ELSE World.state[g]
    BY <2>1, TurnGood DEF FireInv
  <2> HIDE DEF w
  <2>3. "ACTIVE" # "IGNITED" /\ state[f] # "IGNITED" /\ World.state = state
    BY WorldFields DEF FireInv
  <2> QED
    BY <2>2, <2>3
<1> HIDE DEF w
<1>3. w.mission = mission /\ w.ledger = ledger
  BY <1>2, WorldFields DEF Good, Worlds
<1>4. World' = w /\ state' = w.state /\ mission' = mission /\ ledger' = ledger
  BY <1>1, <1>2, <1>3, WorldBecomes DEF Good, Become
<1>5. Good(World)'
  BY <1>2, <1>4 DEF Good, FiresOK, MissionsOK, JobsOK
<1>6. BurningHasMission'
  BY <1>1, <1>2, <1>4 DEF FireInv, BurningHasMission
<1>7. RunningWasAnswered'
  BY <1>4 DEF FireInv, RunningWasAnswered
<1>8. Quiet
  <2>1. w.job = job
    BY <1>2, WorldFields DEF Good, Worlds
  <2>2. UnknownKept
    BY <1>2, <1>4 DEF UnknownKept, FireRekindled
  <2> QED
    BY <2>1, <2>2, <1>1, SameJobs DEF Quiet, FireRekindled
<1> QED
  BY <1>1, <1>2, <1>4, <1>5, <1>6, <1>7, <1>8 DEF FireInv, OthersOK

\* An acknowledgement that the commander accepts, and what it does.
LEMMA AckInv ==
  ASSUME FireInv, NEW t \in Trace, NEW ack \in {"RECEIVED", "EXECUTED", "FAILED"}, Ack(t, ack)
  PROVE  FireInv' /\ Quiet
<1> DEFINE r == [World EXCEPT !.ledger[t] = ack]
           n == t[3]
           f == job[n]
           w == AckEffects(r, n, ack)
<1>1. Become(w) /\ OthersOK /\ rekindled' = rekindled
  BY BoundsKept DEF FireInv, Ack, OthersOK
<1>2. n \in Node /\ f \in Fire \cup {NoFire}
  BY WorldFields DEF Trace, Node, FireInv, Good, Worlds
<1>3. ledger[t] # "NONE"
  BY DEF Ack, Tracker!VALID_TRANSITIONS
<1>4. /\ r \in Worlds /\ r.state = state /\ r.nodes = nodes /\ r.mission = mission
      /\ r.current = current /\ r.job = job
      /\ \A s \in Trace : r.ledger[s] = IF s = t THEN ack ELSE ledger[s]
  BY DEF FireInv, Good, Worlds, World, LedgerStatus
<1> HIDE DEF r
<1>5. Good(r)
  <2>1. FiresOK(r) /\ MissionsOK(r)
    BY <1>4, WorldFields DEF FireInv, Good, FiresOK, MissionsOK
  <2>2. ASSUME NEW m \in Node, job[m] # NoFire
        PROVE  state[job[m]] # "UNKNOWN" /\ r.ledger[<<"RESPOND_TO_FIRE", job[m], m>>] # "NONE"
    <3>1. /\ job[m] \in Fire /\ state[job[m]] # "UNKNOWN"
          /\ ledger[<<"RESPOND_TO_FIRE", job[m], m>>] # "NONE"
      BY <2>2, WorldFields DEF FireInv, Good, Worlds, JobsOK
    <3>2. <<"RESPOND_TO_FIRE", job[m], m>> \in Trace
      BY <3>1, RespondTrace
    <3>3. ack # "NONE"
      OBVIOUS
    <3> QED
      BY <3>1, <3>2, <3>3, <1>4
  <2>3. JobsOK(r)
    BY <2>2, <1>4 DEF JobsOK
  <2> QED
    BY <1>4, <2>1, <2>3 DEF Good
<1>6. Advances(World, r)
  BY <1>4, <1>5, WorldFields DEF Advances, HasUnfinished, IsRunning, LedgerStatus
<1>7. dead' \subseteq dead
  BY DEF Ack
<1>8. CASE ack = "FAILED"
  <2>1. w = Release(r, n)
    BY <1>8 DEF AckEffects
  <2>2. Advances(r, w)
    BY <2>1, <1>2, <1>5, ReleaseAdvances
  <2>3. \A l \in Leader : w.job[l] \in {job[l], NoFire}
    <3>1. \A m \in Node : Release(r, n).job[m] \in {r.job[m], NoFire}
      BY <1>2, <1>5, ReleaseGood
    <3> QED
      BY <3>1, <2>1, <1>4 DEF Node
  <2> HIDE DEF w
  <2>4. BusyKept
    BY <2>3, <1>1, SameJobs
  <2> QED
    BY <2>2, <2>4, <1>1, <1>6, <1>7, AdvancesTransitive, QuietStep
<1>9. CASE ack = "EXECUTED" \/ (ack = "RECEIVED" /\ f = NoFire)
  <2>1. w = r
    BY <1>4, <1>9 DEF AckEffects
  <2> HIDE DEF w
  <2>2. BusyKept
    BY <2>1, <1>1, <1>4, SameJobs
  <2> QED
    BY <2>1, <2>2, <1>1, <1>6, <1>7, QuietStep
<1>10. CASE ack = "RECEIVED" /\ f # NoFire
  <2>1. w = MoveMission(r, f, "RUNNING")
    BY <1>4, <1>10 DEF AckEffects
  <2>2. f \in Fire
    BY <1>2, <1>10
  <2>3. /\ Good(w) /\ w = [r EXCEPT !.mission = w.mission]
        /\ \A g \in Fire \ {f} : w.mission[g] = mission[g]
        /\ HasUnfinished(r, f) => HasUnfinished(w, f)
    <3> DEFINE v == MoveMission(r, f, "RUNNING")
    <3>1. "RUNNING" \in {"ASSIGNED", "RUNNING", "PAUSED", "COMPLETED"} /\ "RUNNING" # "COMPLETED"
      OBVIOUS
    <3>2. /\ Good(v) /\ v = [r EXCEPT !.mission = v.mission]
          /\ \A g \in Fire \ {f} : v.mission[g] = r.mission[g]
          /\ HasUnfinished(r, f) => HasUnfinished(v, f)
      <4> HIDE DEF f
      <4> QED BY <3>1, <2>2, <1>5, MoveMissionGood
    <3> HIDE DEF v, f
    <3>3. w = v
      BY <2>1 DEF v
    <3> HIDE DEF w
    <3> QED
      BY <3>2, <3>3, <1>4
  <2> HIDE DEF w
  <2>4. w.state = state /\ w.ledger = r.ledger
    BY <1>4, <2>3 DEF Good, Worlds
  <2>5. World' = w /\ state' = state /\ ledger' = r.ledger
    BY <1>1, <2>3, <2>4, WorldBecomes DEF Good, Become
  <2>6. Good(World)'
    BY <2>3, <2>5 DEF Good, FiresOK, MissionsOK, JobsOK
  <2>7. \A g \in Fire : HasUnfinished(World, g) => HasUnfinished(w, g)
    BY <1>4, <2>3, WorldFields DEF HasUnfinished
  <2>8. \A g \in Fire : state'[g] \in Burning /\ g \notin rekindled' => HasUnfinished(w, g)
    BY <1>1, <2>5, <2>7, BurningSays DEF FireInv
  <2>9. BurningHasMission'
    BY <2>5, <2>8 DEF BurningHasMission, HasUnfinished, World, Burning, ToSet
  <2>10. ledger[<<"RESPOND_TO_FIRE", f, n>>] # "NONE"
    BY <1>2, <1>10, WorldFields DEF FireInv, Good, JobsOK
  <2>11. /\ ledger'[<<"RESPOND_TO_FIRE", f, n>>] # "NONE"
         /\ ledger'[t] \in LedgerStatus \ {"ISSUED"}
    BY <2>2, <2>5, <2>10, <1>2, <1>4, <1>10, RespondTrace DEF LedgerStatus
  <2>12. \A s \in Trace :
           /\ ledger[s] # "NONE" => ledger'[s] # "NONE"
           /\ ledger[s] \in LedgerStatus \ {"ISSUED"} => ledger'[s] \in LedgerStatus \ {"ISSUED"}
    BY <2>5, <1>4, <1>10 DEF LedgerStatus
  <2>13. \A g \in Fire \ {f} : IsRunning(w, g) => IsRunning(World, g)
    BY <2>3, WorldFields DEF IsRunning
  <2>14. RunningWasAnswered'
    BY <1>2, <2>5, <2>11, <2>12, <2>13, RunningKept
  <2>15. Quiet
    <3>1. w.job = job
      BY <1>4, <2>3 DEF Good, Worlds
    <3>2. BusyKept
      BY <3>1, <1>1, SameJobs
    <3> QED
      BY <3>2, <2>5, <1>7 DEF Quiet, UnknownKept
  <2> QED
    BY <1>1, <2>5, <2>6, <2>9, <2>14, <2>15 DEF FireInv, OthersOK
<1> QED
  BY <1>8, <1>9, <1>10

\* The operator approves an escalation.
LEMMA ApproveEscalationInv ==
  ASSUME FireInv, NEW f \in Fire, ApproveEscalation(f)
  PROVE  FireInv' /\ Quiet
<1> DEFINE w == [World EXCEPT !.unheard = unheard \cup {f}]
<1>1. /\ w \in Worlds /\ w.state = state /\ w.nodes = nodes /\ w.mission = mission
      /\ w.current = current /\ w.job = job /\ w.ledger = ledger
  BY DEF FireInv, Good, Worlds, World
<1>2. Become(w) /\ OthersOK /\ rekindled' = rekindled
  BY DEF FireInv, ApproveEscalation, OthersOK, Become, World, fireVars, missionVars, nodeVars
<1> HIDE DEF w
<1>3. Good(w)
  BY <1>1, WorldFields DEF FireInv, Good, FiresOK, MissionsOK, JobsOK
<1>4. Advances(World, w)
  BY <1>1, <1>3, WorldFields DEF Advances, HasUnfinished, IsRunning
<1>5. BusyKept /\ dead' \subseteq dead
  BY <1>1, <1>2, SameJobs DEF ApproveEscalation, nodeVars
<1> QED
  BY <1>2, <1>4, <1>5, QuietStep

\* A mission that is over is evicted, and the index entry of its fire goes.
LEMMA EvictMissionInv ==
  ASSUME FireInv, NEW f \in Fire, EvictMission(f)
  PROVE  FireInv' /\ Quiet
<1>1. PICK i \in DOMAIN mission[f] :
        /\ mission[f][i] = "COMPLETED"
        /\ mission' = [mission EXCEPT ![f][i] = "EVICTED"]
  BY DEF EvictMission
<1> DEFINE m == [mission[f] EXCEPT ![i] = "EVICTED"]
           w == [World EXCEPT !.mission = [mission EXCEPT ![f] = m], !.current = [current EXCEPT ![f] = 0]]
<1>2. /\ mission \in [Fire -> Seq(MissionState)] /\ current \in [Fire -> Nat]
      /\ mission[f] \in Seq(MissionState)
  BY WorldFields DEF FireInv, Good, Worlds
<1>3. /\ m \in Seq(MissionState) /\ Len(m) = Len(mission[f]) /\ DOMAIN m = DOMAIN mission[f]
      /\ m[i] = "EVICTED" /\ \A j \in DOMAIN m : j # i => m[j] = mission[f][j]
  <2>1. "EVICTED" \in MissionState /\ i \in 1 .. Len(mission[f])
    BY <1>2, LenProperties DEF MissionState
  <2> QED
    BY <2>1, <1>2, ExceptSeq
<1>4. mission' = [mission EXCEPT ![f] = m]
  BY <1>1
<1> HIDE DEF m
<1>5. /\ [mission EXCEPT ![f] = m] \in [Fire -> Seq(MissionState)]
      /\ [current EXCEPT ![f] = 0] \in [Fire -> Nat]
  BY <1>2, <1>3
<1>6. /\ w \in Worlds /\ w.state = state /\ w.nodes = nodes /\ w.job = job /\ w.ledger = ledger
      /\ w.mission = [mission EXCEPT ![f] = m] /\ w.current = [current EXCEPT ![f] = 0]
  BY <1>5 DEF FireInv, Good, Worlds, World
<1>7. Become(w) /\ OthersOK /\ rekindled' = rekindled
  BY <1>4 DEF FireInv, EvictMission, OthersOK, Become, World, fireVars, nodeVars
<1> HIDE DEF w
<1>8. Good(w)
  <2>1. FiresOK(w) /\ JobsOK(w)
    BY <1>6, WorldFields DEF FireInv, Good, FiresOK, JobsOK
  <2>2. \A g \in Fire : w.mission[g] = (IF g = f THEN m ELSE mission[g])
                      /\ w.current[g] = (IF g = f THEN 0 ELSE current[g])
    BY <1>2, <1>6
  <2>3. Len(m) \in Nat
    BY <1>3, LenProperties
  <2>4. MissionsOK(w)
    BY <2>2, <2>3, WorldFields DEF FireInv, Good, MissionsOK
  <2> QED
    BY <2>1, <2>4, <1>6 DEF Good
<1>9. ASSUME NEW g \in Fire
      PROVE  /\ HasUnfinished(World, g) => HasUnfinished(w, g)
             /\ IsRunning(w, g) => IsRunning(World, g)
  <2>1. CASE g = f
    <3>1. w.mission[g] = m /\ World.mission[g] = mission[f]
      BY <2>1, <1>2, <1>6, WorldFields
    <3>2. mission[f][i] \notin Unfinished
      BY <1>1 DEF Unfinished
    <3> QED
      BY <3>1, <3>2, <1>1, <1>3 DEF HasUnfinished, IsRunning
  <2>2. CASE g # f
    BY <2>2, <1>2, <1>6, WorldFields DEF HasUnfinished, IsRunning
  <2> QED
    BY <2>1, <2>2
<1>10. Advances(World, w)
  BY <1>6, <1>8, <1>9, WorldFields DEF Advances
<1>11. BusyKept /\ dead' \subseteq dead
  BY <1>6, <1>7, SameJobs DEF EvictMission, nodeVars
<1> QED
  BY <1>7, <1>10, <1>11, QuietStep

-----------------------------------------------------------------------------
\* The invariant holds when the commander starts.
LEMMA InitInv ==
  Init => FireInv
<1> SUFFICES ASSUME Init PROVE FireInv
  OBVIOUS
<1>1. World \in Worlds
  BY EmptySeq DEF Init, World, Worlds, FireStates, LedgerStatus
<1>2. FiresOK(World) /\ MissionsOK(World) /\ JobsOK(World)
  <2>1. IsInjective(<<>>) /\ Len(<<>>) = 0
    BY DEF IsInjective
  <2> QED
    BY <2>1 DEF Init, World, FiresOK, MissionsOK, JobsOK
<1>3. RunningWasAnswered /\ BurningHasMission
  BY DEF Init, RunningWasAnswered, BurningHasMission, ToSet
<1> QED
  BY <1>1, <1>2, <1>3 DEF Init, FireInv, Good

\* Every step keeps the invariant and is good for the two action properties.
LEMMA NextInv ==
  FireInv /\ [Next]_vars => FireInv' /\ BusyKept /\ Attended
<1> SUFFICES ASSUME FireInv, [Next]_vars PROVE FireInv' /\ BusyKept /\ Attended
  OBVIOUS
<1>0. Quiet => BusyKept /\ Attended
  BY DEF Quiet, UnknownKept, Attended, Alone
<1>1. ASSUME NEW f \in Fire,
             FireDetected(f) \/ FireContainedEvent(f) \/ FireSuppressedEvent(f) \/ FireRekindled(f)
      PROVE  FireInv' /\ BusyKept /\ Attended
  BY <1>0, <1>1, FireDetectedInv, FireContainedInv, FireSuppressedInv, FireRekindledInv
<1>2. ASSUME NEW f \in Fire, NEW s \in Severity, FireIntensity(f, s)
      PROVE  FireInv' /\ BusyKept /\ Attended
  BY <1>0, <1>2, FireIntensityInv
<1>3. ASSUME NEW f \in Fire, NEW report \in Telemetry, SwarmStatus(f, report)
      PROVE  FireInv' /\ BusyKept /\ Attended
  BY <1>0, <1>3, SwarmStatusInv
<1>4. ASSUME NEW f \in Fire, NEW n \in Leader, SwarmElection(f, n)
      PROVE  FireInv' /\ BusyKept /\ Attended
  BY <1>0, <1>4, SwarmElectionInv
<1>5. ASSUME NEW f \in Fire, UnheardTimeout(f) \/ ApproveEscalation(f) \/ EvictMission(f)
      PROVE  FireInv' /\ BusyKept /\ Attended
  BY <1>0, <1>5, UnheardTimeoutInv, ApproveEscalationInv, EvictMissionInv
<1>6. ASSUME NEW n \in Node, AnnounceOffline(n) \/ Announce(n) \/ NodeFailed(n) \/ Heartbeat(n)
      PROVE  FireInv' /\ BusyKept /\ Attended
  BY <1>0, <1>6, AnnounceOfflineInv, AnnounceInv, NodeFailedInv, HeartbeatInv
<1>11. ASSUME CommanderHeard \/ CommanderLost
       PROVE  FireInv' /\ BusyKept /\ Attended
  BY <1>0, <1>11, CommanderInv
<1>7. ASSUME NEW t \in Trace, AckTimeout(t)
      PROVE  FireInv' /\ BusyKept /\ Attended
  BY <1>0, <1>7, AckTimeoutInv
<1>8. ASSUME NEW t \in Trace, NEW ack \in {"RECEIVED", "EXECUTED", "FAILED"}, Ack(t, ack)
      PROVE  FireInv' /\ BusyKept /\ Attended
  BY <1>0, <1>8, AckInv
<1>9. ASSUME NEW f \in again, LookAgain(f)
      PROVE  FireInv' /\ BusyKept /\ Attended
  BY <1>0, <1>9, LookAgainInv DEF FireInv
<1>10. CASE UNCHANGED vars
  <2>1. /\ World' = World /\ state' = state /\ job' = job /\ dead' = dead
        /\ rekindled' = rekindled /\ again' = again /\ events' = events /\ reports' = reports
        /\ ledger' = ledger /\ mission' = mission
    BY <1>10 DEF vars, fireVars, missionVars, nodeVars, World
  <2>2. FireInv'
    BY <2>1 DEF FireInv, Good, FiresOK, MissionsOK, JobsOK, RunningWasAnswered, BurningHasMission
  <2> QED
    BY <2>1, <2>2 DEF BusyKept, Attended, Alone
<1> QED
  BY <1>1, <1>2, <1>3, <1>4, <1>5, <1>6, <1>7, <1>8, <1>9, <1>10, <1>11 DEF Next, Handler

\* The invariant holds in every state.
LEMMA InvHolds == Spec => []FireInv
<1>1. Init => FireInv
  BY InitInv
<1>2. FireInv /\ [Next]_vars => FireInv'
  BY NextInv, Zenon
<1> QED
  BY <1>1, <1>2, PTL DEF Spec

\* The invariant is stronger than TypeOK.
LEMMA InvIsTyped == FireInv => TypeOK
<1> SUFFICES ASSUME FireInv PROVE TypeOK
  OBVIOUS
<1>1. World \in Worlds /\ FiresOK(World) /\ MissionsOK(World)
  BY DEF FireInv, Good
<1>2. /\ state \in [Fire -> FireStates] /\ severity \in [Fire -> Severity]
      /\ nodes \in [Fire -> Seq(Node)] /\ mission \in [Fire -> Seq(MissionState)]
      /\ current \in [Fire -> Nat] /\ status \in [Node -> {"REGISTERED", "ACTIVE", "OFFLINE"}]
      /\ job \in [Node -> Fire \cup {NoFire}] /\ ledger \in [Trace -> {"NONE"} \cup LedgerStatus]
      /\ unheard \subseteq Fire /\ asked \subseteq Fire /\ target \in BOOLEAN
  BY <1>1, WorldFields DEF Worlds
<1>3. state \in [Fire -> {"UNKNOWN", "ACTIVE", "CONTAINED", "SUPPRESSED"}]
  BY <1>2 DEF FireInv, FireStates
<1>4. \A f \in Fire : current[f] <= Len(mission[f]) /\ IsInjective(nodes[f])
  BY <1>1, WorldFields DEF FiresOK, MissionsOK
<1> QED
  BY <1>2, <1>3, <1>4 DEF TypeOK, FireInv

\* Every state of the commander is well typed: the index names a mission that
\* is there, and no fire lists a leader twice.
THEOREM TypeCorrect == Spec => []TypeOK
  BY InvHolds, InvIsTyped, PTL

\* No mission is RUNNING unless a node that was sent to its fire has answered a
\* command.
THEOREM RunningMeansAnswered == Spec => []RunningWasAnswered
<1>1. FireInv => RunningWasAnswered
  BY DEF FireInv
<1> QED
  BY <1>1, InvHolds, PTL

\* A fire that burns and did not flare up after its last mission has one that
\* is not over.
THEOREM BurningIsServed == Spec => []BurningHasMission
<1>1. FireInv => BurningHasMission
  BY DEF FireInv
<1> QED
  BY <1>1, InvHolds, PTL

\* A new fire, and a fire whose leader is declared dead, has an active leader
\* after the same step; or nobody is free, and the operator has been asked or no
\* commander was there to ask.
THEOREM HelpSought == Spec => HelpIsSought
<1>1. FireInv /\ [Next]_vars => Attended
  BY NextInv, Zenon
<1>2. Attended =>
        LET helped(f) ==
              \/ \E i \in DOMAIN nodes'[f] : status'[nodes'[f][i]] = "ACTIVE"
              \/ Available(World)' = {} /\ (target' => f \in asked')
        IN \A f \in Fire :
             \/ state[f] = "UNKNOWN" /\ state'[f] # "UNKNOWN"
             \/ \E l \in Leader : l \in dead' \ dead /\ job[l] = f /\ state[f] # "SUPPRESSED"
             => helped(f)
  <2>1. \A f \in Fire : Helped(World', f) =>
          \/ \E i \in DOMAIN nodes'[f] : status'[nodes'[f][i]] = "ACTIVE"
          \/ Available(World') = {} /\ (target' => f \in asked')
    BY DEF Helped, ToSet, World
  <2>2. Available(World)' = Available(World')
    BY DEF Available
  <2> QED
    BY <2>1, <2>2 DEF Attended, Alone
<1>3. FireInv /\ [Next]_vars =>
        [LET helped(f) ==
              \/ \E i \in DOMAIN nodes'[f] : status'[nodes'[f][i]] = "ACTIVE"
              \/ Available(World)' = {} /\ (target' => f \in asked')
         IN \A f \in Fire :
             \/ state[f] = "UNKNOWN" /\ state'[f] # "UNKNOWN"
             \/ \E l \in Leader : l \in dead' \ dead /\ job[l] = f /\ state[f] # "SUPPRESSED"
             => helped(f)]_vars
  BY <1>1, <1>2
<1> QED
  BY <1>3, InvHolds, PTL DEF Spec, HelpIsSought

\* A leader at work is given another fire only if no leader is free, or a
\* command of its own was left unanswered.
THEOREM BusyLeadersStay == Spec => BusyLeaderKept
<1>1. FireInv /\ [Next]_vars => BusyKept
  BY NextInv, Zenon
<1>2. FireInv /\ [Next]_vars =>
        [\A l \in Leader :
           job[l] # NoFire /\ job'[l] \notin {job[l], NoFire} =>
             \/ Available(World) = {}
             \/ \E t \in Trace : t[3] = l /\ ledger[t] = "ISSUED"]_vars
  BY <1>1 DEF BusyKept
<1> QED
  BY <1>2, InvHolds, PTL DEF Spec, BusyLeaderKept
=============================================================================
