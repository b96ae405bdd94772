------------------------- MODULE AckProtocolProofs -------------------------
(***************************************************************************)
(* Proofs about AckProtocol, for every set of commands and nodes and every *)
(* bound on sends and faults.                                              *)
(***************************************************************************)
EXTENDS AckProtocol, SequenceTheorems, TLAPS

-----------------------------------------------------------------------------
(* What the operations on a queue do to its contents.                      *)

Items(s) == { s[i] : i \in DOMAIN s }

\* Taking the head of a queue, or dropping it.
LEMMA TailItems ==
  ASSUME NEW S, NEW s \in Seq(S), s # <<>>
  PROVE  /\ Tail(s) \in Seq(S) /\ Items(Tail(s)) \subseteq Items(s)
         /\ Head(s) \in S /\ Head(s) \in Items(s)
BY DEF Items

\* Adding a message at the end, possibly one that is already there.
LEMMA AppendItems ==
  ASSUME NEW S, NEW s \in Seq(S), NEW e \in S
  PROVE  Append(s, e) \in Seq(S) /\ Items(Append(s, e)) \subseteq Items(s) \cup {e}
BY DEF Items

\* Adding several messages at the end: nothing else comes in, nothing gets lost.
LEMMA ConcatItems ==
  ASSUME NEW S, NEW s \in Seq(S), NEW u \in Seq(S)
  PROVE  s \o u \in Seq(S) /\ Items(s \o u) = Items(s) \cup Items(u)
<1>1. \A q : Items(q) = Range(q)
  BY DEF Items, Range
<1>2. s \o u \in Seq(S)
  BY ConcatProperties
<1>3. Range(s \o u) = Range(s) \cup Range(u)
  BY RangeConcatenation
<1> QED BY <1>1, <1>2, <1>3

\* Keeping only the messages that left the client.
LEMMA PrefixItems ==
  ASSUME NEW S, NEW s \in Seq(S), NEW k \in 0 .. Len(s)
  PROVE  SubSeq(s, 1, k) \in Seq(S) /\ Items(SubSeq(s, 1, k)) \subseteq Items(s)
BY DEF Items

\* A message of the queue delivered once more.
LEMMA RepeatItems ==
  ASSUME NEW S, NEW s \in Seq(S), NEW i \in DOMAIN s
  PROVE  Append(s, s[i]) \in Seq(S) /\ Items(Append(s, s[i])) \subseteq Items(s)
<1>1. s[i] \in S /\ s[i] \in Items(s)
  BY DEF Items
<1> QED BY <1>1, AppendItems

\* Queues of no, one and two messages.
LEMMA ShortItems ==
  /\ \A S : <<>> \in Seq(S) /\ Items(<<>>) = {}
  /\ \A S : \A a \in S : <<a>> \in Seq(S) /\ Items(<<a>>) = {a}
  /\ \A S : \A a, b \in S : <<a, b>> \in Seq(S) /\ Items(<<a, b>>) = {a, b}
BY DEF Items

-----------------------------------------------------------------------------
(* Type correctness                                                        *)

\* The tracker's operations keep the ledger well typed.
LEMMA TrackerTypes ==
  ASSUME TrackerTypeOK, NEW t \in Trace
  PROVE  /\ Create(t) => TrackerTypeOK'
         /\ CreateThenDie(t) => TrackerTypeOK'
         /\ Restart => TrackerTypeOK'
         /\ \A s \in AckStatus :
              Update(t, s, <<t, s>>) \/ UpdateThenDie(t, s, <<t, s>>) => TrackerTypeOK'
         /\ Update(t, "COMMAND_ACK_FAILED", NoEventId) => UNCHANGED trackerVars
<1>1. Create(t) \/ CreateThenDie(t) \/ Restart => TrackerTypeOK'
  BY DEF TrackerTypeOK, Create, CreateThenDie, Restart, Hydrate
<1>2. ASSUME NEW s \in AckStatus, Update(t, s, <<t, s>>) \/ UpdateThenDie(t, s, <<t, s>>)
      PROVE  TrackerTypeOK'
  BY <1>2 DEF TrackerTypeOK, Update, UpdateThenDie, Hydrate, EventId
<1>3. ASSUME Update(t, "COMMAND_ACK_FAILED", NoEventId)
      PROVE  UNCHANGED trackerVars
  BY <1>3 DEF TrackerTypeOK, Update, Fresh, Accepts, trackerVars
<1> QED BY <1>1, <1>2, <1>3

LEMMA TrackerIdle ==
  TrackerTypeOK /\ UNCHANGED trackerVars => TrackerTypeOK'
BY DEF TrackerTypeOK, trackerVars

\* The acknowledgement at the head of a stream is an event id.
LEMMA HeadAck ==
  ASSUME TypeOK, NEW n \in Node, ackq[n] # <<>>
  PROVE  \E t \in Trace, s \in AckStatus :
           Head(ackq[n]) = <<t, s>> /\ Head(ackq[n])[1] = t /\ Head(ackq[n])[2] = s
<1>1. Head(ackq[n]) \in EventId
  BY TailItems DEF TypeOK
<1> QED BY <1>1 DEF EventId

\* Publishing keeps the streams well typed and adds only what is published.
LEMMA PublishItems ==
  ASSUME TypeOK, NEW n \in Node, NEW acks \in Seq(EventId), Publish(n, acks)
  PROVE  /\ ackq' \in [Node -> Seq(EventId)]
         /\ \A m \in Node : Items(ackq'[m]) \subseteq Items(ackq[m]) \cup Items(acks)
<1>1. ackq[n] \o acks \in Seq(EventId) /\ Items(ackq[n] \o acks) \subseteq Items(ackq[n]) \cup Items(acks)
  BY ConcatItems DEF TypeOK
<1>2. ackq' = [ackq EXCEPT ![n] = ackq[n] \o acks]
  BY DEF Publish
<1> QED BY <1>1, <1>2 DEF TypeOK

LEMMA TypeStep ==
  ASSUME TypeOK, [Next]_vars
  PROVE  TypeOK'
<1> USE ProtocolAssumption
<1>1. ASSUME NEW t \in Trace, Send(t)
      PROVE  TypeOK'
  <2>1. TrackerTypeOK'
    BY <1>1, TrackerTypes DEF TypeOK, Send
  <2>2. Append(cmdq[Target[t]], t) \in Seq(Trace)
    BY AppendItems DEF TypeOK
  <2> QED BY <1>1, <2>1, <2>2 DEF TypeOK, Send, nodeVars
<1>2. ASSUME NEW t \in Trace, SendThenDie(t)
      PROVE  TypeOK'
  <2>1. TrackerTypeOK'
    BY <1>2, TrackerTypes DEF TypeOK, SendThenDie
  <2> QED BY <1>2, <2>1, ShortItems DEF TypeOK, SendThenDie, Fault, MissAcks, nodeVars
<1>3. ASSUME NEW t \in Trace, Sweep(t)
      PROVE  TypeOK'
  <2>1. UNCHANGED trackerVars
    BY <1>3, TrackerTypes DEF TypeOK, Sweep
  <2> QED BY <1>3, <2>1 DEF TypeOK, TrackerTypeOK, Sweep, trackerVars, nodeVars
<1>4. CASE CommanderRestart
  <2>1. TrackerTypeOK'
    BY <1>4 DEF TypeOK, TrackerTypeOK, CommanderRestart, Restart, Hydrate
  <2> QED BY <1>4, <2>1, ShortItems DEF TypeOK, CommanderRestart, Fault, MissAcks, nodeVars
<1>5. ASSUME NEW n \in Node, HandleAck(n) \/ HandleAckThenDie(n)
      PROVE  TypeOK'
  <2>1. ackq[n] # <<>> /\ ackq' = [ackq EXCEPT ![n] = Tail(ackq[n])]
    BY <1>5 DEF HandleAck, HandleAckThenDie
  <2>2. PICK t \in Trace, s \in AckStatus :
          Head(ackq[n]) = <<t, s>> /\ Head(ackq[n])[1] = t /\ Head(ackq[n])[2] = s
    BY <2>1, HeadAck
  <2>3. TrackerTypeOK'
    <3>1. Update(t, s, <<t, s>>) \/ UpdateThenDie(t, s, <<t, s>>)
      BY <1>5, <2>2 DEF HandleAck, HandleAckThenDie
    <3> QED BY <3>1, TrackerTypes DEF TypeOK
  <2>4. Tail(ackq[n]) \in Seq(EventId)
    BY <2>1, TailItems DEF TypeOK
  <2> QED BY <1>5, <2>1, <2>3, <2>4 DEF TypeOK, HandleAck, HandleAckThenDie, Fault, nodeVars
<1>6. ASSUME NEW n \in Node, NodeStep(n)
      PROVE  TypeOK'
  <2>1. cmdq[n] # <<>> => Tail(cmdq[n]) \in Seq(Trace)
    BY TailItems DEF TypeOK
  <2>2. \A t \in Trace : /\ << <<t, "RECEIVED">> >> \in Seq(EventId)
                         /\ << <<t, "EXECUTED">> >> \in Seq(EventId)
                         /\ << <<t, "FAILED">> >> \in Seq(EventId)
                         /\ << <<t, "RECEIVED">>, <<t, "EXECUTED">> >> \in Seq(EventId)
    BY ShortItems DEF EventId, AckStatus
  <2>3. ackq' \in [Node -> Seq(EventId)]
    BY <1>6, <2>2, PublishItems DEF NodeStep, RepeatAck, SkipUnknown, Take, Succeed, Raise
  <2>4. UNCHANGED <<trackerVars, swept, sends, faults>>
    BY <1>6 DEF NodeStep, RepeatAck, SkipUnknown, Take, Succeed, Raise
  <2>5. cmdq' \in [Node -> Seq(Trace)]
    <3>1. \/ UNCHANGED cmdq
          \/ cmdq[n] # <<>> /\ cmdq' = [cmdq EXCEPT ![n] = Tail(cmdq[n])]
      BY <1>6 DEF NodeStep, RepeatAck, SkipUnknown, Take, Succeed, Raise, Incoming, Consume
    <3> QED
      BY <2>1, <3>1 DEF TypeOK
  <2>6. /\ busy' \in [Node -> Trace \cup {Idle}]
        /\ handled' \in [Node -> SUBSET Trace]
        /\ did' \subseteq EventId
        /\ runs' \in [Trace -> Nat]
    <3>1. CASE RepeatAck(n)
      BY <3>1 DEF TypeOK, RepeatAck, nodeVars
    <3>2. CASE SkipUnknown(n)
      BY <3>2 DEF TypeOK, SkipUnknown, EventId, AckStatus
    <3>3. CASE Take(n)
      BY <3>3 DEF TypeOK, Take, EventId, AckStatus
    <3>4. CASE Succeed(n)
      <4>1. PICK t \in Trace : /\ busy' = [busy EXCEPT ![n] = Idle]
                               /\ handled' = [handled EXCEPT ![n] = @ \cup {t}]
                               /\ did' = did \cup { <<t, "EXECUTED">> }
                               /\ runs' = [runs EXCEPT ![t] = @ + 1]
        BY <3>4 DEF Succeed
      <4>2. /\ handled' \in [Node -> SUBSET Trace]
            /\ did' \subseteq EventId
        BY <4>1 DEF TypeOK, EventId, AckStatus
      <4>3. busy' \in [Node -> Trace \cup {Idle}] /\ runs' \in [Trace -> Nat]
        BY <4>1 DEF TypeOK
      <4> QED BY <4>2, <4>3
    <3>5. CASE Raise(n)
      BY <3>5 DEF TypeOK, Raise, EventId, AckStatus
    <3> QED BY <1>6, <3>1, <3>2, <3>3, <3>4, <3>5 DEF NodeStep
  <2> QED BY <2>3, <2>4, <2>5, <2>6 DEF TypeOK, TrackerTypeOK, trackerVars
<1>7. ASSUME NEW n \in Node, NodeCrash(n)
      PROVE  TypeOK'
  <2>1. ackq' \in [Node -> Seq(EventId)]
    BY <1>7, PrefixItems DEF TypeOK, NodeCrash
  <2>2. did' \subseteq EventId
    BY <1>7 DEF TypeOK, NodeCrash, EventId, AckStatus
  <2>3. cmdq' \in [Node -> Seq(Trace)]
    BY <1>7, ShortItems DEF TypeOK, NodeCrash
  <2>4. TrackerTypeOK'
    BY <1>7 DEF TypeOK, TrackerTypeOK, NodeCrash, trackerVars
  <2> QED BY <1>7, <2>1, <2>2, <2>3, <2>4 DEF TypeOK, NodeCrash, Fault
<1>8. ASSUME NEW n \in Node, LoseCommand(n) \/ LoseAck(n)
      PROVE  TypeOK'
  <2>1. /\ cmdq[n] # <<>> => Tail(cmdq[n]) \in Seq(Trace)
        /\ ackq[n] # <<>> => Tail(ackq[n]) \in Seq(EventId)
    BY TailItems DEF TypeOK
  <2>2. CASE LoseCommand(n)
    BY <2>1, <2>2 DEF TypeOK, TrackerTypeOK, LoseCommand, Fault, trackerVars, nodeVars
  <2>3. CASE LoseAck(n)
    BY <2>1, <2>3 DEF TypeOK, TrackerTypeOK, LoseAck, Fault, trackerVars, nodeVars
  <2> QED BY <1>8, <2>2, <2>3
<1>9. ASSUME NEW n \in Node, RepeatCommand(n) \/ RepeatPublishedAck(n)
      PROVE  TypeOK'
  <2>1. /\ \A i \in DOMAIN cmdq[n] : Append(cmdq[n], cmdq[n][i]) \in Seq(Trace)
        /\ \A i \in DOMAIN ackq[n] : Append(ackq[n], ackq[n][i]) \in Seq(EventId)
    BY AppendItems DEF TypeOK
  <2>2. CASE RepeatCommand(n)
    <3>1. PICK i \in DOMAIN cmdq[n] : cmdq' = [cmdq EXCEPT ![n] = Append(cmdq[n], cmdq[n][i])]
      BY <2>2 DEF RepeatCommand
    <3>2. cmdq' \in [Node -> Seq(Trace)]
      BY <2>1, <3>1 DEF TypeOK
    <3>3. UNCHANGED <<trackerVars, ackq, nodeVars, swept, sends>> /\ faults' = faults + 1
      BY <2>2 DEF RepeatCommand, Fault
    <3>4. TrackerTypeOK'
      BY <3>3, TrackerIdle DEF TypeOK
    <3>5. /\ UNCHANGED <<busy, handled, did, runs, swept, sends>>
          /\ faults' \in Nat
      BY <3>3 DEF TypeOK, nodeVars
    <3> QED BY <3>2, <3>3, <3>4, <3>5 DEF TypeOK
  <2>3. CASE RepeatPublishedAck(n)
    <3>1. PICK i \in DOMAIN ackq[n] : ackq' = [ackq EXCEPT ![n] = Append(ackq[n], ackq[n][i])]
      BY <2>3 DEF RepeatPublishedAck
    <3>2. ackq' \in [Node -> Seq(EventId)]
      BY <2>1, <3>1 DEF TypeOK
    <3>3. UNCHANGED <<trackerVars, cmdq, nodeVars, swept, sends>> /\ faults' = faults + 1
      BY <2>3 DEF RepeatPublishedAck, Fault
    <3>4. TrackerTypeOK'
      BY <3>3, TrackerIdle DEF TypeOK
    <3>5. /\ UNCHANGED <<busy, handled, did, runs, swept, sends>>
          /\ faults' \in Nat
      BY <3>3 DEF TypeOK, nodeVars
    <3> QED BY <3>2, <3>3, <3>4, <3>5 DEF TypeOK
  <2> QED BY <1>9, <2>2, <2>3
<1>10. CASE UNCHANGED vars
  BY <1>10 DEF TypeOK, TrackerTypeOK, vars, trackerVars, nodeVars
<1> QED BY <1>1, <1>2, <1>3, <1>4, <1>5, <1>6, <1>7, <1>8, <1>9, <1>10 DEF Next

\* Every variable keeps its type in every behaviour of the protocol.
THEOREM TypeCorrect == Spec => []TypeOK
<1>1. Init => TypeOK
  BY ProtocolAssumption, ShortItems DEF Init, TrackerInit, TypeOK, TrackerTypeOK
<1>2. TypeOK /\ [Next]_vars => TypeOK'
  BY TypeStep
<1> QED BY <1>1, <1>2, PTL DEF Spec

-----------------------------------------------------------------------------
(* The ledger tells the truth                                              *)

\* Whatever claims something about a command speaks of what was done: the
\* ledger, the acknowledgements on their way, the nodes' memories.  The ledger
\* alone is not inductive: it believes the acknowledgements, and a repeated
\* acknowledgement is made from a node's memory.
AcksTrue == \A n \in Node : Items(ackq[n]) \subseteq did
MemoryTrue == \A n \in Node : \A t \in handled[n] : <<t, "EXECUTED">> \in did
Truth == AcksTrue /\ MemoryTrue /\ LedgerTellsTruth

\* The ledger moves only to what an acknowledgement says, so it stays true if
\* what the field did is never forgotten and the acknowledgement is true.
LEMMA LedgerStep ==
  ASSUME TypeOK, LedgerTellsTruth, did \subseteq did',
         NEW t \in Trace, NEW s \in AckStatus, <<t, s>> \in did,
         Update(t, s, <<t, s>>) \/ UpdateThenDie(t, s, <<t, s>>)
  PROVE  LedgerTellsTruth'
BY DEF TypeOK, TrackerTypeOK, LedgerTellsTruth, Update, UpdateThenDie

\* No step of a node makes it claim what it has not done.
LEMMA NodeTruth ==
  ASSUME TypeOK, Truth, NEW n \in Node, NodeStep(n)
  PROVE  Truth'
<1> DEFINE Claims(acks) == acks \in Seq(EventId) /\ Publish(n, acks) /\ Items(acks) \subseteq did'
<1>1. ASSUME NEW acks, Claims(acks), did \subseteq did'
      PROVE  AcksTrue'
  BY <1>1, PublishItems DEF Truth, AcksTrue
<1>2. \A t \in Trace : <<t, "RECEIVED">> \in EventId /\ <<t, "EXECUTED">> \in EventId
                       /\ <<t, "FAILED">> \in EventId
  BY DEF EventId, AckStatus
<1>3. ASSUME UNCHANGED status, did \subseteq did'
      PROVE  LedgerTellsTruth'
  BY <1>3 DEF Truth, LedgerTellsTruth
<1>4. CASE RepeatAck(n)
  <2>1. PICK t \in Trace : t \in handled[n] /\ Publish(n, << <<t, "EXECUTED">> >>)
    BY <1>4 DEF RepeatAck
  <2>2. UNCHANGED <<did, handled, status>>
    BY <1>4 DEF RepeatAck, trackerVars, nodeVars
  <2>3. <<t, "EXECUTED">> \in did'
    BY <2>1, <2>2 DEF Truth, MemoryTrue
  <2> DEFINE e == <<t, "EXECUTED">>
  <2>4. Claims(<<e>>)
    <3>1. e \in EventId /\ e \in did' /\ Publish(n, <<e>>)
      BY <1>2, <2>1, <2>3
    <3> HIDE DEF e
    <3> QED BY <3>1, ShortItems
  <2>5. AcksTrue'
    BY <1>1, <2>2, <2>4
  <2>6. MemoryTrue' /\ LedgerTellsTruth'
    BY <1>3, <2>2 DEF Truth, MemoryTrue
  <2> QED BY <2>5, <2>6 DEF Truth
<1>5. CASE SkipUnknown(n)
  <2>1. PICK t \in Trace : /\ did' = did \cup { <<t, "RECEIVED">>, <<t, "EXECUTED">> }
                           /\ Publish(n, << <<t, "RECEIVED">>, <<t, "EXECUTED">> >>)
    BY <1>5 DEF SkipUnknown
  <2>2. UNCHANGED <<handled, status>>
    BY <1>5 DEF SkipUnknown, trackerVars
  <2> DEFINE both == << <<t, "RECEIVED">>, <<t, "EXECUTED">> >>
  <2>3. both \in Seq(EventId) /\ Items(both) = { <<t, "RECEIVED">>, <<t, "EXECUTED">> }
    <3> DEFINE r == <<t, "RECEIVED">>
               e == <<t, "EXECUTED">>
    <3>1. r \in EventId /\ e \in EventId
      BY <1>2
    <3>2. <<r, e>> \in Seq(EventId) /\ Items(<<r, e>>) = {r, e}
      <4> HIDE DEF r, e
      <4> QED BY <3>1, ShortItems
    <3> QED BY <3>2
  <2>4. Claims(both)
    BY <2>1, <2>3
  <2>5. AcksTrue'
    BY <1>1, <2>1, <2>2, <2>4
  <2>6. MemoryTrue' /\ LedgerTellsTruth'
    BY <1>3, <2>1, <2>2 DEF Truth, MemoryTrue
  <2> QED BY <2>5, <2>6 DEF Truth
<1>6. CASE Take(n)
  <2>1. PICK t \in Trace : /\ did' = did \cup { <<t, "RECEIVED">> }
                           /\ Publish(n, << <<t, "RECEIVED">> >>)
    BY <1>6 DEF Take
  <2>2. UNCHANGED <<handled, status>>
    BY <1>6 DEF Take, trackerVars
  <2>3. Claims(<< <<t, "RECEIVED">> >>)
    BY <1>2, <2>1, ShortItems
  <2> QED BY <1>1, <1>3, <2>1, <2>2, <2>3 DEF Truth, MemoryTrue
<1>7. CASE Succeed(n)
  <2>1. PICK t \in Trace : /\ did' = did \cup { <<t, "EXECUTED">> }
                           /\ handled' = [handled EXCEPT ![n] = @ \cup {t}]
                           /\ Publish(n, << <<t, "EXECUTED">> >>)
    BY <1>7 DEF Succeed
  <2>2. UNCHANGED status
    BY <1>7 DEF Succeed, trackerVars
  <2>3. Claims(<< <<t, "EXECUTED">> >>)
    BY <1>2, <2>1, ShortItems
  <2>4. MemoryTrue'
    BY <2>1 DEF TypeOK, Truth, MemoryTrue
  <2> QED BY <1>1, <1>3, <2>1, <2>2, <2>3, <2>4 DEF Truth
<1>8. CASE Raise(n)
  <2>1. PICK t \in Trace : /\ did' = did \cup { <<t, "FAILED">> }
                           /\ Publish(n, << <<t, "FAILED">> >>)
    BY <1>8 DEF Raise
  <2>2. UNCHANGED <<handled, status>>
    BY <1>8 DEF Raise, trackerVars
  <2>3. Claims(<< <<t, "FAILED">> >>)
    BY <1>2, <2>1, ShortItems
  <2> QED BY <1>1, <1>3, <2>1, <2>2, <2>3 DEF Truth, MemoryTrue
<1> QED BY <1>4, <1>5, <1>6, <1>7, <1>8 DEF NodeStep

LEMMA TruthStep ==
  ASSUME TypeOK, Truth, [Next]_vars
  PROVE  Truth'
<1> USE ProtocolAssumption
<1>1. ASSUME NEW t \in Trace, Send(t) \/ Sweep(t)
      PROVE  Truth'
  <2>1. UNCHANGED <<ackq, handled, did>>
    BY <1>1 DEF Send, Sweep, nodeVars
  <2>2. LedgerTellsTruth'
    <3>1. CASE Send(t)
      BY <3>1, <2>1 DEF TypeOK, TrackerTypeOK, Truth, LedgerTellsTruth, Send, Create, AckStatus
    <3>2. CASE Sweep(t)
      BY <3>2, <2>1, TrackerTypes DEF TypeOK, Truth, LedgerTellsTruth, Sweep, trackerVars
    <3> QED BY <1>1, <3>1, <3>2
  <2> QED BY <2>1, <2>2 DEF Truth, AcksTrue, MemoryTrue
<1>2. ASSUME MissAcks, UNCHANGED <<handled, did>>
      PROVE  AcksTrue' /\ MemoryTrue'
  BY <1>2, ShortItems DEF TypeOK, Truth, AcksTrue, MemoryTrue, MissAcks
<1>3. ASSUME NEW t \in Trace, SendThenDie(t)
      PROVE  Truth'
  <2>1. LedgerTellsTruth'
    BY <1>3 DEF TypeOK, TrackerTypeOK, Truth, LedgerTellsTruth, SendThenDie, CreateThenDie,
                AckStatus, nodeVars
  <2> QED BY <1>2, <1>3, <2>1 DEF Truth, SendThenDie, nodeVars
<1>4. CASE CommanderRestart
  BY <1>2, <1>4 DEF Truth, LedgerTellsTruth, CommanderRestart, Restart, nodeVars
<1>5. ASSUME NEW n \in Node, HandleAck(n) \/ HandleAckThenDie(n)
      PROVE  Truth'
  <2>1. ackq[n] # <<>> /\ ackq' = [ackq EXCEPT ![n] = Tail(ackq[n])] /\ UNCHANGED <<handled, did>>
    BY <1>5 DEF HandleAck, HandleAckThenDie, nodeVars
  <2>2. PICK t \in Trace, s \in AckStatus :
          Head(ackq[n]) = <<t, s>> /\ Head(ackq[n])[1] = t /\ Head(ackq[n])[2] = s
    BY <2>1, HeadAck
  <2>3. /\ Items(Tail(ackq[n])) \subseteq Items(ackq[n])
        /\ Head(ackq[n]) \in Items(ackq[n])
    BY <2>1, TailItems DEF TypeOK
  <2>4. LedgerTellsTruth'
    <3>1. Update(t, s, <<t, s>>) \/ UpdateThenDie(t, s, <<t, s>>)
      BY <1>5, <2>2 DEF HandleAck, HandleAckThenDie
    <3>2. <<t, s>> \in did
      BY <2>2, <2>3 DEF Truth, AcksTrue
    <3> QED BY <2>1, <3>1, <3>2, LedgerStep DEF Truth
  <2> QED BY <2>1, <2>3, <2>4 DEF TypeOK, Truth, AcksTrue, MemoryTrue
<1>6. ASSUME NEW n \in Node, NodeCrash(n)
      PROVE  Truth'
  <2>1. did \subseteq did' /\ UNCHANGED status
    BY <1>6 DEF NodeCrash, trackerVars
  <2>2. PICK k \in 0 .. Len(ackq[n]) : ackq' = [ackq EXCEPT ![n] = SubSeq(@, 1, k)]
    BY <1>6 DEF NodeCrash
  <2>3. AcksTrue'
    BY <2>1, <2>2, PrefixItems DEF TypeOK, Truth, AcksTrue
  <2>4. MemoryTrue'
    BY <1>6, <2>1 DEF TypeOK, Truth, MemoryTrue, NodeCrash
  <2> QED BY <2>1, <2>3, <2>4 DEF Truth, LedgerTellsTruth
<1>7. ASSUME NEW n \in Node, LoseCommand(n) \/ LoseAck(n) \/ RepeatCommand(n) \/ RepeatPublishedAck(n)
      PROVE  Truth'
  <2>1. UNCHANGED <<handled, did, status>>
    BY <1>7 DEF LoseCommand, LoseAck, RepeatCommand, RepeatPublishedAck, trackerVars, nodeVars
  <2>2. \A m \in Node : Items(ackq'[m]) \subseteq Items(ackq[m])
    <3>1. CASE LoseCommand(n) \/ RepeatCommand(n)
      BY <3>1 DEF LoseCommand, RepeatCommand
    <3>2. CASE LoseAck(n)
      BY <3>2, TailItems DEF TypeOK, LoseAck
    <3>3. CASE RepeatPublishedAck(n)
      <4>1. PICK i \in DOMAIN ackq[n] : ackq' = [ackq EXCEPT ![n] = Append(ackq[n], ackq[n][i])]
        BY <3>3 DEF RepeatPublishedAck
      <4>2. Items(Append(ackq[n], ackq[n][i])) \subseteq Items(ackq[n])
        BY RepeatItems DEF TypeOK
      <4> QED BY <4>1, <4>2 DEF TypeOK
    <3> QED BY <1>7, <3>1, <3>2, <3>3
  <2> QED BY <2>1, <2>2 DEF Truth, AcksTrue, MemoryTrue, LedgerTellsTruth
<1>8. CASE UNCHANGED vars
  BY <1>8 DEF Truth, AcksTrue, MemoryTrue, LedgerTellsTruth, vars, trackerVars, nodeVars
<1> QED BY <1>1, <1>3, <1>4, <1>5, <1>6, <1>7, <1>8, NodeTruth DEF Next

\* The ledger never says of a command what its node did not do (update() on
\* the acknowledgements of _send_ack), across losses, repetitions and crashes.
THEOREM LedgerIsTrue == Spec => []LedgerTellsTruth
<1>1. Init => Truth
  BY ShortItems DEF Init, TrackerInit, Truth, AcksTrue, MemoryTrue, LedgerTellsTruth, AckStatus
<1>2. TypeOK /\ Truth /\ [Next]_vars => Truth'
  BY TruthStep
<1>3. Truth => LedgerTellsTruth
  BY DEF Truth
<1> QED BY <1>1, <1>2, <1>3, TypeCorrect, PTL DEF Spec

-----------------------------------------------------------------------------
(* The ledger's moves                                                      *)

Decided(t) ==
  /\ status[t] = "NONE"
  /\ status' = [status EXCEPT ![t] = "ISSUED"]
  /\ UNCHANGED history

Applied(t, s) ==
  /\ <<status[t], s>> \in VALID_TRANSITIONS
  /\ status' = [status EXCEPT ![t] = s]
  /\ history' \in {history, history \cup { <<t, s>> }}

\* Every step of the system leaves the ledger alone, registers a command, or
\* applies one valid transition that an acknowledgement on its way asks for.
LEMMA LedgerMoves ==
  ASSUME TypeOK, [Next]_vars
  PROVE  \/ UNCHANGED <<status, history>>
         \/ UNCHANGED did /\ \E t \in Trace : Decided(t)
         \/ /\ UNCHANGED did
            /\ \E n \in Node, t \in Trace, s \in AckStatus :
                 <<t, s>> \in Items(ackq[n]) /\ Applied(t, s)
<1>1. ASSUME NEW t \in Trace, Send(t) \/ SendThenDie(t)
      PROVE  UNCHANGED <<status, history>> \/ (UNCHANGED did /\ Decided(t))
  <2>1. UNCHANGED <<did, history>>
    BY <1>1 DEF Send, SendThenDie, Create, CreateThenDie, nodeVars
  <2>2. status' = [status EXCEPT ![t] = IF @ = "NONE" THEN "ISSUED" ELSE @]
    BY <1>1 DEF Send, SendThenDie, Create, CreateThenDie, Known, TypeOK, TrackerTypeOK
  <2> QED BY <2>1, <2>2 DEF TypeOK, TrackerTypeOK, Decided
<1>2. ASSUME NEW t \in Trace, Sweep(t)
      PROVE  UNCHANGED <<status, history>>
  BY <1>2, TrackerTypes DEF TypeOK, Sweep, trackerVars
<1>3. CASE CommanderRestart
  BY <1>3 DEF CommanderRestart, Restart
<1>4. ASSUME NEW n \in Node, HandleAck(n) \/ HandleAckThenDie(n)
      PROVE  \/ UNCHANGED <<status, history>>
             \/ UNCHANGED did /\ \E t \in Trace, s \in AckStatus :
                                   <<t, s>> \in Items(ackq[n]) /\ Applied(t, s)
  <2>1. ackq[n] # <<>> /\ UNCHANGED did
    BY <1>4 DEF HandleAck, HandleAckThenDie, nodeVars
  <2>2. PICK t \in Trace, s \in AckStatus :
          Head(ackq[n]) = <<t, s>> /\ Head(ackq[n])[1] = t /\ Head(ackq[n])[2] = s
    BY <2>1, HeadAck
  <2>3. <<t, s>> \in Items(ackq[n])
    <3>1. ackq[n] \in Seq(EventId)
      BY DEF TypeOK
    <3>2. Head(ackq[n]) \in Items(ackq[n])
      BY <2>1, <3>1, TailItems
    <3> QED
      BY <2>2, <3>2
  <2>4. Update(t, s, <<t, s>>) \/ UpdateThenDie(t, s, <<t, s>>)
    BY <1>4, <2>2 DEF HandleAck, HandleAckThenDie
  <2>5. UNCHANGED <<status, history>> \/ Applied(t, s)
    BY <2>4 DEF Update, UpdateThenDie, Accepts, Applied, TypeOK, TrackerTypeOK
  <2> QED BY <2>1, <2>3, <2>5
<1>5. ASSUME NEW n \in Node,
             NodeStep(n) \/ NodeCrash(n) \/ LoseCommand(n) \/ LoseAck(n)
               \/ RepeatCommand(n) \/ RepeatPublishedAck(n)
      PROVE  UNCHANGED <<status, history>>
  <2>1. NodeStep(n) => UNCHANGED trackerVars
    BY DEF NodeStep, RepeatAck, SkipUnknown, Take, Succeed, Raise
  <2>2. UNCHANGED trackerVars
    BY <1>5, <2>1 DEF NodeCrash, LoseCommand, LoseAck, RepeatCommand, RepeatPublishedAck
  <2> QED BY <2>2 DEF trackerVars
<1>6. CASE UNCHANGED vars
  BY <1>6 DEF vars, trackerVars
<1> QED BY <1>1, <1>2, <1>3, <1>4, <1>5, <1>6 DEF Next

\* The audit rows and the ledger agree, although update() commits them apart
\* and a crash may come between the two commits.
THEOREM AuditAgrees == Spec => []AuditAgreesWithLedger
<1>1. Init => AuditAgreesWithLedger
  BY DEF Init, TrackerInit, AuditAgreesWithLedger
<1>2. ASSUME TypeOK, AuditAgreesWithLedger, [Next]_vars
      PROVE  AuditAgreesWithLedger'
  <2>1. \A id \in history : id[1] \in Trace /\ id[2] \in AckStatus /\ id = <<id[1], id[2]>>
    BY <1>2 DEF TypeOK, TrackerTypeOK, EventId
  <2>2. ASSUME NEW t \in Trace, Decided(t)
        PROVE  AuditAgreesWithLedger'
    BY <1>2, <2>1, <2>2
       DEF TypeOK, TrackerTypeOK, AuditAgreesWithLedger, Decided, AckStatus, TERMINAL_STATES
  <2>3. ASSUME NEW t \in Trace, NEW s \in AckStatus, Applied(t, s)
        PROVE  AuditAgreesWithLedger'
    <3>1. \/ status[t] = "ISSUED" /\ s = "RECEIVED"
          \/ status[t] = "RECEIVED" /\ s \in TERMINAL_STATES
      BY <2>3 DEF Applied, VALID_TRANSITIONS, TERMINAL_STATES
    <3>2. ASSUME NEW id \in history, id[1] = t
          PROVE  id[2] = "RECEIVED" /\ s \in TERMINAL_STATES
      BY <1>2, <2>1, <3>1, <3>2 DEF AuditAgreesWithLedger, AckStatus, TERMINAL_STATES
    <3>3. status'[t] = s /\ \A u \in Trace \ {t} : status'[u] = status[u]
      BY <1>2, <2>3 DEF TypeOK, TrackerTypeOK, Applied
    <3>4. ASSUME NEW id \in history
          PROVE  \/ status'[id[1]] = id[2]
                 \/ id[2] = "RECEIVED" /\ status'[id[1]] \in TERMINAL_STATES
      <4>1. CASE id[1] = t
        BY <3>2, <3>3, <4>1
      <4>2. CASE id[1] # t
        BY <1>2, <2>1, <3>3, <4>2 DEF AuditAgreesWithLedger
      <4> QED BY <4>1, <4>2
    <3>5. history' = history \/ history' = history \cup { <<t, s>> }
      BY <2>3 DEF Applied
    <3> QED BY <3>3, <3>4, <3>5 DEF AuditAgreesWithLedger
  <2> QED BY <1>2, <2>2, <2>3, LedgerMoves DEF AuditAgreesWithLedger
<1> QED BY <1>1, <1>2, TypeCorrect, PTL DEF Spec

-----------------------------------------------------------------------------
(* At most one successful run per life of a node                           *)

\* What is on its way to a node, or in its hand, is addressed to it and
\* registered with the commander.
Mine(n, t) == t \in Trace /\ Target[t] = n /\ Known(t)
Addressed ==
  /\ \A n \in Node : \A t \in Items(cmdq[n]) : Mine(n, t)
  /\ \A n \in Node : busy[n] # Idle => Mine(n, busy[n])

\* A command in hand is not one remembered as done, and only the remembered
\* ones have run.  AtMostOncePerLife needs both: a run is counted when the
\* command in hand becomes a remembered one.
NotTwice == \A n \in Node : busy[n] \notin handled[n]
RunsRemembered ==
  \A t \in Trace : IF t \in handled[Target[t]] THEN runs[t] <= 1 ELSE runs[t] = 0

LEMMA AddressedStep ==
  ASSUME TypeOK, Addressed, [Next]_vars
  PROVE  Addressed'
<1> USE ProtocolAssumption
<1>1. \A t \in Trace : Known(t) => Known(t)'
  BY LedgerMoves DEF TypeOK, TrackerTypeOK, Known, Decided, Applied, AckStatus
<1>2. ASSUME \A n \in Node : Items(cmdq'[n]) \subseteq Items(cmdq[n]),
             \A n \in Node : busy'[n] \in {Idle, busy[n]} \cup Items(cmdq[n])
      PROVE  Addressed'
  BY <1>1, <1>2 DEF Addressed, Mine
<1>3. ASSUME NEW t \in Trace, Send(t)
      PROVE  Addressed'
  <2>1. Items(Append(cmdq[Target[t]], t)) \subseteq Items(cmdq[Target[t]]) \cup {t}
    BY AppendItems DEF TypeOK
  <2>2. cmdq' = [cmdq EXCEPT ![Target[t]] = Append(@, t)] /\ UNCHANGED busy
    BY <1>3 DEF Send, nodeVars
  <2>3. Known(t)'
    BY <1>3 DEF TypeOK, TrackerTypeOK, Send, Create, Known
  <2> QED BY <1>1, <2>1, <2>2, <2>3 DEF TypeOK, Addressed, Mine
<1>4. ASSUME UNCHANGED <<cmdq, busy>>
      PROVE  Addressed'
  BY <1>2, <1>4
<1>5. ASSUME NEW t \in Trace, SendThenDie(t) \/ Sweep(t)
      PROVE  Addressed'
  BY <1>4, <1>5 DEF SendThenDie, Sweep, nodeVars
<1>6. ASSUME NEW n \in Node, NodeStep(n)
      PROVE  Addressed'
  <2>1. \A m \in Node : Items(cmdq'[m]) \subseteq Items(cmdq[m])
    <3>1. cmdq' = cmdq \/ (cmdq[n] # <<>> /\ cmdq' = [cmdq EXCEPT ![n] = Tail(@)])
      BY <1>6 DEF NodeStep, RepeatAck, SkipUnknown, Take, Succeed, Raise, Incoming, Consume
    <3>2. CASE cmdq[n] # <<>> /\ cmdq' = [cmdq EXCEPT ![n] = Tail(@)]
      <4>1. Items(Tail(cmdq[n])) \subseteq Items(cmdq[n])
        BY <3>2, TailItems DEF TypeOK
      <4> QED BY <3>2, <4>1 DEF TypeOK
    <3> QED BY <3>1, <3>2
  <2>2. \A m \in Node : busy'[m] \in {Idle, busy[m]} \cup Items(cmdq[m])
    <3>1. CASE Take(n)
      <4>1. PICK t \in Trace : Incoming(n, t) /\ busy' = [busy EXCEPT ![n] = t]
        BY <3>1 DEF Take
      <4>2. t \in Items(cmdq[n])
        BY <4>1, TailItems DEF TypeOK, Incoming
      <4> QED BY <4>1, <4>2 DEF TypeOK
    <3>2. CASE RepeatAck(n) \/ SkipUnknown(n)
      BY <3>2 DEF RepeatAck, SkipUnknown, nodeVars
    <3>3. CASE Succeed(n) \/ Raise(n)
      BY <3>3 DEF TypeOK, Succeed, Raise
    <3> QED BY <1>6, <3>1, <3>2, <3>3 DEF NodeStep
  <2> QED BY <1>2, <2>1, <2>2
<1>7. ASSUME NEW n \in Node, NodeCrash(n)
      PROVE  Addressed'
  BY <1>2, <1>7, ShortItems DEF TypeOK, NodeCrash
<1>8. ASSUME NEW n \in Node, LoseCommand(n) \/ RepeatCommand(n)
      PROVE  Addressed'
  <2>1. UNCHANGED busy
    BY <1>8 DEF LoseCommand, RepeatCommand, nodeVars
  <2>2. CASE LoseCommand(n)
    BY <1>2, <2>1, <2>2, TailItems DEF TypeOK, LoseCommand
  <2>3. CASE RepeatCommand(n)
    <3>1. PICK i \in DOMAIN cmdq[n] : cmdq' = [cmdq EXCEPT ![n] = Append(cmdq[n], cmdq[n][i])]
      BY <2>3 DEF RepeatCommand
    <3>2. cmdq[n] \in Seq(Trace)
      BY DEF TypeOK
    <3>3. Items(Append(cmdq[n], cmdq[n][i])) \subseteq Items(cmdq[n])
      BY <3>2, RepeatItems
    <3> QED BY <1>2, <2>1, <3>1, <3>3 DEF TypeOK
  <2> QED BY <1>8, <2>2, <2>3
<1>9. ASSUME NEW n \in Node,
             HandleAck(n) \/ HandleAckThenDie(n) \/ LoseAck(n) \/ RepeatPublishedAck(n)
      PROVE  Addressed'
  BY <1>4, <1>9 DEF HandleAck, HandleAckThenDie, LoseAck, RepeatPublishedAck, nodeVars
<1>10. CASE CommanderRestart \/ UNCHANGED vars
  BY <1>4, <1>10 DEF CommanderRestart, vars, nodeVars
<1> QED BY <1>3, <1>5, <1>6, <1>7, <1>8, <1>9, <1>10 DEF Next

LEMMA OnceStep ==
  ASSUME TypeOK, Addressed, NotTwice, RunsRemembered, [Next]_vars
  PROVE  NotTwice' /\ RunsRemembered'
<1> USE ProtocolAssumption
<1>1. ASSUME UNCHANGED <<busy, handled, runs>>
      PROVE  NotTwice' /\ RunsRemembered'
  BY <1>1 DEF NotTwice, RunsRemembered
<1>2. ASSUME NEW n \in Node, Take(n)
      PROVE  NotTwice' /\ RunsRemembered'
  <2>1. PICK t \in Trace : t \notin handled[n] /\ busy' = [busy EXCEPT ![n] = t]
                           /\ UNCHANGED <<handled, runs>>
    BY <1>2 DEF Take
  <2> QED BY <2>1 DEF TypeOK, NotTwice, RunsRemembered
<1>3. ASSUME NEW n \in Node, Succeed(n)
      PROVE  NotTwice' /\ RunsRemembered'
  <2>1. PICK t \in Trace : /\ busy[n] = t
                           /\ busy' = [busy EXCEPT ![n] = Idle]
                           /\ handled' = [handled EXCEPT ![n] = @ \cup {t}]
                           /\ runs' = [runs EXCEPT ![t] = @ + 1]
    BY <1>3 DEF Succeed
  <2>2. Target[t] = n /\ t \notin handled[n] /\ runs[t] = 0
    BY <2>1 DEF Addressed, Mine, NotTwice, RunsRemembered
  <2>3. NotTwice'
    BY <2>1 DEF TypeOK, NotTwice
  <2>4. ASSUME NEW u \in Trace
        PROVE  IF u \in handled'[Target[u]] THEN runs'[u] <= 1 ELSE runs'[u] = 0
    BY <2>1, <2>2 DEF TypeOK, RunsRemembered
  <2> QED BY <2>3, <2>4 DEF RunsRemembered
<1>4. ASSUME NEW n \in Node, Raise(n)
      PROVE  NotTwice' /\ RunsRemembered'
  <2>1. busy' = [busy EXCEPT ![n] = Idle] /\ UNCHANGED <<handled, runs>>
    BY <1>4 DEF Raise
  <2> QED BY <2>1 DEF TypeOK, NotTwice, RunsRemembered
<1>5. ASSUME NEW n \in Node, NodeCrash(n)
      PROVE  NotTwice' /\ RunsRemembered'
  <2>1. /\ busy' = [busy EXCEPT ![n] = Idle]
        /\ handled' = [handled EXCEPT ![n] = {}]
        /\ runs' = [t \in Trace |-> IF Target[t] = n THEN 0 ELSE runs[t]]
    BY <1>5 DEF NodeCrash
  <2> QED BY <2>1 DEF TypeOK, NotTwice, RunsRemembered
<1>6. ASSUME NEW n \in Node,
             \/ RepeatAck(n) \/ SkipUnknown(n) \/ HandleAck(n) \/ HandleAckThenDie(n)
             \/ LoseCommand(n) \/ LoseAck(n) \/ RepeatCommand(n) \/ RepeatPublishedAck(n)
      PROVE  UNCHANGED <<busy, handled, runs>>
  BY <1>6 DEF RepeatAck, SkipUnknown, HandleAck, HandleAckThenDie, LoseCommand, LoseAck,
              RepeatCommand, RepeatPublishedAck, nodeVars
<1>7. ASSUME NEW t \in Trace, Send(t) \/ SendThenDie(t) \/ Sweep(t)
      PROVE  UNCHANGED <<busy, handled, runs>>
  BY <1>7 DEF Send, SendThenDie, Sweep, nodeVars
<1>8. CASE CommanderRestart \/ UNCHANGED vars
  BY <1>1, <1>8 DEF CommanderRestart, vars, nodeVars
<1> QED BY <1>1, <1>2, <1>3, <1>4, <1>5, <1>6, <1>7, <1>8 DEF Next, NodeStep

\* While a node stays up it carries a command out at most once, however often
\* the command is decided, sent or repeated (_handled_trace_ids).
THEOREM RunAtMostOnce == Spec => []AtMostOncePerLife
<1> DEFINE IInv == Addressed /\ NotTwice /\ RunsRemembered
<1>1. Init => IInv
  BY ProtocolAssumption, ShortItems DEF Init, Addressed, NotTwice, RunsRemembered
<1>2. TypeOK /\ IInv /\ [Next]_vars => IInv'
  BY AddressedStep, OnceStep
<1>3. IInv => AtMostOncePerLife
  <2>1. ASSUME RunsRemembered, NEW t \in Trace
        PROVE  runs[t] <= 1
    <3>1. runs[t] = 0 \/ runs[t] <= 1
      BY <2>1, Zenon DEF RunsRemembered
    <3>2. runs[t] = 0 => runs[t] <= 1
      OBVIOUS
    <3> QED BY <3>1, <3>2
  <2> QED BY <2>1 DEF AtMostOncePerLife
<1> QED BY <1>1, <1>2, <1>3, TypeCorrect, PTL DEF Spec

-----------------------------------------------------------------------------
(* Refinement of CommandOutcome                                            *)

\* Every step of a node or of its crash that does something does it to one
\* registered command, and leaves the ledger alone.
Done(t, what) == Known(t) /\ did' = did \cup what /\ UNCHANGED status

LEMMA FieldMoves ==
  ASSUME TypeOK, Addressed, [Next]_vars
  PROVE  \/ UNCHANGED did
         \/ \E t \in Trace :
              \/ Done(t, { <<t, "RECEIVED">> })
              \/ Done(t, { <<t, "EXECUTED">> })
              \/ Done(t, { <<t, "RECEIVED">>, <<t, "EXECUTED">> })
              \/ Done(t, { <<t, "FAILED">> })
<1>1. ASSUME NEW n \in Node, NEW t \in Trace, Incoming(n, t)
      PROVE  Known(t)
  BY <1>1, TailItems DEF TypeOK, Addressed, Mine, Incoming
<1>2. ASSUME NEW n \in Node, NEW t \in Trace, busy[n] = t
      PROVE  Known(t)
  BY <1>2, ProtocolAssumption DEF Addressed, Mine
<1>3. ASSUME NEW n \in Node, Take(n) \/ SkipUnknown(n)
      PROVE  \E t \in Trace : \/ Done(t, { <<t, "RECEIVED">> })
                              \/ Done(t, { <<t, "RECEIVED">>, <<t, "EXECUTED">> })
  BY <1>1, <1>3 DEF Take, SkipUnknown, Done, trackerVars
<1>4. ASSUME NEW n \in Node, Succeed(n) \/ Raise(n)
      PROVE  \E t \in Trace : Done(t, { <<t, "EXECUTED">> }) \/ Done(t, { <<t, "FAILED">> })
  BY <1>2, <1>4 DEF Succeed, Raise, Done, trackerVars
<1>5. ASSUME NEW n \in Node, NodeCrash(n)
      PROVE  UNCHANGED did \/ \E t \in Trace : Done(t, { <<t, "EXECUTED">> })
  BY <1>2, <1>5 DEF TypeOK, NodeCrash, Done, trackerVars
<1>6. ASSUME NEW n \in Node,
             \/ RepeatAck(n) \/ HandleAck(n) \/ HandleAckThenDie(n)
             \/ LoseCommand(n) \/ LoseAck(n) \/ RepeatCommand(n) \/ RepeatPublishedAck(n)
      PROVE  UNCHANGED did
  BY <1>6 DEF RepeatAck, HandleAck, HandleAckThenDie, LoseCommand, LoseAck, RepeatCommand,
              RepeatPublishedAck, nodeVars
<1>7. ASSUME NEW t \in Trace, Send(t) \/ SendThenDie(t) \/ Sweep(t)
      PROVE  UNCHANGED did
  BY <1>7 DEF Send, SendThenDie, Sweep, nodeVars
<1>8. CASE CommanderRestart \/ UNCHANGED vars
  BY <1>8 DEF CommanderRestart, vars, nodeVars
<1> QED BY <1>3, <1>4, <1>5, <1>6, <1>7, <1>8 DEF Next, NodeStep

\* A registered command on which something is done: an attempt, or a receipt
\* that the promise does not speak of.
LEMMA DoneIsAttempt ==
  ASSUME TypeOK, NEW t \in Trace,
         \/ Done(t, { <<t, "RECEIVED">> })
         \/ Done(t, { <<t, "EXECUTED">> })
         \/ Done(t, { <<t, "RECEIVED">>, <<t, "EXECUTED">> })
         \/ Done(t, { <<t, "FAILED">> })
  PROVE  Outcome!Attempt(t) \/ UNCHANGED Outcome!outcomeVars
<1>1. UNCHANGED Outcomes
  BY DEF Done, Outcomes
<1>2. Outcomes[t] # "none"
  BY DEF Done, Known, Outcomes, OutcomeOf, TypeOK, TrackerTypeOK, AckStatus
<1>3. CASE Done(t, { <<t, "RECEIVED">> })
  <2>1. UNCHANGED Facts
    BY <1>3 DEF Done, Facts
  <2> QED BY <1>1, <2>1 DEF Outcome!outcomeVars
<1>4. CASE Done(t, { <<t, "EXECUTED">> }) \/ Done(t, { <<t, "RECEIVED">>, <<t, "EXECUTED">> })
  <2>1. Facts' = Facts \cup { <<t, "worked">> }
    BY <1>4 DEF Done, Facts
  <2> QED BY <1>1, <1>2, <2>1 DEF Outcome!Attempt, Outcome!Fact
<1>5. CASE Done(t, { <<t, "FAILED">> })
  <2>1. Facts' = Facts \cup { <<t, "failed">> }
    BY <1>5 DEF Done, Facts
  <2> QED BY <1>1, <1>2, <2>1 DEF Outcome!Attempt, Outcome!Fact
<1> QED BY <1>3, <1>4, <1>5

\* A move of the ledger registers a command, is invisible (a receipt), or
\* reports an outcome that is a fact because acknowledgements are true.
LEMMA MoveIsReport ==
  ASSUME TypeOK, Truth, UNCHANGED did,
         NEW t \in Trace,
         \/ Decided(t)
         \/ \E n \in Node, s \in AckStatus : <<t, s>> \in Items(ackq[n]) /\ Applied(t, s)
  PROVE  Outcome!Issue(t) \/ Outcome!Report(t) \/ UNCHANGED Outcome!outcomeVars
<1>1. UNCHANGED Facts
  BY DEF Facts
<1>2. CASE Decided(t)
  <2>1. Outcomes[t] = "none" /\ Outcomes' = [Outcomes EXCEPT ![t] = "open"]
    BY <1>2 DEF TypeOK, TrackerTypeOK, Decided, Outcomes, OutcomeOf
  <2> QED BY <1>1, <2>1 DEF Outcome!Issue
<1>3. ASSUME NEW n \in Node, NEW s \in AckStatus, <<t, s>> \in Items(ackq[n]), Applied(t, s)
      PROVE  Outcome!Report(t) \/ UNCHANGED Outcome!outcomeVars
  <2>1. <<t, s>> \in did
    BY <1>3 DEF Truth, AcksTrue
  <2>2. CASE s = "RECEIVED"
    <3>1. UNCHANGED Outcomes
      BY <1>3, <2>2 DEF TypeOK, TrackerTypeOK, Applied, VALID_TRANSITIONS, Outcomes, OutcomeOf
    <3> QED BY <1>1, <3>1 DEF Outcome!outcomeVars
  <2>3. CASE s # "RECEIVED"
    <3>1. status[t] = "RECEIVED" /\ s \in TERMINAL_STATES
      BY <1>3, <2>3 DEF Applied, VALID_TRANSITIONS, AckStatus, TERMINAL_STATES
    <3>2. Outcomes[t] = "open" /\ Outcomes' = [Outcomes EXCEPT ![t] = OutcomeOf(s)]
      BY <1>3, <3>1 DEF TypeOK, TrackerTypeOK, Applied, Outcomes, OutcomeOf
    <3>3. OutcomeOf(s) \in {"worked", "failed"} /\ <<t, OutcomeOf(s)>> \in Facts
      BY <2>1, <3>1 DEF OutcomeOf, TERMINAL_STATES, Facts
    <3> QED BY <1>1, <3>2, <3>3 DEF Outcome!Report, Outcome!Fact
  <2> QED BY <2>2, <2>3
<1> QED BY <1>2, <1>3

\* The acknowledgement protocol implements CommandOutcome: one outcome for each
\* command, given once, kept across restarts, and true of the field.
THEOREM ImplementsOutcome == Spec => OutcomeKept
<1> DEFINE IInv == TypeOK /\ Truth /\ Addressed
<1>1. Init => IInv
  <2>1. Init => TypeOK
    BY ProtocolAssumption, ShortItems DEF Init, TrackerInit, TypeOK, TrackerTypeOK
  <2>2. Init => Truth /\ Addressed
    BY ProtocolAssumption, ShortItems
       DEF Init, TrackerInit, Truth, AcksTrue, MemoryTrue, LedgerTellsTruth, AckStatus, Addressed
  <2> QED BY <2>1, <2>2
<1>2. IInv /\ [Next]_vars => IInv'
  BY TypeStep, TruthStep, AddressedStep
<1>3. Init => Outcome!OutcomeInit
  BY DEF Init, TrackerInit, Outcome!OutcomeInit, Outcomes, OutcomeOf, Facts
<1>4. ASSUME IInv, [Next]_vars
      PROVE  [Outcome!OutcomeNext]_(Outcome!outcomeVars)
  <2>1. UNCHANGED <<status, did>> => UNCHANGED Outcome!outcomeVars
    BY DEF Outcome!outcomeVars, Outcomes, Facts
  <2>2. ASSUME NEW t \in Trace,
               Outcome!Issue(t) \/ Outcome!Attempt(t) \/ Outcome!Report(t)
        PROVE  Outcome!OutcomeNext
    BY <2>2 DEF Outcome!OutcomeNext
  <2>3. CASE UNCHANGED did
    BY <1>4, <2>1, <2>2, <2>3, LedgerMoves, MoveIsReport
  <2>4. CASE did' # did
    BY <1>4, <2>2, <2>4, FieldMoves, DoneIsAttempt
  <2> QED BY <2>3, <2>4
<1> QED BY <1>1, <1>2, <1>3, <1>4, PTL DEF Spec, OutcomeKept, Outcome!OutcomeSpec
=============================================================================
