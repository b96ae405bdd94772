------------------------- MODULE BullyElectionProofs -------------------------
(***************************************************************************)
(* Proofs about BullyElection, for every number of leaders and of faults.  *)
(* Type correctness holds with or without Timely; the theorems on winners  *)
(* are about elections whose answers arrive before the timer.              *)
(***************************************************************************)
EXTENDS BullyElection, SequenceTheorems, TLAPS

-----------------------------------------------------------------------------
(* What the operations on a queue do to its contents.                      *)

Items(s) == { s[i] : i \in DOMAIN s }

\* Taking the head of a queue, or dropping it.
LEMMA TailItems ==
  ASSUME NEW S, NEW s \in Seq(S), s # <<>>
  PROVE  /\ Tail(s) \in Seq(S) /\ Items(Tail(s)) \subseteq Items(s)
         /\ Head(s) \in S /\ Head(s) \in Items(s)
BY DEF Items

\* Adding a message at the end, possibly one that is already there.
LEMMA AppendItems ==
  ASSUME NEW S, NEW s \in Seq(S), NEW e \in S
  PROVE  Append(s, e) \in Seq(S) /\ Items(Append(s, e)) \subseteq Items(s) \cup {e}
BY DEF Items

\* Adding several messages at the end: nothing else comes in, nothing gets lost.
LEMMA ConcatItems ==
  ASSUME NEW S, NEW s \in Seq(S), NEW u \in Seq(S)
  PROVE  s \o u \in Seq(S) /\ Items(s \o u) = Items(s) \cup Items(u)
<1>1. \A q : Items(q) = Range(q)
  BY DEF Items, Range
<1>2. s \o u \in Seq(S)
  BY ConcatProperties
<1>3. Range(s \o u) = Range(s) \cup Range(u)
  BY RangeConcatenation
<1> QED BY <1>1, <1>2, <1>3

\* Adding a message at the end.
LEMMA AppendKeeps ==
  ASSUME NEW S, NEW s \in Seq(S), NEW e \in S
  PROVE  Items(Append(s, e)) = Items(s) \cup {e}
<1>1. /\ Append(s, e) \in Seq(S) /\ Len(Append(s, e)) = Len(s) + 1
      /\ Append(s, e)[Len(s) + 1] = e
      /\ \A i \in DOMAIN s : Append(s, e)[i] = s[i]
  OBVIOUS
<1>2. ASSUME NEW i \in DOMAIN s PROVE s[i] \in Items(Append(s, e))
  BY <1>1 DEF Items
<1>3. e \in Items(Append(s, e))
  BY <1>1 DEF Items
<1> QED BY <1>2, <1>3, AppendItems DEF Items

\* Only the head leaves.
LEMMA TailKeeps ==
  ASSUME NEW S, NEW s \in Seq(S), s # <<>>
  PROVE  Items(s) = Items(Tail(s)) \cup {Head(s)}
<1>1. /\ Len(s) \in Nat \ {0} /\ Head(s) = s[1] /\ Tail(s) \in Seq(S)
      /\ Len(Tail(s)) = Len(s) - 1
      /\ \A i \in 1 .. Len(s) - 1 : Tail(s)[i] = s[i + 1]
  OBVIOUS
<1>2. ASSUME NEW i \in DOMAIN s, i # 1 PROVE s[i] \in Items(Tail(s))
  <2>1. i - 1 \in DOMAIN Tail(s) /\ Tail(s)[i - 1] = s[i]
    BY <1>1, <1>2
  <2> QED BY <2>1 DEF Items
<1> QED BY <1>1, <1>2, TailItems DEF Items

\* Queues of no, one and two messages.
LEMMA ShortItems ==
  /\ \A S : <<>> \in Seq(S) /\ Items(<<>>) = {}
  /\ \A S : \A a \in S : <<a>> \in Seq(S) /\ Items(<<a>>) = {a}
  /\ \A S : \A a, b \in S : <<a, b>> \in Seq(S) /\ Items(<<a, b>>) = {a, b}
BY DEF Items

-----------------------------------------------------------------------------
ElectionStates == [term : Nat, inElection : BOOLEAN, receivedOk : BOOLEAN,
                   timer : Nat]
Mails == [Leaders -> [Leaders -> Seq(Message)]]

\* An election that runs has not heard OK, and its timer is not of a later one.
Sane(e) == /\ e \in ElectionStates
           /\ ~(e.inElection /\ e.receivedOk)
           /\ e.timer <= e.term

\* The parts of the invariant: what threads and nodes hold, the elections,
\* and the broker.  Nobody has mail from himself, so nobody follows himself.
NodesOK == /\ first \in Firsts
           /\ up \subseteq Leaders /\ lead \subseteq up
           /\ suspecting \subseteq Backups \cap up
           /\ wills \subseteq Leaders \ up
           /\ firing \in [Leaders -> Nat]
           /\ \A n \in Leaders : firing[n] # 0 => n \in Backups \cap up
FollowsOK == /\ leader \in [Leaders -> Leaders \cup {NoNode}]
             /\ \A n \in Leaders : leader[n] # n
ElectionsOK == /\ election \in [Leaders -> ElectionStates]
               /\ \A n \in Leaders : Sane(election[n])
MailOK == /\ inbox \in Mails
          /\ \A n \in Leaders : inbox[n][n] = <<>>
          /\ retained \in [Leaders -> Nat]

\* A backup's retained announce goes away with its will, before it restarts.
RetainedOK == \A n \in Leaders :
                retained[n] # 0 => n \in up \cup wills \cup {first}

IInv == NodesOK /\ FollowsOK /\ ElectionsOK /\ MailOK /\ RetainedOK

----------------------------------------------------------------------------
\* The operators of the model.

\* accept_term, start_election and the retreat keep a state sane.
LEMMA AcceptedSane ==
  ASSUME NEW e, Sane(e), NEW t \in Nat
  PROVE  Sane(AcceptTerm(e, t))
<1>1. CASE t > e.term
  <2> DEFINE r == [e EXCEPT !.term = t, !.inElection = FALSE,
                            !.receivedOk = FALSE]
  <2>1. r \in ElectionStates
    BY DEF Sane, ElectionStates
  <2>2. r.inElection = FALSE /\ r.timer = e.timer /\ r.term = t
    BY DEF Sane, ElectionStates
  <2>3. e.timer <= t
    BY <1>1 DEF Sane, ElectionStates
  <2>4. AcceptTerm(e, t) = r
    BY <1>1 DEF AcceptTerm
  <2> HIDE DEF r
  <2> QED BY <2>1, <2>2, <2>3, <2>4 DEF Sane
<1>2. CASE ~(t > e.term)
  BY <1>2 DEF AcceptTerm
<1> QED BY <1>1, <1>2

LEMMA BegunSane ==
  ASSUME NEW e, Sane(e)
  PROVE  Sane(Begin(e)) /\ Begin(e).term \in Nat
<1> DEFINE x == e.term + 1
<1>1. x \in Nat /\ e.timer <= x
  BY DEF Sane, ElectionStates
<1>2. Begin(e) = [e EXCEPT !.term = x, !.inElection = TRUE,
                           !.receivedOk = FALSE]
  BY DEF Begin
<1> HIDE DEF x
<1>3. Begin(e) \in ElectionStates
  BY <1>1, <1>2 DEF Sane, ElectionStates
<1>4. /\ Begin(e).receivedOk = FALSE
      /\ Begin(e).timer = e.timer /\ Begin(e).term = x
  BY <1>2 DEF Sane, ElectionStates
<1> QED BY <1>1, <1>3, <1>4 DEF Sane

LEMMA BackSane ==
  ASSUME NEW e, Sane(e)
  PROVE  Sane(SteppedBack(e)) /\ SteppedBack(e).inElection = FALSE
<1>1. SteppedBack(e) \in ElectionStates
  BY DEF Sane, ElectionStates, SteppedBack
<1>2. SteppedBack(e).inElection = FALSE
  BY DEF Sane, ElectionStates, SteppedBack
<1>3. SteppedBack(e).timer = 0 /\ SteppedBack(e).term = e.term
  BY DEF Sane, ElectionStates, SteppedBack
<1>4. e.term \in Nat
  BY DEF Sane, ElectionStates
<1> QED BY <1>1, <1>2, <1>3, <1>4 DEF Sane

\* So do the assignments to one field.
LEMMA FieldSane ==
  ASSUME NEW e, Sane(e)
  PROVE  /\ Sane([e EXCEPT !.inElection = FALSE])
         /\ Sane([e EXCEPT !.timer = e.term])
         /\ Sane([e EXCEPT !.timer = 0])
         /\ ~e.inElection => Sane([e EXCEPT !.receivedOk = TRUE])
<1>1. Sane([e EXCEPT !.inElection = FALSE])
  BY DEF Sane, ElectionStates
<1>2. Sane([e EXCEPT !.timer = e.term])
  BY DEF Sane, ElectionStates
<1>3. Sane([e EXCEPT !.timer = 0])
  BY DEF Sane, ElectionStates
<1>4. ~e.inElection => Sane([e EXCEPT !.receivedOk = TRUE])
  BY DEF Sane, ElectionStates
<1> QED BY <1>1, <1>2, <1>3, <1>4

LEMMA FreshSane == Sane(Fresh)
BY DEF Sane, ElectionStates, Fresh

LEMMA Messages ==
  ASSUME NEW t \in Nat
  PROVE  Start(t) \in Message /\ Ok(t) \in Message /\ Win(t) \in Message
         /\ Announce(t) \in Message
BY DEF Start, Ok, Win, Announce, Message, Terms

\* What is posted goes into the queues of others.
LEMMA PostedMail ==
  ASSUME NEW box \in Mails, NEW n \in Leaders,
         NEW out \in [Leaders -> Seq(Message)],
         \A p \in Leaders : box[p][p] = <<>>
  PROVE  /\ Posted(box, n, out) \in Mails
         /\ \A p \in Leaders : Posted(box, n, out)[p][p] = <<>>
<1>1. ASSUME NEW p \in Leaders
      PROVE  /\ Posted(box, n, out)[p] \in [Leaders -> Seq(Message)]
             /\ Posted(box, n, out)[p][p] = <<>>
  <2>1. /\ box[p] \in [Leaders -> Seq(Message)]
        /\ box[p][n] \in Seq(Message) /\ out[p] \in Seq(Message)
    BY DEF Mails
  <2>2. box[p][n] \o out[p] \in Seq(Message)
    BY <2>1, ConcatItems
  <2>3. CASE p \in (Backups \cap up) \ {n}
    BY <2>1, <2>2, <2>3 DEF Posted
  <2>4. CASE p \notin (Backups \cap up) \ {n}
    BY <2>1, <2>4 DEF Posted
  <2> QED BY <2>3, <2>4
<1> QED BY <1>1 DEF Mails, Posted

\* What is consumed was sent by somebody else.
LEMMA ConsumedMail ==
  ASSUME MailOK, NEW n \in Leaders, NEW q \in Leaders, inbox[n][q] # <<>>
  PROVE  /\ Consumed(n, q) \in Mails /\ n # q
         /\ \A p \in Leaders : Consumed(n, q)[p][p] = <<>>
         /\ Head(inbox[n][q]) \in Message /\ Head(inbox[n][q]).term \in Nat
<1>1. /\ inbox[n] \in [Leaders -> Seq(Message)] /\ inbox[n][q] \in Seq(Message)
      /\ n # q
  BY DEF MailOK, Mails
<1>2. Tail(inbox[n][q]) \in Seq(Message) /\ Head(inbox[n][q]) \in Message
  BY <1>1, TailItems
<1>3. Head(inbox[n][q]).term \in Nat
  BY <1>2 DEF Message, Terms
<1>4. [inbox[n] EXCEPT ![q] = Tail(inbox[n][q])] \in [Leaders -> Seq(Message)]
  BY <1>1, <1>2
<1>5. Consumed(n, q) = [inbox EXCEPT ![n] = [inbox[n] EXCEPT
                                               ![q] = Tail(inbox[n][q])]]
  BY DEF Consumed
<1>6. Consumed(n, q) \in Mails
  BY <1>4, <1>5 DEF MailOK, Mails
<1>7. ASSUME NEW p \in Leaders PROVE Consumed(n, q)[p][p] = <<>>
  <2>1. CASE p = n
    BY <1>1, <1>5, <2>1 DEF MailOK, Mails
  <2>2. CASE p # n
    BY <1>5, <2>2 DEF MailOK, Mails
  <2> QED BY <2>1, <2>2
<1> QED BY <1>1, <1>2, <1>3, <1>6, <1>7

LEMMA NoMessages == Nothing \in [Leaders -> Seq(Message)]
BY ShortItems DEF Nothing

\* A declaration of victory leaves a sane state and a lawful mail.
LEMMA VictoryKeeps ==
  ASSUME ElectionsOK, NodesOK, retained \in [Leaders -> Nat],
         NEW n \in Backups \cap up, NEW e, Sane(e), NEW t \in Nat,
         NEW box \in Mails, NEW out \in [Leaders -> Seq(Message)],
         \A p \in Leaders : box[p][p] = <<>>,
         DeclareVictory(n, e, t, box, out)
  PROVE  /\ ElectionsOK' /\ MailOK' /\ lead' \subseteq up
         /\ \A m \in Leaders : retained'[m] # retained[m] => m = n
<1>0. n \in Leaders
  BY DEF Backups
<1>1. Sane([e EXCEPT !.inElection = FALSE]) /\ e.term \in Nat
  BY FieldSane DEF Sane, ElectionStates
<1>2. ElectionsOK'
  BY <1>0, <1>1 DEF DeclareVictory, ElectionsOK, Sane
<1>3. ASSUME NEW p \in Leaders
      PROVE  out[p] \o <<Win(t), Announce(e.term)>> \in Seq(Message)
  <2>1. <<Win(t), Announce(e.term)>> \in Seq(Message)
    BY <1>1, Messages, ShortItems
  <2> QED BY <2>1, ConcatItems
<1> DEFINE told == [p \in Leaders |-> out[p] \o <<Win(t), Announce(e.term)>>]
<1>4. told \in [Leaders -> Seq(Message)]
  BY <1>3
<1>5. inbox' = Posted(box, n, told)
  BY DEF DeclareVictory
<1>6. inbox' \in Mails /\ \A p \in Leaders : inbox'[p][p] = <<>>
  <2> HIDE DEF told
  <2> QED BY <1>0, <1>4, <1>5, PostedMail
<1>7. retained' \in [Leaders -> Nat]
  BY <1>0, <1>1 DEF DeclareVictory
<1>8. lead' \subseteq up /\ \A m \in Leaders : retained'[m] # retained[m] => m = n
  BY DEF DeclareVictory, NodesOK
<1> QED BY <1>2, <1>6, <1>7, <1>8 DEF MailOK

\* So does the start of an election.
LEMMA StartKeeps ==
  ASSUME ElectionsOK, NodesOK, retained \in [Leaders -> Nat],
         NEW n \in Backups \cap up, NEW e, Sane(e),
         NEW box \in Mails, NEW out \in [Leaders -> Seq(Message)],
         \A p \in Leaders : box[p][p] = <<>>,
         StartElection(n, e, box, out)
  PROVE  /\ ElectionsOK' /\ MailOK' /\ lead' \subseteq up
         /\ \A m \in Leaders : retained'[m] # retained[m] => m = n
<1> DEFINE b == Begin(e)
<1>0. n \in Leaders
  BY DEF Backups
<1>1. Sane(b) /\ b.term \in Nat /\ Sane([b EXCEPT !.timer = b.term])
  BY BegunSane, FieldSane
<1>2. CASE HigherPeers(n) = {}
  <2>1. DeclareVictory(n, b, b.term, box, out)
    BY <1>2 DEF StartElection
  <2> HIDE DEF b
  <2> QED BY <1>1, <2>1, VictoryKeeps
<1>3. CASE HigherPeers(n) # {}
  <2> DEFINE asks == [p \in Leaders |->
                        IF p \in HigherPeers(n) THEN Append(out[p], Start(b.term))
                                                ELSE out[p]]
  <2>1. /\ election' = [election EXCEPT ![n] = [b EXCEPT !.timer = b.term]]
        /\ inbox' = Posted(box, n, asks)
        /\ UNCHANGED <<lead, retained>>
    BY <1>3 DEF StartElection
  <2>2. ElectionsOK'
    <3> HIDE DEF b
    <3> QED BY <1>0, <1>1, <2>1 DEF ElectionsOK, Sane
  <2>3. ASSUME NEW p \in Leaders
        PROVE  Append(out[p], Start(b.term)) \in Seq(Message)
    <3> HIDE DEF b
    <3> QED BY <1>1, Messages, AppendItems
  <2>4. asks \in [Leaders -> Seq(Message)]
    <3> HIDE DEF b
    <3> QED BY <2>3
  <2>5. inbox' \in Mails /\ \A p \in Leaders : inbox'[p][p] = <<>>
    <3> HIDE DEF asks, b
    <3> QED BY <1>0, <2>1, <2>4, PostedMail
  <2> QED BY <2>1, <2>2, <2>5 DEF MailOK, NodesOK
<1> QED BY <1>2, <1>3

\* A running node may retain an announce.
LEMMA RetainedKeeps ==
  ASSUME RetainedOK, NEW n \in up, UNCHANGED <<up, wills, first>>,
         \A m \in Leaders : retained'[m] # retained[m] => m = n
  PROVE  RetainedOK'
BY DEF RetainedOK

----------------------------------------------------------------------------
\* Type correctness.

LEMMA Start0 == Init => IInv
<1> SUFFICES ASSUME Init PROVE IInv
  OBVIOUS
<1>1. NodesOK
  BY LeadersAssumption DEF Init, NodesOK
<1>2. FollowsOK
  BY LeadersAssumption DEF Init, FollowsOK
<1>3. ElectionsOK
  BY FreshSane DEF Init, ElectionsOK, Sane
<1>4. MailOK
  BY ShortItems DEF Init, MailOK, Mails
<1>5. RetainedOK
  BY DEF Init, RetainedOK
<1> QED BY <1>1, <1>2, <1>3, <1>4, <1>5 DEF IInv

\* The monitor.
LEMMA MonitorKeeps ==
  ASSUME IInv, NEW n \in Backups, Suspect(n) \/ StartSuspected(n)
  PROVE  IInv'
<1>1. CASE Suspect(n)
  <2>1. NodesOK'
    BY <1>1 DEF IInv, NodesOK, Suspect, Backups
  <2>2. FollowsOK' /\ ElectionsOK' /\ MailOK' /\ RetainedOK'
    BY <1>1 DEF IInv, FollowsOK, ElectionsOK, MailOK, RetainedOK, Suspect
  <2> QED BY <2>1, <2>2 DEF IInv
<1>2. CASE StartSuspected(n)
  <2>1. /\ n \in Backups \cap up /\ n \in Leaders /\ Sane(election[n])
        /\ StartElection(n, election[n], inbox, Nothing)
    BY <1>2 DEF IInv, NodesOK, ElectionsOK, StartSuspected, Backups
  <2>2. /\ ElectionsOK' /\ MailOK' /\ lead' \subseteq up
        /\ \A m \in Leaders : retained'[m] # retained[m] => m = n
    BY <2>1, StartKeeps, NoMessages DEF IInv, MailOK
  <2>3. NodesOK'
    BY <1>2, <2>2 DEF IInv, NodesOK, StartSuspected, Backups
  <2>4. FollowsOK'
    BY <1>2, LeadersAssumption DEF IInv, FollowsOK, StartSuspected
  <2>5. RetainedOK'
    BY <1>2, <2>1, <2>2, RetainedKeeps DEF IInv, StartSuspected
  <2> QED BY <2>2, <2>3, <2>4, <2>5 DEF IInv
<1> QED BY <1>1, <1>2

\* The timer.
LEMMA TimerKeeps ==
  ASSUME IInv, NEW n \in Backups, TimerExpires(n) \/ DeclareAfterTimeout(n)
  PROVE  IInv'
<1>0. n \in Leaders /\ Sane(election[n]) /\ election[n].timer \in Nat
  BY DEF IInv, ElectionsOK, Sane, ElectionStates, Backups
<1>1. CASE TimerExpires(n)
  <2>1. NodesOK'
    BY <1>0, <1>1 DEF IInv, NodesOK, TimerExpires, Backups
  <2>2. Sane([election[n] EXCEPT !.timer = 0])
    BY <1>0, FieldSane
  <2>3. ElectionsOK'
    BY <1>0, <1>1, <2>2 DEF IInv, ElectionsOK, Sane, TimerExpires
  <2>4. FollowsOK' /\ MailOK' /\ RetainedOK'
    BY <1>1 DEF IInv, FollowsOK, MailOK, RetainedOK, TimerExpires
  <2> QED BY <2>1, <2>3, <2>4 DEF IInv
<1>2. CASE DeclareAfterTimeout(n)
  <2>1. /\ n \in Backups \cap up /\ firing[n] \in Nat
        /\ DeclareVictory(n, election[n], firing[n], inbox, Nothing)
    BY <1>0, <1>2 DEF IInv, NodesOK, DeclareAfterTimeout
  <2>2. /\ ElectionsOK' /\ MailOK' /\ lead' \subseteq up
        /\ \A m \in Leaders : retained'[m] # retained[m] => m = n
    BY <1>0, <2>1, VictoryKeeps, NoMessages DEF IInv, MailOK
  <2>3. NodesOK'
    BY <1>0, <1>2, <2>2 DEF IInv, NodesOK, DeclareAfterTimeout, Backups
  <2>4. FollowsOK'
    BY <1>2 DEF IInv, FollowsOK, DeclareAfterTimeout
  <2>5. RetainedOK'
    BY <1>2, <2>1, <2>2, RetainedKeeps DEF IInv, DeclareAfterTimeout
  <2> QED BY <2>2, <2>3, <2>4, <2>5 DEF IInv
<1> QED BY <1>1, <1>2

\* The MQTT thread.
LEMMA ReceiveKeeps ==
  ASSUME IInv, NEW n \in Backups, NEW q \in Leaders, Receive(n, q)
  PROVE  IInv'
<1> DEFINE t == Head(inbox[n][q]).term
<1>0. /\ n \in Leaders /\ n \in up /\ inbox[n][q] # <<>>
      /\ Sane(election[n]) /\ MailOK
  BY DEF IInv, ElectionsOK, Backups, Receive, ReceiveStale, ReceiveStart,
         ReceiveOk, ReceiveWin, ReceiveAnnounce, Incoming
<1>1. /\ Consumed(n, q) \in Mails /\ n # q /\ t \in Nat
      /\ \A p \in Leaders : Consumed(n, q)[p][p] = <<>>
  BY <1>0, ConsumedMail
<1>2. Sane(AcceptTerm(election[n], t))
  BY <1>0, <1>1, AcceptedSane
<1>3. CASE ReceiveStale(n, q)
  <2>1. MailOK'
    BY <1>1, <1>3 DEF IInv, MailOK, ReceiveStale
  <2>2. NodesOK' /\ FollowsOK' /\ ElectionsOK' /\ RetainedOK'
    BY <1>3 DEF IInv, NodesOK, FollowsOK, ElectionsOK, RetainedOK, ReceiveStale,
                Backups
  <2> QED BY <2>1, <2>2 DEF IInv
<1>4. CASE ReceiveStart(n, q)
  <2> DEFINE e == AcceptTerm(election[n], t)
             out == [Nothing EXCEPT ![q] = <<Ok(t)>>]
  <2>1. out \in [Leaders -> Seq(Message)]
    BY <1>1, Messages, NoMessages, ShortItems
  <2>2. /\ ElectionsOK' /\ MailOK' /\ lead' \subseteq up
        /\ \A m \in Leaders : retained'[m] # retained[m] => m = n
    <3>1. CASE e.inElection
      <4>1. /\ election' = [election EXCEPT ![n] = e]
            /\ inbox' = Posted(Consumed(n, q), n, out)
            /\ UNCHANGED <<lead, retained>>
        BY <1>4, <3>1 DEF ReceiveStart
      <4>2. ElectionsOK'
        <5> HIDE DEF e
        <5>1. Sane(e)
          BY <1>2 DEF e
        <5> QED BY <1>0, <4>1, <5>1 DEF IInv, ElectionsOK, Sane
      <4>3. inbox' \in Mails /\ \A p \in Leaders : inbox'[p][p] = <<>>
        <5> HIDE DEF out
        <5> QED BY <1>0, <1>1, <2>1, <4>1, PostedMail
      <4> QED BY <4>1, <4>2, <4>3 DEF IInv, MailOK, NodesOK
    <3>2. CASE ~e.inElection
      <4>1. StartElection(n, e, Consumed(n, q), out)
        BY <1>4, <3>2 DEF ReceiveStart
      <4> HIDE DEF e, out
      <4>2. Sane(e)
        BY <1>2 DEF e
      <4>3. /\ ElectionsOK /\ NodesOK /\ retained \in [Leaders -> Nat]
            /\ n \in Backups \cap up
        BY <1>0 DEF IInv, MailOK
      <4> QED BY <1>1, <2>1, <4>1, <4>2, <4>3, StartKeeps
    <3> QED BY <3>1, <3>2
  <2>3. NodesOK'
    BY <1>4, <2>2 DEF IInv, NodesOK, ReceiveStart, Backups
  <2>4. FollowsOK'
    BY <1>4 DEF IInv, FollowsOK, ReceiveStart
  <2>5. RetainedOK'
    BY <1>0, <1>4, <2>2, RetainedKeeps DEF IInv, ReceiveStart
  <2> QED BY <2>2, <2>3, <2>4, <2>5 DEF IInv
<1>5. CASE ReceiveOk(n, q)
  <2> DEFINE e == AcceptTerm(election[n], t)
             back == [SteppedBack(e) EXCEPT !.receivedOk = TRUE]
  <2>1. Sane(back)
    <3> HIDE DEF e
    <3>1. Sane(e)
      BY <1>2 DEF e
    <3> QED BY <3>1, BackSane, FieldSane
  <2>2. election' = [election EXCEPT ![n] = back]
    BY <1>5 DEF ReceiveOk
  <2>3. ElectionsOK'
    <3> HIDE DEF back
    <3> QED BY <1>0, <2>1, <2>2 DEF IInv, ElectionsOK, Sane
  <2>4. MailOK'
    BY <1>1, <1>5 DEF IInv, MailOK, ReceiveOk
  <2>5. NodesOK' /\ FollowsOK' /\ RetainedOK'
    BY <1>5 DEF IInv, NodesOK, FollowsOK, RetainedOK, ReceiveOk, Backups
  <2> QED BY <2>3, <2>4, <2>5 DEF IInv
<1>6. CASE ReceiveWin(n, q)
  <2> DEFINE e == AcceptTerm(election[n], t)
             back == SteppedBack(e)
  <2>1. Sane(back)
    <3> HIDE DEF e
    <3>1. Sane(e)
      BY <1>2 DEF e
    <3> QED BY <3>1, BackSane
  <2>2. election' = [election EXCEPT ![n] = back]
    BY <1>6 DEF ReceiveWin
  <2>3. ElectionsOK'
    <3> HIDE DEF back
    <3> QED BY <1>0, <2>1, <2>2 DEF IInv, ElectionsOK, Sane
  <2>4. MailOK'
    BY <1>1, <1>6 DEF IInv, MailOK, ReceiveWin
  <2>5. NodesOK' /\ FollowsOK' /\ RetainedOK'
    BY <1>6 DEF IInv, NodesOK, FollowsOK, RetainedOK, ReceiveWin, Backups
  <2> QED BY <2>3, <2>4, <2>5 DEF IInv
<1>7. CASE ReceiveAnnounce(n, q)
  <2>1. election' = [election EXCEPT ![n] = AcceptTerm(election[n], t)]
    BY <1>0, <1>7 DEF IInv, ElectionsOK, ReceiveAnnounce
  <2>2. ElectionsOK'
    <3> DEFINE e == AcceptTerm(election[n], t)
    <3>1. Sane(e) /\ election' = [election EXCEPT ![n] = e]
      BY <1>2, <2>1
    <3> HIDE DEF e
    <3> QED BY <1>0, <3>1 DEF IInv, ElectionsOK, Sane
  <2>3. FollowsOK'
    BY <1>0, <1>1, <1>7 DEF IInv, FollowsOK, ReceiveAnnounce
  <2>4. MailOK'
    BY <1>1, <1>7 DEF IInv, MailOK, ReceiveAnnounce
  <2>5. NodesOK' /\ RetainedOK'
    BY <1>7 DEF IInv, NodesOK, RetainedOK, ReceiveAnnounce, Backups
  <2> QED BY <2>2, <2>3, <2>4, <2>5 DEF IInv
<1> QED BY <1>3, <1>4, <1>5, <1>6, <1>7 DEF Receive

\* Crashes, wills and restarts.
LEMMA FaultKeeps ==
  ASSUME IInv, NEW n \in Leaders, Crash(n) \/ WillFires(n) \/ Restart(n)
  PROVE  IInv'
<1> DEFINE news == [p \in Leaders |-> <<Announce(1)>>]
<1>0. news \in [Leaders -> Seq(Message)]
  BY Messages, ShortItems
<1>1. CASE Crash(n)
  <2>1. NodesOK'
    BY <1>1 DEF IInv, NodesOK, Crash, Backups
  <2>2. FollowsOK'
    BY <1>1, LeadersAssumption DEF IInv, FollowsOK, Crash
  <2>3. ElectionsOK'
    BY <1>1, FreshSane DEF IInv, ElectionsOK, Sane, Crash
  <2>4. MailOK'
    BY <1>1, ShortItems DEF IInv, MailOK, Mails, Crash
  <2>5. RetainedOK'
    BY <1>1 DEF IInv, RetainedOK, Crash
  <2> QED BY <2>1, <2>2, <2>3, <2>4, <2>5 DEF IInv
<1>2. CASE WillFires(n)
  <2>1. NodesOK' /\ FollowsOK' /\ ElectionsOK'
    BY <1>2 DEF IInv, NodesOK, FollowsOK, ElectionsOK, WillFires, Backups
  <2>2. retained' \in [Leaders -> Nat] /\ RetainedOK'
    BY <1>2 DEF IInv, MailOK, RetainedOK, WillFires
  <2>3. inbox' = inbox \/ inbox' = Posted(inbox, n, news)
    BY <1>2 DEF WillFires
  <2>4. inbox' \in Mails /\ \A p \in Leaders : inbox'[p][p] = <<>>
    <3> HIDE DEF news
    <3> QED BY <1>0, <2>3, PostedMail DEF IInv, MailOK
  <2> QED BY <2>1, <2>2, <2>4 DEF IInv, MailOK
<1>3. CASE Restart(n)
  <2>1. NodesOK'
    BY <1>3 DEF IInv, NodesOK, Restart, Backups
  <2>2. FollowsOK' /\ ElectionsOK' /\ RetainedOK' /\ retained' = retained
    BY <1>3 DEF IInv, FollowsOK, ElectionsOK, RetainedOK, Restart
  <2>3. inbox' \in Mails /\ \A p \in Leaders : inbox'[p][p] = <<>>
    <3>1. CASE n = first
      <4>1. inbox' = Posted(inbox, n, news)
        BY <1>3, <3>1 DEF Restart
      <4> HIDE DEF news
      <4> QED BY <1>0, <4>1, PostedMail DEF IInv, MailOK
    <3>2. CASE n # first
      <4> DEFINE kept == [q \in Leaders |-> IF retained[q] = 0 THEN <<>>
                                            ELSE <<Announce(retained[q])>>]
      <4>1. inbox' = [inbox EXCEPT ![n] = kept]
        BY <1>3, <3>2 DEF Restart
      <4>2. kept \in [Leaders -> Seq(Message)]
        BY Messages, ShortItems DEF IInv, MailOK
      <4>3. kept[n] = <<>>
        BY <1>3, <3>2 DEF IInv, RetainedOK, Restart
      <4> HIDE DEF kept
      <4> QED BY <4>1, <4>2, <4>3 DEF IInv, MailOK, Mails
    <3> QED BY <3>1, <3>2
  <2> QED BY <2>1, <2>2, <2>3 DEF IInv, MailOK
<1> QED BY <1>1, <1>2, <1>3

LEMMA NextKeeps == IInv /\ [Next]_vars => IInv'
<1> SUFFICES ASSUME IInv, [Next]_vars PROVE IInv'
  OBVIOUS
<1>1. CASE Next
  BY <1>1, MonitorKeeps, TimerKeeps, ReceiveKeeps, FaultKeeps DEF Next
<1>2. CASE UNCHANGED vars
  BY <1>2 DEF vars, IInv, NodesOK, FollowsOK, ElectionsOK, MailOK, RetainedOK,
              Backups
<1> QED BY <1>1, <1>2

LEMMA Typed == IInv => TypeOK
BY DEF IInv, NodesOK, FollowsOK, ElectionsOK, MailOK, Mails, ElectionStates,
       Sane, TypeOK, Terms, Backups

\* Every reachable state of the election has its type: a running election has
\* heard no OK, a timer is of no later election, and no backup ever takes
\* itself for its leader (ElectionState, _timer, set_current_leader).
THEOREM TypeCorrect == Spec => []TypeOK
<1>1. Init => IInv
  BY Start0
<1>2. IInv /\ [Next]_vars => IInv'
  BY NextKeeps
<1>3. IInv => TypeOK
  BY Typed
<1> QED BY <1>1, <1>2, <1>3, PTL DEF Spec

----------------------------------------------------------------------------
(* One winner per term, and no winner over a peer in the same election.    *)

Run(n, t)   == election[n].inElection /\ election[n].term = t
Won(n, t)   == [node |-> n, term |-> t] \in wins
Fires(n, t) == firing[n] = t /\ t # 0

\* An election runs in a living process, its timer is its own or has expired.
ArmedOK == \A n \in Leaders : election[n].inElection =>
             n \in up /\ election[n].timer \in {0, election[n].term}

WinsOK == wins \subseteq [node : Backups, term : Nat]

\* Who runs an election has asked each higher peer: the question is on its
\* way, or the answer, or the peer is in a later term.
AskedOK == \A n, p \in Backups, t \in Nat :
             n < p /\ p \in up \ restarted /\ Run(n, t) =>
               \/ Start(t) \in Items(inbox[p][n])
               \/ Ok(t) \in Items(inbox[n][p])
               \/ election[p].term > t

\* Whose time-out has run had all higher peers in later terms.
RefusedOK == \A n, p \in Backups, t \in Nat :
               n < p /\ p \in up \ restarted /\ Fires(n, t) => election[p].term > t

\* A victory is known, or on its way, to all who run.
ToldOK == \A n, p \in Backups, t \in Nat :
            n # p /\ n \in up \ restarted /\ p \notin restarted /\ Won(p, t) =>
              \/ Win(t) \in Items(inbox[n][p])
              \/ election[n].term >= t /\ ~Run(n, t)

\* Who wins a term, or is about to, is its only winner, now and later.
AloneOK == \A n, p \in Backups \ restarted, t \in Nat :
             n < p /\ (Won(n, t) \/ Fires(n, t)) =>
               /\ ~Won(p, t) /\ ~Fires(p, t)
               /\ p \in up => election[p].term > t

ElectInv == ArmedOK /\ WinsOK /\ AskedOK /\ RefusedOK /\ ToldOK /\ AloneOK

\* The invariant follows from six facts about a step.  Terms grow, ...
Grow == /\ first' = first /\ restarted \subseteq restarted'
        /\ \A p \in Backups : p \in up' \ restarted' =>
             p \in up /\ election'[p].term >= election[p].term
\* ... an election begins in a new term and asks the higher peers, ...
Begins == \A n \in Backups, t \in Nat : Run(n, t)' =>
            \/ Run(n, t)
            \/ /\ election[n].term < t
               /\ \A p \in Backups : n < p /\ p \in up' \ restarted' =>
                    Start(t) \in Items(inbox'[p][n])
\* ... what n hears of p has its effect, ...
Effect(n, p, t) ==
  /\ Start(t) \in Items(inbox[n][p]) =>
       \/ Start(t) \in Items(inbox'[n][p])
       \/ p \in up' => Ok(t) \in Items(inbox'[p][n])
       \/ election'[n].term > t
  /\ Ok(t) \in Items(inbox[n][p]) => Ok(t) \in Items(inbox'[n][p]) \/ ~Run(n, t)'
  /\ Win(t) \in Items(inbox[n][p]) =>
       \/ Win(t) \in Items(inbox'[n][p])
       \/ election'[n].term >= t /\ ~Run(n, t)'
Hears == \A n, p \in Backups, t \in Nat : n \in up \cap up' => Effect(n, p, t)
\* ... a timer expires when all answers are in, ...
Expires == \A n \in Backups, t \in Nat : Fires(n, t)' =>
             \/ Fires(n, t)
             \/ Run(n, t) /\ Answered(n) /\ Acted /\ wins' = wins
\* ... and a winner's time-out has run, or nobody is above it; it tells all.
Declares == \A n \in Backups, t \in Nat : Won(n, t)' =>
              \/ Won(n, t)
              \/ /\ \/ Fires(n, t)
                    \/ HigherPeers(n) = {} /\ n \in up /\ election[n].term < t
                 /\ \A m \in Backups : m # n /\ m \in up' =>
                      Win(t) \in Items(inbox'[m][n])

LEMMA EmptyItems == Items(<<>>) = {}
BY ShortItems

\* When n's timer expires its higher peers are in later terms.
LEMMA AnsweredAbove ==
  ASSUME AskedOK, NEW n \in Backups, NEW p \in Backups, NEW t \in Nat,
         n < p, Run(n, t), Answered(n), p \in up \ restarted
  PROVE  election[p].term > t
<1>1. p \in HigherPeers(n) \cap Backups
  BY DEF HigherPeers, Backups
<1>2. inbox[n][p] = <<>> /\ inbox[p][n] = <<>>
  BY <1>1 DEF Answered
<1> QED BY <1>2, EmptyItems DEF AskedOK

LEMMA SameBackups == first' = first => Backups' = Backups
BY DEF Backups

LEMMA Numbers ==
  ASSUME IInv, NEW n \in Backups
  PROVE  /\ n \in Leaders /\ n \in Nat
         /\ election[n].term \in Nat /\ firing[n] \in Nat
BY LeadersAssumption DEF IInv, NodesOK, ElectionsOK, ElectionStates, Backups

LEMMA AskedStep ==
  ASSUME IInv, ElectInv, ArmedOK', IInv', Grow, Begins, Hears
  PROVE  AskedOK'
<1> USE DEF Grow
<1>0. Backups' = Backups
  BY SameBackups
<1> SUFFICES ASSUME NEW n \in Backups, NEW p \in Backups, NEW t \in Nat,
                    n < p, p \in up' \ restarted', Run(n, t)'
             PROVE  \/ Start(t) \in Items(inbox'[p][n])
                    \/ Ok(t) \in Items(inbox'[n][p])
                    \/ election'[p].term > t
  BY <1>0 DEF AskedOK
<1>1. /\ p \in up \ restarted /\ election'[p].term >= election[p].term
      /\ election[p].term \in Nat /\ election'[p].term \in Nat
  BY <1>0, Numbers DEF IInv, ElectionsOK, ElectionStates, Backups
<1>2. n \in up'
  BY DEF ArmedOK, Run, Backups
<1>3. CASE Run(n, t)
  <2>1. n \in up
    BY <1>3 DEF ElectInv, ArmedOK, Run, Backups
  <2>2. Effect(p, n, t) /\ Effect(n, p, t)
    BY <1>1, <1>2, <2>1 DEF Hears
  <2>3. \/ Start(t) \in Items(inbox[p][n])
        \/ Ok(t) \in Items(inbox[n][p])
        \/ election[p].term > t
    BY <1>1, <1>3 DEF ElectInv, AskedOK
  <2>4. CASE Start(t) \in Items(inbox[p][n])
    BY <1>2, <2>2, <2>4 DEF Effect
  <2>5. CASE Ok(t) \in Items(inbox[n][p])
    BY <2>2, <2>5 DEF Effect
  <2>6. CASE election[p].term > t
    BY <1>1, <2>6
  <2> QED BY <2>3, <2>4, <2>5, <2>6
<1>4. CASE ~Run(n, t)
  BY <1>4 DEF Begins
<1> QED BY <1>3, <1>4

LEMMA RefusedStep ==
  ASSUME IInv, ElectInv, IInv', Grow, Expires
  PROVE  RefusedOK'
<1> USE DEF Grow
<1>0. Backups' = Backups
  BY SameBackups
<1> SUFFICES ASSUME NEW n \in Backups, NEW p \in Backups, NEW t \in Nat,
                    n < p, p \in up' \ restarted', Fires(n, t)'
             PROVE  election'[p].term > t
  BY <1>0 DEF RefusedOK
<1>1. /\ p \in up \ restarted /\ election'[p].term >= election[p].term
      /\ election[p].term \in Nat /\ election'[p].term \in Nat
  BY <1>0, Numbers DEF IInv, ElectionsOK, ElectionStates, Backups
<1>2. Fires(n, t) \/ (Run(n, t) /\ Answered(n))
  BY DEF Expires
<1>3. election[p].term > t
  BY <1>1, <1>2, AnsweredAbove DEF ElectInv, RefusedOK
<1> QED BY <1>1, <1>3

LEMMA ToldStep ==
  ASSUME IInv, ElectInv, IInv', Grow, Begins, Hears, Declares
  PROVE  ToldOK'
<1> USE DEF Grow
<1>0. Backups' = Backups
  BY SameBackups
<1> SUFFICES ASSUME NEW n \in Backups, NEW p \in Backups, NEW t \in Nat,
                    n # p, n \in up' \ restarted', p \notin restarted', Won(p, t)'
             PROVE  \/ Win(t) \in Items(inbox'[n][p])
                    \/ election'[n].term >= t /\ ~Run(n, t)'
  BY <1>0 DEF ToldOK
<1>1. /\ n \in up \ restarted /\ election'[n].term >= election[n].term
      /\ p \notin restarted
      /\ election[n].term \in Nat /\ election'[n].term \in Nat
  BY <1>0, Numbers DEF IInv, ElectionsOK, ElectionStates, Backups
<1>2. CASE Won(p, t)
  <2>1. \/ Win(t) \in Items(inbox[n][p])
        \/ election[n].term >= t /\ ~Run(n, t)
    BY <1>1, <1>2 DEF ElectInv, ToldOK
  <2>2. CASE Win(t) \in Items(inbox[n][p])
    <3>1. Effect(n, p, t)
      BY <1>1 DEF Hears
    <3> QED BY <2>2, <3>1 DEF Effect
  <2>3. CASE election[n].term >= t /\ ~Run(n, t)
    BY <1>1, <2>3 DEF Begins
  <2> QED BY <2>1, <2>2, <2>3
<1>3. CASE ~Won(p, t)
  BY <1>3 DEF Declares
<1> QED BY <1>2, <1>3

LEMMA AloneStep ==
  ASSUME IInv, ElectInv, IInv', Grow, Expires, Declares
  PROVE  AloneOK'
<1> USE DEF Grow
<1>0. Backups' = Backups
  BY SameBackups
<1> SUFFICES ASSUME NEW n \in Backups, NEW p \in Backups, NEW t \in Nat,
                    n \notin restarted', p \notin restarted', n < p,
                    Won(n, t)' \/ Fires(n, t)'
             PROVE  /\ ~Won(p, t)' /\ ~Fires(p, t)'
                    /\ p \in up' => election'[p].term > t
  BY <1>0 DEF AloneOK
<1>1. /\ n \notin restarted /\ p \notin restarted
      /\ n \in Leaders /\ p \in Leaders /\ p \in HigherPeers(n) /\ n # p
      /\ election[p].term \in Nat
  BY Numbers DEF HigherPeers
<1>2. p \in up' => /\ p \in up /\ election'[p].term >= election[p].term
                   /\ election'[p].term \in Nat
  BY <1>0, <1>1 DEF IInv, ElectionsOK, ElectionStates
<1>3. Run(p, t) => p \in up /\ election[p].term = t
  BY <1>1 DEF Run, ElectInv, ArmedOK
<1>4. CASE Won(n, t) \/ Fires(n, t)
  <2>1. /\ ~Won(p, t) /\ ~Fires(p, t)
        /\ p \in up => election[p].term > t
    BY <1>1, <1>4 DEF ElectInv, AloneOK
  <2>2. ~Won(p, t)'
    BY <1>1, <2>1 DEF Declares
  <2>3. ~Fires(p, t)'
    BY <1>1, <1>3, <2>1 DEF Expires
  <2> QED BY <1>1, <1>2, <2>1, <2>2, <2>3
<1>5. CASE ~Won(n, t) /\ ~Fires(n, t)
  <2>1. Run(n, t) /\ Answered(n) /\ Acted /\ wins' = wins
    BY <1>1, <1>5 DEF Expires, Declares
  <2>2. p \in up => election[p].term > t
    BY <1>1, <2>1, AnsweredAbove DEF ElectInv
  <2>3. ~Won(p, t)'
    <3>1. n \in up \ restarted
      BY <1>1, <2>1 DEF Run, ElectInv, ArmedOK
    <3>2. inbox[n][p] = <<>>
      BY <1>1, <2>1 DEF Answered
    <3>3. ~Won(p, t)
      BY <1>1, <2>1, <3>1, <3>2, EmptyItems DEF ElectInv, ToldOK
    <3> QED BY <2>1, <3>3 DEF Won
  <2>4. ~Fires(p, t)'
    <3>1. ~Fires(p, t)
      BY <2>1 DEF Acted, Fires
    <3> QED BY <1>1, <1>3, <2>2, <3>1 DEF Expires
  <2> QED BY <1>1, <1>2, <2>2, <2>3, <2>4
<1> QED BY <1>4, <1>5

LEMMA ElectStep ==
  ASSUME IInv, IInv', ElectInv, ArmedOK', WinsOK',
         Grow, Begins, Hears, Expires, Declares
  PROVE  ElectInv'
BY AskedStep, RefusedStep, ToldStep, AloneStep DEF ElectInv

----------------------------------------------------------------------------
\* What the operators do to the mail and the elections.

\* Posting takes nothing away and reaches every other backup that runs.
LEMMA PostedItems ==
  ASSUME NEW box \in Mails, NEW n \in Leaders,
         NEW out \in [Leaders -> Seq(Message)]
  PROVE  /\ \A p, q \in Leaders : Items(box[p][q]) \subseteq Items(Posted(box, n, out)[p][q])
         /\ \A p \in (Backups \cap up) \ {n} : Items(out[p]) \subseteq Items(Posted(box, n, out)[p][n])
<1>1. ASSUME NEW p \in Leaders, NEW q \in Leaders
      PROVE  /\ Items(box[p][q]) \subseteq Items(Posted(box, n, out)[p][q])
             /\ p \in (Backups \cap up) \ {n} =>
                  Items(out[p]) \subseteq Items(Posted(box, n, out)[p][n])
  <2>1. /\ box[p] \in [Leaders -> Seq(Message)]
        /\ box[p][n] \in Seq(Message) /\ out[p] \in Seq(Message)
    BY DEF Mails
  <2>2. Items(box[p][n] \o out[p]) = Items(box[p][n]) \cup Items(out[p])
    BY <2>1, ConcatItems
  <2>3. CASE p \in (Backups \cap up) \ {n}
    <3>1. Posted(box, n, out)[p] = [box[p] EXCEPT ![n] = box[p][n] \o out[p]]
      BY <2>3 DEF Posted
    <3>2. /\ Posted(box, n, out)[p][n] = box[p][n] \o out[p]
          /\ q # n => Posted(box, n, out)[p][q] = box[p][q]
      BY <2>1, <3>1
    <3> QED BY <2>2, <3>2
  <2>4. CASE p \notin (Backups \cap up) \ {n}
    BY <2>4 DEF Posted
  <2> QED BY <2>3, <2>4
<1> QED BY <1>1 DEF Backups

\* Consuming takes the head of one queue away and nothing else.
LEMMA ConsumedItems ==
  ASSUME MailOK, NEW n \in Leaders, NEW q \in Leaders, inbox[n][q] # <<>>
  PROVE  /\ \A p, r \in Leaders : p # n \/ r # q => Consumed(n, q)[p][r] = inbox[p][r]
         /\ Items(inbox[n][q]) = Items(Consumed(n, q)[n][q]) \cup {Head(inbox[n][q])}
<1>1. /\ inbox \in Mails /\ inbox[n] \in [Leaders -> Seq(Message)]
      /\ inbox[n][q] \in Seq(Message)
  BY DEF MailOK, Mails
<1>2. Consumed(n, q)[n][q] = Tail(inbox[n][q])
  BY <1>1 DEF Consumed, Mails
<1>3. \A p, r \in Leaders : p # n \/ r # q => Consumed(n, q)[p][r] = inbox[p][r]
  BY <1>1 DEF Consumed, Mails
<1> QED BY <1>1, <1>2, <1>3, TailKeeps

LEMMA Kinds ==
  ASSUME NEW t
  PROVE  /\ Start(t).type = "ELECTION_START" /\ Start(t).term = t
         /\ Ok(t).type = "ELECTION_OK" /\ Ok(t).term = t
         /\ Win(t).type = "ELECTION_WIN" /\ Win(t).term = t
         /\ Announce(t).type = "ANNOUNCE" /\ Announce(t).term = t
BY DEF Start, Ok, Win, Announce

\* A victory: the mail gets the declaration, the election is over.
LEMMA VictoryDoes ==
  ASSUME ElectionsOK, NEW n \in Backups \cap up, NEW e, Sane(e), NEW t \in Nat,
         NEW box \in Mails, NEW out \in [Leaders -> Seq(Message)],
         DeclareVictory(n, e, t, box, out)
  PROVE  /\ election'[n].inElection = FALSE /\ election'[n].term = e.term
         /\ \A m \in Leaders : m # n => election'[m] = election[m]
         /\ \A p, q \in Leaders : Items(box[p][q]) \subseteq Items(inbox'[p][q])
         /\ \A p \in (Backups \cap up) \ {n} :
              Items(out[p]) \subseteq Items(inbox'[p][n]) /\ Win(t) \in Items(inbox'[p][n])
<1>0. n \in Leaders
  BY DEF Backups
<1>1. e.term \in Nat
  BY DEF Sane, ElectionStates
<1> DEFINE told == [p \in Leaders |-> out[p] \o <<Win(t), Announce(e.term)>>]
<1>2. ASSUME NEW p \in Leaders
      PROVE  /\ told[p] \in Seq(Message)
             /\ Items(out[p]) \subseteq Items(told[p]) /\ Win(t) \in Items(told[p])
  <2>1. /\ <<Win(t), Announce(e.term)>> \in Seq(Message)
        /\ Win(t) \in Items(<<Win(t), Announce(e.term)>>)
    BY <1>1, Messages, ShortItems
  <2> DEFINE two == <<Win(t), Announce(e.term)>>
  <2>2. told[p] = out[p] \o two /\ out[p] \in Seq(Message)
    OBVIOUS
  <2>3. two \in Seq(Message) /\ Win(t) \in Items(two)
    BY <2>1
  <2> HIDE DEF told, two
  <2>4. out[p] \o two \in Seq(Message)
    BY <2>2, <2>3, ConcatItems
  <2>5. Items(out[p] \o two) = Items(out[p]) \cup Items(two)
    BY <2>2, <2>3, ConcatItems
  <2> QED BY <2>2, <2>3, <2>4, <2>5
<1>3. told \in [Leaders -> Seq(Message)]
  BY <1>2
<1>4. inbox' = Posted(box, n, told)
  BY DEF DeclareVictory
<1>5. /\ \A p, q \in Leaders : Items(box[p][q]) \subseteq Items(inbox'[p][q])
      /\ \A p \in (Backups \cap up) \ {n} : Items(told[p]) \subseteq Items(inbox'[p][n])
  <2> HIDE DEF told
  <2> QED BY <1>0, <1>3, <1>4, PostedItems
<1>6. \A p \in (Backups \cap up) \ {n} :
        Items(out[p]) \subseteq Items(inbox'[p][n]) /\ Win(t) \in Items(inbox'[p][n])
  <2> HIDE DEF told
  <2> QED BY <1>2, <1>5 DEF Backups
<1>7. /\ election'[n].inElection = FALSE /\ election'[n].term = e.term
      /\ \A m \in Leaders : m # n => election'[m] = election[m]
  <2>1. election' = [election EXCEPT ![n] = [e EXCEPT !.inElection = FALSE]]
    BY DEF DeclareVictory
  <2>2. /\ [e EXCEPT !.inElection = FALSE].inElection = FALSE
        /\ [e EXCEPT !.inElection = FALSE].term = e.term
    BY DEF Sane, ElectionStates
  <2> QED BY <1>0, <2>1, <2>2 DEF ElectionsOK
<1> QED BY <1>5, <1>6, <1>7

\* The start of an election: in the next term, with questions to the higher
\* peers, or won at once.
LEMMA StartDoes ==
  ASSUME IInv, NEW n \in Backups \cap up, NEW e, Sane(e),
         NEW box \in Mails, NEW out \in [Leaders -> Seq(Message)],
         StartElection(n, e, box, out)
  PROVE  /\ election'[n].term = e.term + 1
         /\ election'[n].inElection =>
              /\ election'[n].timer = e.term + 1
              /\ \A p \in HigherPeers(n) \cap Backups \cap up :
                   Start(e.term + 1) \in Items(inbox'[p][n])
         /\ \A m \in Leaders : m # n => election'[m] = election[m]
         /\ \A p, q \in Leaders : Items(box[p][q]) \subseteq Items(inbox'[p][q])
         /\ \A p \in (Backups \cap up) \ {n} : Items(out[p]) \subseteq Items(inbox'[p][n])
         /\ \/ wins' = wins
            \/ /\ HigherPeers(n) = {}
               /\ wins' = wins \cup {[node |-> n, term |-> e.term + 1]}
               /\ \A p \in (Backups \cap up) \ {n} : Win(e.term + 1) \in Items(inbox'[p][n])
<1> DEFINE b == Begin(e)
<1>0. n \in Leaders /\ n \in Nat
  BY Numbers
<1>1. Sane(b) /\ b.term \in Nat
  BY BegunSane
<1>2. b.term = e.term + 1
  BY DEF Begin, Sane, ElectionStates
<1>3. CASE HigherPeers(n) = {}
  <2>1. DeclareVictory(n, b, b.term, box, out)
    BY <1>3 DEF StartElection
  <2>2. wins' = wins \cup {[node |-> n, term |-> b.term]}
    BY <2>1 DEF DeclareVictory
  <2> HIDE DEF b
  <2>3. /\ election'[n].inElection = FALSE /\ election'[n].term = b.term
        /\ \A m \in Leaders : m # n => election'[m] = election[m]
        /\ \A p, q \in Leaders : Items(box[p][q]) \subseteq Items(inbox'[p][q])
        /\ \A p \in (Backups \cap up) \ {n} :
             /\ Items(out[p]) \subseteq Items(inbox'[p][n])
             /\ Win(b.term) \in Items(inbox'[p][n])
    BY <1>1, <2>1, VictoryDoes DEF IInv
  <2> QED BY <1>2, <1>3, <2>2, <2>3
<1>4. CASE HigherPeers(n) # {}
  <2> DEFINE asks == [p \in Leaders |->
                        IF p \in HigherPeers(n) THEN Append(out[p], Start(b.term))
                                                ELSE out[p]]
             armed == [b EXCEPT !.timer = b.term]
  <2>1. /\ election' = [election EXCEPT ![n] = armed]
        /\ inbox' = Posted(box, n, asks) /\ wins' = wins
    BY <1>4 DEF StartElection
  <2>2. armed.term = e.term + 1 /\ armed.timer = e.term + 1
    <3> HIDE DEF b
    <3> QED BY <1>1, <1>2 DEF Sane, ElectionStates
  <2>3. /\ election'[n] = armed
        /\ \A m \in Leaders : m # n => election'[m] = election[m]
    <3> HIDE DEF armed
    <3> QED BY <1>0, <2>1 DEF IInv, ElectionsOK
  <2>4. ASSUME NEW p \in Leaders
        PROVE  /\ asks[p] \in Seq(Message) /\ Items(out[p]) \subseteq Items(asks[p])
               /\ p \in HigherPeers(n) => Start(e.term + 1) \in Items(asks[p])
    <3> HIDE DEF b
    <3>1. Start(b.term) \in Message /\ out[p] \in Seq(Message)
      BY <1>1, Messages
    <3>2. /\ Append(out[p], Start(b.term)) \in Seq(Message)
          /\ Items(Append(out[p], Start(b.term))) = Items(out[p]) \cup {Start(b.term)}
      BY <3>1, AppendItems, AppendKeeps
    <3> QED BY <1>2, <3>1, <3>2
  <2>5. asks \in [Leaders -> Seq(Message)]
    <3> HIDE DEF b
    <3> QED BY <2>4
  <2>6. /\ \A p, q \in Leaders : Items(box[p][q]) \subseteq Items(inbox'[p][q])
        /\ \A p \in (Backups \cap up) \ {n} : Items(asks[p]) \subseteq Items(inbox'[p][n])
    <3> HIDE DEF asks
    <3> QED BY <1>0, <2>1, <2>5, PostedItems
  <2>7. \A p \in (Backups \cap up) \ {n} : Items(out[p]) \subseteq Items(inbox'[p][n])
    <3> HIDE DEF asks
    <3> QED BY <2>4, <2>6 DEF Backups
  <2>8. \A p \in HigherPeers(n) \cap Backups \cap up :
          Start(e.term + 1) \in Items(inbox'[p][n])
    <3> HIDE DEF asks
    <3>1. \A p \in HigherPeers(n) : p \in Leaders /\ p # n
      BY <1>0, LeadersAssumption DEF HigherPeers
    <3> QED BY <2>4, <2>6, <3>1
  <2> HIDE DEF armed
  <2> QED BY <2>1, <2>2, <2>3, <2>6, <2>7, <2>8
<1> QED BY <1>3, <1>4

----------------------------------------------------------------------------
\* The turn of one backup: it consumes, changes its own election, and posts.

Heard(n, p, x) ==
  /\ x.type = "ELECTION_START" =>
       \/ p \in up => Ok(x.term) \in Items(inbox'[p][n])
       \/ election'[n].term > x.term
  /\ x.type \in {"ELECTION_OK", "ELECTION_WIN"} =>
       \/ election'[n].term > x.term
       \/ election'[n].term = x.term /\ ~election'[n].inElection

Turn(n) ==
  /\ n \in up /\ UNCHANGED <<first, up, restarted>>
  /\ \A m \in Leaders : m # n =>
       /\ election'[m] = election[m]
       /\ \A p \in Leaders : Items(inbox[m][p]) \subseteq Items(inbox'[m][p])
  /\ election'[n].term >= election[n].term
  /\ election'[n].inElection =>
       \/ /\ election[n].inElection /\ election'[n].term = election[n].term
          /\ election'[n].timer \in {0, election[n].timer}
       \/ /\ election'[n].term > election[n].term
          /\ election'[n].timer = election'[n].term
          /\ \A p \in HigherPeers(n) \cap Backups \cap up :
               Start(election'[n].term) \in Items(inbox'[p][n])
  /\ \A p \in Backups : \A x \in Items(inbox[n][p]) :
       x \in Items(inbox'[n][p]) \/ Heard(n, p, x)

LEMMA TurnSteps ==
  ASSUME IInv, ElectInv, IInv', NEW n \in Backups, Turn(n)
  PROVE  ArmedOK' /\ Grow /\ Begins /\ Hears
<1> USE DEF Turn
<1>0. /\ Backups' = Backups /\ \A m \in Backups : m \in Leaders
      /\ \A m \in Backups : election[m].term \in Nat /\ election'[m].term \in Nat
  BY SameBackups, Numbers DEF IInv, ElectionsOK, ElectionStates, Backups
<1>1. ArmedOK'
  BY <1>0 DEF ElectInv, ArmedOK
<1>2. Grow
  BY <1>0 DEF Grow
<1>3. Begins
  <2> SUFFICES ASSUME NEW m \in Backups, NEW t \in Nat, Run(m, t)', ~Run(m, t)
               PROVE  /\ election[m].term < t
                      /\ \A p \in Backups : m < p /\ p \in up' \ restarted' =>
                           Start(t) \in Items(inbox'[p][m])
    BY DEF Begins
  <2>1. m = n
    BY <1>0 DEF Run
  <2>2. election'[n].term = t /\ election[n].term < t
        /\ \A p \in HigherPeers(n) \cap Backups \cap up : Start(t) \in Items(inbox'[p][n])
    BY <1>0, <2>1 DEF Run
  <2> QED BY <1>0, <2>1, <2>2 DEF HigherPeers
<1>4. Hears
  <2> SUFFICES ASSUME NEW m \in Backups, NEW p \in Backups, NEW t \in Nat, m \in up
               PROVE  Effect(m, p, t)
    BY DEF Hears
  <2>1. CASE m # n
    BY <1>0, <2>1 DEF Effect
  <2>2. CASE m = n
    <3>1. ASSUME Start(t) \in Items(inbox[n][p]), Start(t) \notin Items(inbox'[n][p])
          PROVE  (p \in up => Ok(t) \in Items(inbox'[p][n])) \/ election'[n].term > t
      <4>1. Heard(n, p, Start(t))
        BY <3>1
      <4> QED BY <4>1, Kinds DEF Heard
    <3>2. ASSUME Ok(t) \in Items(inbox[n][p]), Ok(t) \notin Items(inbox'[n][p])
          PROVE  ~Run(n, t)'
      <4>1. Heard(n, p, Ok(t))
        BY <3>2
      <4>2. election'[n].term > t \/ (election'[n].term = t /\ ~election'[n].inElection)
        BY <4>1, Kinds DEF Heard
      <4> QED BY <1>0, <4>2 DEF Run
    <3>3. ASSUME Win(t) \in Items(inbox[n][p]), Win(t) \notin Items(inbox'[n][p])
          PROVE  election'[n].term >= t /\ ~Run(n, t)'
      <4>1. Heard(n, p, Win(t))
        BY <3>3
      <4>2. election'[n].term > t \/ (election'[n].term = t /\ ~election'[n].inElection)
        BY <4>1, Kinds DEF Heard
      <4> QED BY <1>0, <4>2 DEF Run
    <3> QED BY <2>2, <3>1, <3>2, <3>3 DEF Effect
  <2> QED BY <2>1, <2>2
<1> QED BY <1>1, <1>2, <1>3, <1>4

LEMMA SameWins == WinsOK /\ wins' = wins /\ first' = first => WinsOK' /\ Declares
BY SameBackups DEF WinsOK, Declares, Won

LEMMA SameTimers == firing' = firing => Expires
BY DEF Expires, Fires

\* A backup that starts an election from a state of its term or a later one.
LEMMA StartTurn ==
  ASSUME IInv, ElectInv, NEW n \in Backups \cap up,
         NEW e, Sane(e), e.term >= election[n].term,
         NEW box \in Mails, NEW out \in [Leaders -> Seq(Message)],
         StartElection(n, e, box, out), UNCHANGED <<first, up, restarted>>,
         \A m, p \in Leaders : m # n => Items(inbox[m][p]) \subseteq Items(box[m][p]),
         \A p \in Backups : \A x \in Items(inbox[n][p]) :
           x \in Items(box[n][p]) \/ Heard(n, p, x)
  PROVE  Turn(n) /\ WinsOK' /\ Declares
<1>0. n \in Backups /\ n \in Leaders /\ election[n].term \in Nat /\ e.term \in Nat
      /\ \A p \in Backups : p \in Leaders
  BY Numbers DEF Sane, ElectionStates, Backups
<1>1. /\ election'[n].term = e.term + 1
      /\ election'[n].inElection =>
           /\ election'[n].timer = e.term + 1
           /\ \A p \in HigherPeers(n) \cap Backups \cap up :
                Start(e.term + 1) \in Items(inbox'[p][n])
      /\ \A m \in Leaders : m # n => election'[m] = election[m]
      /\ \A p, q \in Leaders : Items(box[p][q]) \subseteq Items(inbox'[p][q])
      /\ \/ wins' = wins
         \/ /\ HigherPeers(n) = {}
            /\ wins' = wins \cup {[node |-> n, term |-> e.term + 1]}
            /\ \A p \in (Backups \cap up) \ {n} : Win(e.term + 1) \in Items(inbox'[p][n])
  BY StartDoes
<1>2. Turn(n)
  <2>1. \A m \in Leaders : m # n =>
          /\ election'[m] = election[m]
          /\ \A p \in Leaders : Items(inbox[m][p]) \subseteq Items(inbox'[m][p])
    BY <1>1
  <2>2. \A p \in Backups : \A x \in Items(inbox[n][p]) :
          x \in Items(inbox'[n][p]) \/ Heard(n, p, x)
    BY <1>0, <1>1
  <2>3. /\ election'[n].term > election[n].term
        /\ election'[n].term >= election[n].term
    BY <1>0, <1>1
  <2>4. election'[n].inElection =>
          /\ election'[n].timer = election'[n].term
          /\ \A p \in HigherPeers(n) \cap Backups \cap up :
               Start(election'[n].term) \in Items(inbox'[p][n])
    BY <1>1
  <2>5. n \in up /\ UNCHANGED <<first, up, restarted>>
    OBVIOUS
  <2> QED BY <2>1, <2>2, <2>3, <2>4, <2>5 DEF Turn
<1>3. CASE wins' = wins
  BY <1>2, <1>3, SameWins DEF ElectInv
<1>4. CASE wins' # wins
  <2>1. WinsOK'
    BY <1>0, <1>1, <1>4, SameBackups DEF ElectInv, WinsOK
  <2>2. Declares
    <3> SUFFICES ASSUME NEW m \in Backups, NEW t \in Nat, Won(m, t)', ~Won(m, t)
                 PROVE  /\ HigherPeers(m) = {} /\ m \in up /\ election[m].term < t
                        /\ \A p \in Backups : p # m /\ p \in up' =>
                             Win(t) \in Items(inbox'[p][m])
      BY DEF Declares
    <3>1. [node |-> m, term |-> t] = [node |-> n, term |-> e.term + 1]
      BY <1>1, <1>4 DEF Won
    <3>2. m = n /\ t = e.term + 1
      BY <3>1
    <3> QED BY <1>0, <1>1, <1>4, <3>2
  <2> QED BY <1>2, <2>1, <2>2
<1> QED BY <1>3, <1>4

\* What the invariant needs of a step.
Moves == ArmedOK' /\ WinsOK' /\ Grow /\ Begins /\ Hears /\ Expires /\ Declares

LEMMA MonitorMoves ==
  ASSUME IInv, ElectInv, IInv', NEW n \in Backups, Suspect(n) \/ StartSuspected(n)
  PROVE  Moves
<1>0. n \in Leaders /\ election[n].term \in Nat
  BY Numbers
<1>1. CASE Suspect(n)
  <2>1. n \in up /\ UNCHANGED <<first, up, election, firing, inbox, wins, restarted>>
    BY <1>1 DEF Suspect, history
  <2>2. Turn(n)
    BY <1>0, <2>1 DEF Turn, ElectInv, ArmedOK
  <2> QED BY <2>1, <2>2, TurnSteps, SameWins, SameTimers DEF Moves, ElectInv
<1>2. CASE StartSuspected(n)
  <2>1. /\ n \in Backups \cap up /\ Sane(election[n]) /\ inbox \in Mails
        /\ StartElection(n, election[n], inbox, Nothing)
        /\ UNCHANGED <<first, up, restarted, firing>>
    BY <1>0, <1>2 DEF IInv, NodesOK, ElectionsOK, MailOK, StartSuspected
  <2>2. Turn(n) /\ WinsOK' /\ Declares
    BY <1>0, <2>1, StartTurn, NoMessages
  <2> QED BY <2>1, <2>2, TurnSteps, SameTimers DEF Moves
<1> QED BY <1>1, <1>2

LEMMA TimerMoves ==
  ASSUME Timely, IInv, ElectInv, IInv', NEW n \in Backups,
         TimerExpires(n) \/ DeclareAfterTimeout(n)
  PROVE  Moves
<1>0. /\ n \in Leaders /\ election[n].term \in Nat /\ firing[n] \in Nat
      /\ Sane(election[n]) /\ \A m \in Backups : m \in Leaders
  BY Numbers DEF IInv, ElectionsOK, Backups
<1>1. CASE TimerExpires(n)
  <2>1. /\ n \in up /\ UNCHANGED <<first, up, inbox, wins, restarted>>
        /\ election[n].timer # 0 /\ Answered(n) /\ Acted
        /\ election' = [election EXCEPT ![n].timer = 0]
        /\ firing' = [firing EXCEPT ![n] =
                        IF election[n].inElection /\ ~election[n].receivedOk
                        THEN election[n].timer ELSE 0]
    BY <1>1 DEF TimerExpires, history
  <2>2. /\ election'[n].inElection = election[n].inElection
        /\ election'[n].term = election[n].term /\ election'[n].timer = 0
        /\ \A m \in Leaders : m # n => election'[m] = election[m]
    BY <1>0, <2>1 DEF IInv, ElectionsOK, ElectionStates
  <2>3. Turn(n)
    BY <1>0, <2>1, <2>2 DEF Turn
  <2>4. Expires
    <3> SUFFICES ASSUME NEW m \in Backups, NEW t \in Nat, Fires(m, t)', ~Fires(m, t)
                 PROVE  Run(m, t) /\ Answered(m) /\ Acted /\ wins' = wins
      BY DEF Expires
    <3>1. m = n
      BY <1>0, <2>1 DEF Fires, IInv, NodesOK
    <3>2. election[n].inElection /\ t = election[n].timer /\ t # 0
      BY <1>0, <2>1, <3>1 DEF Fires, IInv, NodesOK
    <3>3. t = election[n].term
      BY <1>0, <3>2 DEF ElectInv, ArmedOK
    <3> QED BY <2>1, <3>1, <3>2, <3>3 DEF Run
  <2> QED BY <2>1, <2>3, <2>4, TurnSteps, SameWins DEF Moves, ElectInv
<1>2. CASE DeclareAfterTimeout(n)
  <2>1. /\ firing[n] # 0 /\ firing' = [firing EXCEPT ![n] = 0]
        /\ n \in Backups \cap up /\ UNCHANGED <<first, up, restarted>>
        /\ DeclareVictory(n, election[n], firing[n], inbox, Nothing)
        /\ wins' = wins \cup {[node |-> n, term |-> firing[n]]}
    BY <1>0, <1>2 DEF DeclareAfterTimeout, DeclareVictory, IInv, NodesOK
  <2>2. /\ election'[n].inElection = FALSE /\ election'[n].term = election[n].term
        /\ \A m \in Leaders : m # n => election'[m] = election[m]
        /\ \A p, q \in Leaders : Items(inbox[p][q]) \subseteq Items(inbox'[p][q])
        /\ \A p \in (Backups \cap up) \ {n} : Win(firing[n]) \in Items(inbox'[p][n])
    BY <1>0, <2>1, VictoryDoes, NoMessages DEF IInv, MailOK
  <2>3. Turn(n)
    BY <1>0, <2>1, <2>2 DEF Turn
  <2>4. Expires
    BY <1>0, <2>1 DEF Expires, Fires, IInv, NodesOK
  <2>5. WinsOK'
    BY <1>0, <2>1, SameBackups DEF ElectInv, WinsOK
  <2>6. Declares
    <3> SUFFICES ASSUME NEW m \in Backups, NEW t \in Nat, Won(m, t)', ~Won(m, t)
                 PROVE  /\ Fires(m, t)
                        /\ \A p \in Backups : p # m /\ p \in up' =>
                             Win(t) \in Items(inbox'[p][m])
      BY DEF Declares
    <3>1. [node |-> m, term |-> t] = [node |-> n, term |-> firing[n]]
      BY <2>1 DEF Won
    <3>2. m = n /\ t = firing[n]
      BY <3>1
    <3> QED BY <2>1, <2>2, <3>2 DEF Fires
  <2> QED BY <2>3, <2>4, <2>5, <2>6, TurnSteps DEF Moves
<1> QED BY <1>1, <1>2

LEMMA AcceptedDoes ==
  ASSUME NEW e, Sane(e), NEW t \in Nat
  PROVE  /\ AcceptTerm(e, t).term >= e.term /\ AcceptTerm(e, t).term \in Nat
         /\ AcceptTerm(e, t).timer = e.timer
         /\ AcceptTerm(e, t).inElection => AcceptTerm(e, t) = e
         /\ ~Stale(e, t) => AcceptTerm(e, t).term = t
<1>1. CASE t > e.term
  <2> DEFINE r == [e EXCEPT !.term = t, !.inElection = FALSE,
                            !.receivedOk = FALSE]
  <2>1. r.term = t /\ r.timer = e.timer /\ r.inElection = FALSE
    BY DEF Sane, ElectionStates
  <2>2. AcceptTerm(e, t) = r /\ e.term \in Nat
    BY <1>1 DEF AcceptTerm, Sane, ElectionStates
  <2> HIDE DEF r
  <2> QED BY <1>1, <2>1, <2>2
<1>2. CASE ~(t > e.term)
  BY <1>2 DEF AcceptTerm, Stale, Sane, ElectionStates
<1> QED BY <1>1, <1>2

\* A backup that consumes a message and sends none.
LEMMA ConsumeTurn ==
  ASSUME IInv, ElectInv, NEW n \in Backups \cap up, NEW q \in Leaders,
         NEW r, inbox[n][q] # <<>>,
         UNCHANGED <<first, up, restarted>>, inbox' = Consumed(n, q),
         election' = [election EXCEPT ![n] = r], r.term >= election[n].term,
         r.inElection => /\ election[n].inElection /\ r.term = election[n].term
                         /\ r.timer = election[n].timer,
         Heard(n, q, Head(inbox[n][q]))
  PROVE  Turn(n)
<1>0. n \in Leaders /\ (\A p \in Backups : p \in Leaders)
      /\ election'[n] = r /\ MailOK
      /\ \A m \in Leaders : m # n => election'[m] = election[m]
  BY DEF IInv, ElectionsOK, Backups
<1>1. \A p, m \in Leaders : p # n \/ m # q => inbox'[p][m] = inbox[p][m]
  BY <1>0, ConsumedItems
<1>2. Items(inbox[n][q]) = Items(inbox'[n][q]) \cup {Head(inbox[n][q])}
  BY <1>0, ConsumedItems
<1>3. \A p \in Backups : \A x \in Items(inbox[n][p]) :
        x \in Items(inbox'[n][p]) \/ Heard(n, p, x)
  BY <1>0, <1>1, <1>2
<1>4. \A m \in Leaders : m # n => /\ election'[m] = election[m]
        /\ \A p \in Leaders : Items(inbox[m][p]) \subseteq Items(inbox'[m][p])
  BY <1>0, <1>1
<1>5. /\ n \in up /\ UNCHANGED <<first, up, restarted>>
      /\ election'[n].term >= election[n].term
      /\ election'[n].inElection =>
           /\ election[n].inElection /\ election'[n].term = election[n].term
           /\ election'[n].timer = election[n].timer
  BY <1>0
<1> QED BY <1>3, <1>4, <1>5 DEF Turn

LEMMA ReceiveMoves ==
  ASSUME IInv, ElectInv, IInv', NEW n \in Backups, NEW q \in Leaders, Receive(n, q)
  PROVE  Moves
<1> DEFINE h == Head(inbox[n][q])
           t == h.term
           e == AcceptTerm(election[n], t)
<1>0. /\ n \in Leaders /\ n \in Backups \cap up /\ inbox[n][q] # <<>>
      /\ Sane(election[n]) /\ MailOK /\ election[n].term \in Nat
      /\ UNCHANGED <<first, up, restarted, firing>>
  BY DEF IInv, ElectionsOK, Sane, ElectionStates, Backups, Receive, ReceiveStale,
         ReceiveStart, ReceiveOk, ReceiveWin, ReceiveAnnounce, Incoming, history
<1>1. /\ Consumed(n, q) \in Mails /\ n # q /\ t \in Nat
      /\ \A p \in Leaders : Consumed(n, q)[p][p] = <<>>
  BY <1>0, ConsumedMail
<1>2. /\ Sane(e) /\ e.term >= election[n].term /\ e.term \in Nat
      /\ e.timer = election[n].timer
      /\ e.inElection => e = election[n]
      /\ ~Stale(election[n], t) => e.term = t
  BY <1>0, <1>1, AcceptedSane, AcceptedDoes
<1>3. /\ SteppedBack(e).inElection = FALSE /\ SteppedBack(e).term = e.term
      /\ [SteppedBack(e) EXCEPT !.receivedOk = TRUE].inElection = FALSE
      /\ [SteppedBack(e) EXCEPT !.receivedOk = TRUE].term = e.term
  <2> HIDE DEF e
  <2> QED BY <1>2 DEF SteppedBack, Sane, ElectionStates
<1>4. CASE ReceiveStale(n, q)
  <2>1. /\ inbox' = Consumed(n, q) /\ UNCHANGED <<election, wins>>
        /\ Stale(election[n], t)
    BY <1>4 DEF ReceiveStale, history
  <2>2. Heard(n, q, h)
    BY <1>0, <1>1, <2>1 DEF Heard, Stale
  <2>3. election' = [election EXCEPT ![n] = election[n]]
    BY <2>1 DEF IInv, ElectionsOK
  <2>4. Turn(n)
    <3> DEFINE r == election[n]
    <3>1. /\ r.term >= election[n].term
          /\ r.inElection => /\ election[n].inElection /\ r.term = election[n].term
                             /\ r.timer = election[n].timer
          /\ election' = [election EXCEPT ![n] = r]
      BY <1>0, <2>3
    <3> HIDE DEF r
    <3> QED BY <1>0, <2>1, <2>2, <3>1, ConsumeTurn
  <2> QED BY <1>0, <2>1, <2>4, TurnSteps, SameWins, SameTimers DEF Moves, ElectInv
<1>5. CASE ReceiveStart(n, q)
  <2> DEFINE out == [Nothing EXCEPT ![q] = <<Ok(t)>>]
  <2>1. /\ out \in [Leaders -> Seq(Message)] /\ Ok(t) \in Items(out[q])
    BY <1>1, Messages, NoMessages, ShortItems
  <2>2. h.type = "ELECTION_START"
    BY <1>5 DEF ReceiveStart, Incoming
  <2>3. /\ \A p, r \in Leaders : p # n \/ r # q => Consumed(n, q)[p][r] = inbox[p][r]
        /\ Items(inbox[n][q]) = Items(Consumed(n, q)[n][q]) \cup {h}
    BY <1>0, ConsumedItems
  <2>4. ASSUME \A p \in (Backups \cap up) \ {n} : Items(out[p]) \subseteq Items(inbox'[p][n])
        PROVE  \A p \in Backups : \A x \in Items(inbox[n][p]) :
                 x \in Items(Consumed(n, q)[n][p]) \/ Heard(n, p, x)
    <3>1. q \in Backups => Heard(n, q, h)
      BY <1>1, <2>1, <2>2, <2>4 DEF Heard
    <3> HIDE DEF h
    <3> QED BY <1>0, <2>3, <3>1 DEF Backups
  <2>5. CASE e.inElection
    <3>1. /\ election' = [election EXCEPT ![n] = e] /\ wins' = wins
          /\ inbox' = Posted(Consumed(n, q), n, out)
      BY <1>5, <2>5 DEF ReceiveStart
    <3>2. /\ \A p, r \in Leaders : Items(Consumed(n, q)[p][r]) \subseteq Items(inbox'[p][r])
          /\ \A p \in (Backups \cap up) \ {n} : Items(out[p]) \subseteq Items(inbox'[p][n])
      <4> HIDE DEF out
      <4> QED BY <1>0, <1>1, <2>1, <3>1, PostedItems
    <3>3. election' = election
      BY <1>0, <1>2, <2>5, <3>1 DEF IInv, ElectionsOK
    <3>4. \A p \in Backups : \A x \in Items(inbox[n][p]) :
            x \in Items(inbox'[n][p]) \/ Heard(n, p, x)
      BY <1>0, <2>4, <3>2 DEF Backups
    <3>5. \A m \in Leaders : m # n =>
            \A p \in Leaders : Items(inbox[m][p]) \subseteq Items(inbox'[m][p])
      BY <2>3, <3>2
    <3>6. /\ n \in up /\ UNCHANGED <<first, up, restarted>>
          /\ election'[n].term >= election[n].term
          /\ election'[n].inElection =>
               /\ election[n].inElection /\ election'[n].term = election[n].term
               /\ election'[n].timer \in {0, election[n].timer}
      BY <1>0, <3>3
    <3>7. Turn(n)
      BY <3>3, <3>4, <3>5, <3>6 DEF Turn
    <3> QED BY <1>0, <3>1, <3>7, TurnSteps, SameWins, SameTimers DEF Moves, ElectInv
  <2>6. CASE ~e.inElection
    <3>1. StartElection(n, e, Consumed(n, q), out)
      BY <1>5, <2>6 DEF ReceiveStart
    <3> HIDE DEF e, out, h
    <3>2. \A p \in (Backups \cap up) \ {n} : Items(out[p]) \subseteq Items(inbox'[p][n])
      BY <1>0, <1>1, <1>2, <2>1, <3>1, StartDoes
    <3>3. \A p \in Backups : \A x \in Items(inbox[n][p]) :
            x \in Items(Consumed(n, q)[n][p]) \/ Heard(n, p, x)
      BY <2>4, <3>2
    <3>4. \A m, p \in Leaders : m # n =>
            Items(inbox[m][p]) \subseteq Items(Consumed(n, q)[m][p])
      BY <2>3
    <3>5. Turn(n) /\ WinsOK' /\ Declares
      BY <1>0, <1>1, <1>2, <2>1, <3>1, <3>3, <3>4, StartTurn
    <3> QED BY <1>0, <3>5, TurnSteps, SameTimers DEF Moves
  <2> QED BY <2>5, <2>6
<1>6. CASE ReceiveOk(n, q) \/ ReceiveWin(n, q)
  <2>1. PICK r : /\ r.inElection = FALSE /\ r.term = e.term
                 /\ election' = [election EXCEPT ![n] = r]
                 /\ inbox' = Consumed(n, q) /\ wins' = wins
                 /\ ~Stale(election[n], t)
    BY <1>3, <1>6 DEF ReceiveOk, ReceiveWin, history
  <2>2. h.type \in {"ELECTION_OK", "ELECTION_WIN"}
    BY <1>6 DEF ReceiveOk, ReceiveWin, Incoming
  <2>3. election'[n] = r
    BY <1>0, <2>1 DEF IInv, ElectionsOK
  <2>4. Heard(n, q, h)
    BY <1>2, <2>1, <2>2, <2>3 DEF Heard
  <2>5. Turn(n)
    BY <1>0, <1>2, <2>1, <2>4, ConsumeTurn
  <2> QED BY <1>0, <2>1, <2>5, TurnSteps, SameWins, SameTimers DEF Moves, ElectInv
<1>7. CASE ReceiveAnnounce(n, q)
  <2>1. /\ election' = [election EXCEPT ![n] = e]
        /\ inbox' = Consumed(n, q) /\ wins' = wins /\ h.type = "ANNOUNCE"
    BY <1>0, <1>7 DEF IInv, ElectionsOK, ReceiveAnnounce, Incoming
  <2>2. Heard(n, q, h)
    BY <2>1 DEF Heard
  <2>3. Turn(n)
    BY <1>0, <1>2, <2>1, <2>2, ConsumeTurn
  <2> QED BY <1>0, <2>1, <2>3, TurnSteps, SameWins, SameTimers DEF Moves, ElectInv
<1> QED BY <1>4, <1>5, <1>6, <1>7 DEF Receive

\* A step that starts no election, fires no timer and declares no victory.
LEMMA QuietMoves ==
  ASSUME IInv, ElectInv, first' = first, restarted \subseteq restarted', wins' = wins,
         \A p \in Backups : p \in up' \ restarted' => p \in up,
         \A m \in Leaders : m \in up \cap up' =>
           /\ election'[m] = election[m]
           /\ \A p \in Leaders : Items(inbox[m][p]) \subseteq Items(inbox'[m][p]),
         \A m \in Leaders : election'[m].inElection =>
           m \in up' /\ election'[m] = election[m],
         \A m \in Leaders : firing'[m] \in {0, firing[m]}
  PROVE  Moves
<1>0. \A m \in Backups : m \in Leaders /\ election[m].term \in Nat
  BY Numbers
<1>1. ArmedOK'
  BY DEF ElectInv, ArmedOK
<1>2. Grow
  BY <1>0 DEF Grow
<1>3. Begins
  BY <1>0 DEF Begins, Run
<1>4. Hears
  BY <1>0 DEF Hears, Effect
<1>5. Expires
  BY <1>0 DEF Expires, Fires
<1> QED BY <1>1, <1>2, <1>3, <1>4, <1>5, SameWins DEF Moves, ElectInv

LEMMA FaultMoves ==
  ASSUME IInv, ElectInv, NEW n \in Leaders, Crash(n) \/ WillFires(n) \/ Restart(n)
  PROVE  Moves
<1> DEFINE news == [p \in Leaders |-> <<Announce(1)>>]
<1>0. news \in [Leaders -> Seq(Message)] /\ inbox \in Mails
      /\ \A m \in Leaders : firing[m] \in Nat
  BY Messages, ShortItems DEF IInv, MailOK, NodesOK
<1>1. \A p, q \in Leaders : Items(inbox[p][q]) \subseteq Items(Posted(inbox, n, news)[p][q])
  <2> HIDE DEF news
  <2> QED BY <1>0, PostedItems
<1>2. CASE Crash(n)
  <2>1. /\ UNCHANGED <<first, restarted, wins>> /\ up' = up \ {n}
        /\ \A m \in Leaders : m # n => /\ election'[m] = election[m]
                                       /\ inbox'[m] = inbox[m]
                                       /\ firing'[m] = firing[m]
        /\ firing'[n] = 0 /\ election'[n] = Fresh
    BY <1>2 DEF Crash
  <2>2. Fresh.inElection = FALSE
    BY DEF Fresh
  <2>3. \A m \in Leaders : election'[m].inElection =>
           m \in up' /\ election'[m] = election[m]
    BY <2>1, <2>2 DEF ElectInv, ArmedOK
  <2>4. \A m \in Leaders : m \in up \cap up' =>
           /\ election'[m] = election[m]
           /\ \A p \in Leaders : Items(inbox[m][p]) \subseteq Items(inbox'[m][p])
    BY <2>1
  <2>5. \A m \in Leaders : firing'[m] \in {0, firing[m]}
    BY <2>1
  <2> QED BY <2>1, <2>3, <2>4, <2>5, QuietMoves
<1>3. CASE WillFires(n) \/ Restart(n)
  <2>1. /\ UNCHANGED <<first, election, firing, wins>>
        /\ restarted \subseteq restarted' /\ up \subseteq up'
        /\ \A p \in Backups : p \in up' \ restarted' => p \in up
    BY <1>3 DEF WillFires, Restart, history, Backups
  <2>2. \A m \in Leaders : m \in up \cap up' =>
           \A p \in Leaders : Items(inbox[m][p]) \subseteq Items(inbox'[m][p])
    <3>1. CASE inbox' = inbox
      BY <3>1
    <3>2. CASE inbox' = Posted(inbox, n, news)
      BY <1>1, <3>2
    <3>3. CASE inbox' # inbox /\ inbox' # Posted(inbox, n, news)
      <4>1. Restart(n) /\ n # first
        BY <1>3, <3>3 DEF WillFires, Restart
      <4>2. n \notin up /\ \A m \in Leaders : m # n => inbox'[m] = inbox[m]
        BY <1>0, <4>1 DEF Restart, Mails
      <4> QED BY <4>2
    <3> QED BY <3>1, <3>2, <3>3
  <2>3. \A m \in Leaders : election'[m].inElection =>
           m \in up' /\ election'[m] = election[m]
    BY <2>1 DEF ElectInv, ArmedOK
  <2>4. \A m \in Leaders : firing'[m] \in {0, firing[m]}
    BY <2>1
  <2> QED BY <2>1, <2>2, <2>3, <2>4, QuietMoves
<1> QED BY <1>2, <1>3

----------------------------------------------------------------------------
\* The theorems.

LEMMA ElectInit == Init => ElectInv
<1> SUFFICES ASSUME Init PROVE ElectInv
  OBVIOUS
<1>1. \A n \in Leaders : election[n] = Fresh /\ firing[n] = 0
  BY DEF Init
<1>2. Fresh.inElection = FALSE
  BY DEF Fresh
<1>3. ArmedOK /\ AskedOK
  BY <1>1, <1>2 DEF ArmedOK, AskedOK, Run, Backups
<1>4. WinsOK /\ RefusedOK /\ ToldOK /\ AloneOK
  BY <1>1 DEF Init, WinsOK, RefusedOK, ToldOK, AloneOK, Won, Fires, Backups
<1> QED BY <1>3, <1>4 DEF ElectInv

LEMMA ElectNext ==
  ASSUME Timely, IInv, ElectInv, [Next]_vars
  PROVE  ElectInv'
<1>0. IInv'
  BY NextKeeps
<1>1. CASE Next
  <2>1. Moves
    BY <1>0, <1>1, MonitorMoves, TimerMoves, ReceiveMoves, FaultMoves DEF Next
  <2> QED BY <1>0, <2>1, ElectStep DEF Moves
<1>2. CASE UNCHANGED vars
  <2>1. /\ Backups' = Backups
        /\ UNCHANGED <<up, election, firing, inbox, wins, restarted>>
    BY <1>2 DEF vars, history, Backups
  <2> QED BY <2>1 DEF ElectInv, ArmedOK, WinsOK, AskedOK, RefusedOK, ToldOK,
                      AloneOK, Run, Won, Fires
<1> QED BY <1>1, <1>2

LEMMA ElectAlone == IInv /\ ElectInv => OneWinnerPerTerm
<1> SUFFICES ASSUME IInv, ElectInv, NEW v \in wins, NEW w \in wins,
                    v.term = w.term, v.node # w.node,
                    v.node \notin restarted, w.node \notin restarted
             PROVE  FALSE
  BY DEF OneWinnerPerTerm
<1>1. /\ v.node \in Backups /\ w.node \in Backups /\ v.term \in Nat
      /\ v = [node |-> v.node, term |-> v.term]
      /\ w = [node |-> w.node, term |-> v.term]
  BY DEF ElectInv, WinsOK
<1>2. Won(v.node, v.term) /\ Won(w.node, v.term)
  BY <1>1 DEF Won
<1>3. v.node < w.node \/ w.node < v.node
  BY <1>1, Numbers
<1> QED BY <1>1, <1>2, <1>3 DEF ElectInv, AloneOK

LEMMA ElectRefused ==
  ASSUME IInv, ElectInv, NEW n \in Backups, DeclareAfterTimeout(n),
         NEW p \in (HigherPeers(n) \cap Backups \cap up) \ restarted
  PROVE  election[p].term > firing[n]
<1>1. Fires(n, firing[n]) /\ firing[n] \in Nat /\ n < p /\ n \in Nat
  BY Numbers, LeadersAssumption DEF DeclareAfterTimeout, Fires, HigherPeers
<1> QED BY <1>1 DEF ElectInv, RefusedOK

\* A term has one winner, however many leaders, crashes, restarts and false
\* time-outs, as long as answers arrive before the timer expires: two nodes
\* declare victory in the same term only if one of them restarted and forgot it.
THEOREM OneWinner == Timely /\ Spec => []OneWinnerPerTerm
<1>1. Timely /\ Init => Timely /\ IInv /\ ElectInv
  BY Start0, ElectInit
<1>2. Timely /\ IInv /\ ElectInv /\ [Next]_vars => (Timely /\ IInv /\ ElectInv)'
  BY NextKeeps, ElectNext
<1>3. Timely /\ IInv /\ ElectInv => OneWinnerPerTerm
  BY ElectAlone
<1> QED BY <1>1, <1>2, <1>3, PTL DEF Spec

\* Under the same assumption a node wins by time-out only when every higher
\* peer that has run all the while is in a later term (_timeout_handler).
THEOREM NobodyOverridden == Timely /\ Spec => TimeoutOverridesNobody
<1>1. Timely /\ Init => Timely /\ IInv /\ ElectInv
  BY Start0, ElectInit
<1>2. Timely /\ IInv /\ ElectInv /\ [Next]_vars => (Timely /\ IInv /\ ElectInv)'
  BY NextKeeps, ElectNext
<1>3. Timely /\ IInv /\ ElectInv /\ [Next]_vars =>
        [\A n \in Backups : DeclareAfterTimeout(n) =>
           \A p \in (HigherPeers(n) \cap Backups \cap up) \ restarted :
             election[p].term > firing[n]]_vars
  BY ElectRefused
<1> QED BY <1>1, <1>2, <1>3, PTL DEF Spec, TimeoutOverridesNobody
=============================================================================
