------------------------- MODULE ApprovalGateProofs -------------------------
(***************************************************************************)
(* Proofs about ApprovalGate, for every set of commands and every bound on *)
(* faults.                                                                 *)
(***************************************************************************)
EXTENDS ApprovalGate, TLAPS

-----------------------------------------------------------------------------
(* What the operations on a queue do to its contents.                      *)

Items(s) == { s[i] : i \in DOMAIN s }

\* Taking the head of a queue, or dropping it.
LEMMA TailItems ==
  ASSUME NEW S, NEW s \in Seq(S), s # <<>>
  PROVE  /\ Tail(s) \in Seq(S) /\ Items(Tail(s)) \subseteq Items(s)
         /\ Head(s) \in S /\ Head(s) \in Items(s)
BY DEF Items

\* Adding a message at the end, possibly one that is already there.
LEMMA AppendItems ==
  ASSUME NEW S, NEW s \in Seq(S), NEW e \in S
  PROVE  Append(s, e) \in Seq(S) /\ Items(Append(s, e)) \subseteq Items(s) \cup {e}
BY DEF Items

\* Queues of no, one and two messages.
LEMMA ShortItems ==
  /\ \A S : <<>> \in Seq(S) /\ Items(<<>>) = {}
  /\ \A S : \A a \in S : <<a>> \in Seq(S) /\ Items(<<a>>) = {a}
  /\ \A S : \A a, b \in S : <<a, b>> \in Seq(S) /\ Items(<<a, b>>) = {a, b}
BY DEF Items

-----------------------------------------------------------------------------
\* A decision at the head of the inbox.
LEMMA HeadDecision ==
  ASSUME TypeOK, inbox # <<>>
  PROVE  Head(inbox)[1] \in Cmd /\ Head(inbox)[2] \in Decision
<1>1. Head(inbox) \in Cmd \X Decision
  BY TailItems DEF TypeOK
<1> QED BY <1>1

\* Only the operator adds a decision that was not on its way already.
LEMMA InboxMoves ==
  ASSUME TypeOK,
         LoseDecision \/ RepeatDecision \/ Receive \/ Restart \/ UNCHANGED inbox
  PROVE  inbox' \in Seq(Cmd \X Decision) /\ Items(inbox') \subseteq Items(inbox)
<1>1. inbox \in Seq(Cmd \X Decision)
  BY DEF TypeOK
<1>2. CASE LoseDecision \/ Receive
  <2>1. inbox # <<>> /\ inbox' = Tail(inbox)
    BY <1>2 DEF LoseDecision, Receive
  <2> QED BY <1>1, <2>1, TailItems
<1>3. CASE RepeatDecision
  <2>1. PICK i \in DOMAIN inbox : inbox' = Append(inbox, inbox[i])
    BY <1>3 DEF RepeatDecision
  <2>2. inbox[i] \in Cmd \X Decision /\ inbox[i] \in Items(inbox)
    BY <1>1 DEF Items
  <2> QED BY <1>1, <2>1, <2>2, AppendItems
<1>4. CASE Restart \/ UNCHANGED inbox
  BY <1>1, <1>4, ShortItems DEF Restart
<1> QED BY <1>2, <1>3, <1>4

LEMMA TypeStep ==
  ASSUME TypeOK, [Next]_vars
  PROVE  TypeOK'
<1> USE GateAssumption DEF store, threads, Status, Decision
<1> DEFINE OpOK == /\ op \in [at : {"rest", "send", "store", "save", "tell"},
                              p : Cmd \cup {NoCmd}, d : Decision \cup {"NONE"}]
                   /\ op.at # "rest" => op.p \in Cmd /\ op.d \in Decision
           SweepOK == /\ sweep \in [at : {"rest", "expire", "save", "tell"},
                                    p : Cmd \cup {NoCmd}, todo : SUBSET Cmd]
                      /\ sweep.at \in {"save", "tell"} => sweep.p \in Cmd
<1>a. Rest \in [at : {"rest", "send", "store", "save", "tell"},
                p : Cmd \cup {NoCmd}, d : Decision \cup {"NONE"}] /\ Rest.at = "rest"
  BY DEF Rest
<1>b. SweepRest \in [at : {"rest", "expire", "save", "tell"},
                     p : Cmd \cup {NoCmd}, todo : SUBSET Cmd] /\ SweepRest.at = "rest"
  BY DEF SweepRest
<1>1. ASSUME NEW p \in Cmd, SubmitSafe(p) \/ SubmitRisky(p) \/ Elapse(p)
      PROVE  TypeOK'
  <2>1. CASE SubmitSafe(p)
    BY <2>1 DEF TypeOK, SubmitSafe, Dispatch
  <2>2. CASE SubmitRisky(p)
    BY <2>2 DEF TypeOK, SubmitRisky, Tell
  <2>3. CASE Elapse(p)
    BY <2>3 DEF TypeOK, Elapse
  <2> QED BY <1>1, <2>1, <2>2, <2>3
<1>2. ASSUME NEW p \in Cmd, SubmitThenDie(p)
      PROVE  TypeOK'
  BY <1>2, <1>a, <1>b DEF TypeOK, SubmitThenDie, Fault
<1>3. ASSUME NEW p \in Cmd, NEW d \in Decision, Decide(p, d)
      PROVE  TypeOK'
  <2>1. inbox' \in Seq(Cmd \X Decision)
    BY <1>3 DEF TypeOK, Decide
  <2> QED BY <1>3, <2>1 DEF TypeOK, Decide
<1>4. CASE LoseDecision \/ RepeatDecision
  <2>1. inbox' \in Seq(Cmd \X Decision)
    BY <1>4, InboxMoves
  <2>2. faults' \in Nat /\ UNCHANGED <<store, active, threads, decided, sent, told, crashes>>
    BY <1>4 DEF TypeOK, LoseDecision, RepeatDecision, Fault
  <2> QED BY <2>1, <2>2 DEF TypeOK
<1>5. CASE Receive
  <2>1. OpOK'
    <3>1. \/ op' = Rest
          \/ op' = Work(FirstStep(Head(inbox)[2]), Head(inbox)[1], Head(inbox)[2])
      BY <1>5 DEF Receive
    <3>2. Head(inbox)[1] \in Cmd /\ Head(inbox)[2] \in Decision
      BY <1>5, HeadDecision DEF Receive
    <3> QED BY <1>a, <3>1, <3>2 DEF Work, FirstStep
  <2>2. inbox' \in Seq(Cmd \X Decision)
    BY <1>5, InboxMoves
  <2> QED BY <1>5, <2>1, <2>2 DEF TypeOK, Receive
<1>6. CASE SendApproved \/ SendRaises
  <2>1. OpOK'
    BY <1>6, <1>a DEF TypeOK, SendApproved, SendRaises
  <2>2. sent' \in [Cmd -> Nat] /\ faults' \in Nat
    BY <1>6 DEF TypeOK, SendApproved, SendRaises, Dispatch, Fault
  <2> QED BY <1>6, <2>1, <2>2 DEF TypeOK, SendApproved, SendRaises
<1>7. CASE StoreDecision \/ SaveDecision
  <2>1. OpOK'
    BY <1>7 DEF TypeOK, StoreDecision, SaveDecision
  <2>2. mem' \in [Cmd -> Status] /\ row' \in [Cmd -> Status]
    BY <1>7 DEF TypeOK, StoreDecision, SaveDecision
  <2> QED BY <1>7, <2>1, <2>2 DEF TypeOK, StoreDecision, SaveDecision
<1>8. CASE TellDecision
  <2>1. OpOK' /\ told' \subseteq Cmd \X Status
    BY <1>8, <1>a DEF TypeOK, TellDecision, Tell
  <2> QED BY <1>8, <2>1 DEF TypeOK, TellDecision
<1>9. CASE ListStale
  BY <1>9 DEF TypeOK, ListStale, Stale
<1>10. CASE ExpireOne
  BY <1>10 DEF TypeOK, ExpireOne
<1>11. CASE SaveExpired
  <2>1. SweepOK' /\ row' \in [Cmd -> Status]
    BY <1>11 DEF TypeOK, SaveExpired
  <2> QED BY <1>11, <2>1 DEF TypeOK, SaveExpired
<1>12. CASE TellExpired
  <2>1. SweepOK' /\ told' \subseteq Cmd \X Status
    BY <1>12 DEF TypeOK, TellExpired, Tell, ExpiryEvent
  <2> QED BY <1>12, <2>1 DEF TypeOK, TellExpired
<1>13. CASE Restart \/ ChangeRole
  <2>1. OpOK' /\ SweepOK'
    BY <1>13, <1>a, <1>b DEF TypeOK, Restart, ChangeRole
  <2>2. inbox' \in Seq(Cmd \X Decision)
    BY <1>13, InboxMoves DEF ChangeRole
  <2>5. mem' \in [Cmd -> Status] /\ active' \in BOOLEAN
    BY <1>13 DEF TypeOK, Restart, ChangeRole
  <2>3. crashes' \in Nat /\ faults' \in Nat
    BY <1>13 DEF TypeOK, Restart, ChangeRole, Fault
  <2>4. UNCHANGED <<row, due, decided, sent, told>>
    BY <1>13 DEF Restart, ChangeRole
  <2> QED BY <2>1, <2>2, <2>3, <2>4, <2>5 DEF TypeOK
<1>14. CASE UNCHANGED vars
  BY <1>14 DEF TypeOK, vars
<1> QED BY <1>1, <1>2, <1>3, <1>4, <1>5, <1>6, <1>7, <1>8, <1>9, <1>10, <1>11, <1>12,
           <1>13, <1>14 DEF Next, ThreadStep, SweepStep

\* Every variable keeps its type in every behaviour of the gate.
THEOREM TypeCorrect == Spec => []TypeOK
<1>1. Init => TypeOK
  BY DEF Init, TypeOK, Status, Rest, SweepRest
<1> QED BY <1>1, TypeStep, PTL DEF Spec

-----------------------------------------------------------------------------
(* A risky command is dispatched only on the operator's approval           *)

\* Everything that carries a decision carries one the operator gave.
Authentic ==
  /\ \A m \in Items(inbox) : m[2] \in decided[m[1]]
  /\ op.at # "rest" => op.d \in decided[op.p] /\ op.p \notin Safe
  /\ op.at = "send" => op.d = "APPROVED"
\* Safe commands are never held, nor listed for expiry.
SafeNotHeld == \A p \in Safe :
                 mem[p] = "NONE" /\ row[p] = "NONE" /\ p \notin sweep.todo /\ p # sweep.p
Approval == Authentic /\ SafeNotHeld /\ OnlyOnApproval

LEMMA ApprovalStep ==
  ASSUME TypeOK, Approval, [Next]_vars
  PROVE  Approval'
<1> USE GateAssumption DEF store, threads
<1>1. ASSUME NEW p \in Cmd, SubmitSafe(p) \/ SubmitRisky(p) \/ Elapse(p) \/ SubmitThenDie(p)
      PROVE  Approval'
  <2>1. Authentic'
    BY <1>1 DEF Approval, Authentic, SubmitSafe, SubmitRisky, Elapse, SubmitThenDie, Rest
  <2>2. SafeNotHeld'
    <3>1. CASE SubmitSafe(p) \/ Elapse(p)
      BY <3>1 DEF Approval, SafeNotHeld, SubmitSafe, Elapse
    <3>2. CASE SubmitRisky(p)
      BY <3>2 DEF TypeOK, Approval, SafeNotHeld, SubmitRisky
    <3>3. CASE SubmitThenDie(p)
      BY <3>3 DEF TypeOK, Approval, SafeNotHeld, SubmitThenDie, SweepRest
    <3> QED BY <1>1, <3>1, <3>2, <3>3
  <2>3. OnlyOnApproval'
    BY <1>1 DEF TypeOK, Approval, OnlyOnApproval, SubmitSafe, SubmitRisky, Elapse, SubmitThenDie,
                Dispatch
  <2> QED BY <2>1, <2>2, <2>3 DEF Approval
<1>2. ASSUME NEW p \in Cmd, NEW d \in Decision, Decide(p, d)
      PROVE  Approval'
  <2>1. \A q \in Cmd : decided[q] \subseteq decided'[q]
    BY <1>2 DEF TypeOK, Decide
  <2>2. d \in decided'[p]
    BY <1>2 DEF TypeOK, Decide
  <2>3. ASSUME NEW m \in Items(inbox')
        PROVE  m[2] \in decided'[m[1]]
    <3>1. m = <<p, d>> \/ m \in Items(inbox)
      <4> DEFINE e == <<p, d>>
      <4>1. inbox' = Append(inbox, e) /\ e \in Cmd \X Decision /\ inbox \in Seq(Cmd \X Decision)
        BY <1>2 DEF TypeOK, Decide
      <4> HIDE DEF e
      <4>2. m = e \/ m \in Items(inbox)
        BY <4>1, AppendItems
      <4> QED BY <4>2 DEF e
    <3>2. CASE m = <<p, d>>
      BY <2>2, <3>2
    <3>3. CASE m \in Items(inbox)
      <4>1. m[1] \in Cmd
        <5>1. m \in Cmd \X Decision
          BY <3>3 DEF TypeOK, Items
        <5> QED BY <5>1
      <4> QED BY <2>1, <3>3, <4>1 DEF Approval, Authentic
    <3> QED BY <3>1, <3>2, <3>3
  <2>4. UNCHANGED <<op, sweep, mem, row, sent>>
    BY <1>2 DEF Decide
  <2>5. Authentic'
    <3>1. op.at # "rest" => op.d \in decided'[op.p]
      BY <2>1 DEF TypeOK, Approval, Authentic
    <3> QED BY <2>3, <2>4, <3>1 DEF Approval, Authentic
  <2> QED BY <2>1, <2>4, <2>5 DEF Approval, SafeNotHeld, OnlyOnApproval
<1>3. ASSUME UNCHANGED <<op, decided, sent>>, SafeNotHeld',
             Items(inbox') \subseteq Items(inbox)
      PROVE  Approval'
  BY <1>3 DEF Approval, Authentic, OnlyOnApproval
<1>4. CASE LoseDecision \/ RepeatDecision
  <2>1. Items(inbox') \subseteq Items(inbox)
    BY <1>4, InboxMoves
  <2> QED BY <1>3, <1>4, <2>1 DEF Approval, SafeNotHeld, LoseDecision, RepeatDecision
<1>5. CASE Receive
  <2> DEFINE p == Head(inbox)[1]
             d == Head(inbox)[2]
  <2>1. op' = Rest \/ (op' = Work(FirstStep(d), p, d) /\ mem[p] = "PENDING")
    BY <1>5 DEF Receive, Takes
  <2>2. d \in decided[p]
    <3>1. Head(inbox) \in Items(inbox)
      BY <1>5, TailItems DEF TypeOK, Receive
    <3> QED BY <3>1 DEF Approval, Authentic
  <2>3. Items(inbox') \subseteq Items(inbox)
    BY <1>5, InboxMoves
  <2>4. UNCHANGED <<mem, row, sweep, decided, sent>>
    BY <1>5 DEF Receive
  <2>5. Authentic'
    <3>1. CASE op' = Rest
      BY <2>3, <2>4, <3>1 DEF Approval, Authentic, Rest
    <3>2. CASE op' = Work(FirstStep(d), p, d) /\ mem[p] = "PENDING"
      <4>1. p \notin Safe
        BY <3>2 DEF Approval, SafeNotHeld
      <4>2. op'.p = p /\ op'.d = d /\ (op'.at = "send" => d = "APPROVED")
        BY <3>2 DEF Work, FirstStep
      <4> QED BY <2>2, <2>3, <2>4, <4>1, <4>2 DEF Approval, Authentic
    <3> QED BY <2>1, <3>1, <3>2
  <2> QED BY <2>4, <2>5 DEF Approval, SafeNotHeld, OnlyOnApproval
<1>6. CASE SendApproved
  <2>1. op.p \in Cmd /\ "APPROVED" \in decided[op.p] /\ op.p \notin Safe
    BY <1>6 DEF TypeOK, SendApproved, Approval, Authentic
  <2>2. Authentic'
    BY <1>6 DEF TypeOK, Approval, Authentic, SendApproved
  <2>3. OnlyOnApproval'
    BY <1>6, <2>1 DEF TypeOK, Approval, OnlyOnApproval, SendApproved, Dispatch
  <2> QED BY <1>6, <2>2, <2>3 DEF Approval, SafeNotHeld, SendApproved
<1>7. CASE StoreDecision \/ SaveDecision
  <2>1. op.p \in Cmd /\ op.p \notin Safe
    BY <1>7 DEF TypeOK, StoreDecision, SaveDecision, Approval, Authentic
  <2>2. Authentic'
    BY <1>7 DEF TypeOK, Approval, Authentic, StoreDecision, SaveDecision
  <2>3. SafeNotHeld'
    BY <1>7, <2>1 DEF TypeOK, Approval, SafeNotHeld, StoreDecision, SaveDecision
  <2> QED BY <1>7, <2>2, <2>3 DEF Approval, OnlyOnApproval, StoreDecision, SaveDecision
<1>8. CASE SendRaises \/ TellDecision
  BY <1>8 DEF Approval, Authentic, SafeNotHeld, OnlyOnApproval, SendRaises, TellDecision, Rest
<1>9. CASE SweepStep
  <2>1. UNCHANGED <<op, decided, sent, inbox>>
    BY <1>9 DEF SweepStep, ListStale, ExpireOne, SaveExpired, TellExpired
  <2>2. SafeNotHeld'
    <3>1. CASE ListStale
      BY <3>1 DEF Approval, SafeNotHeld, ListStale, Stale
    <3>2. CASE ExpireOne
      BY <3>2 DEF TypeOK, Approval, SafeNotHeld, ExpireOne
    <3>3. CASE SaveExpired
      BY <3>3 DEF TypeOK, Approval, SafeNotHeld, SaveExpired
    <3>4. CASE TellExpired
      BY <3>4 DEF Approval, SafeNotHeld, TellExpired
    <3> QED BY <1>9, <3>1, <3>2, <3>3, <3>4 DEF SweepStep
  <2> QED BY <1>3, <2>1, <2>2
<1>10. CASE Restart
  <2>1. Authentic'
    BY <1>10, InboxMoves DEF Approval, Authentic, Restart, Rest
  <2>2. SafeNotHeld'
    BY <1>10 DEF Approval, SafeNotHeld, Restart, SweepRest
  <2> QED BY <1>10, <2>1, <2>2 DEF Approval, OnlyOnApproval, Restart
<1>11. CASE ChangeRole \/ UNCHANGED vars
  BY <1>11 DEF Approval, Authentic, SafeNotHeld, OnlyOnApproval, ChangeRole, vars
<1> QED BY <1>1, <1>2, <1>4, <1>5, <1>6, <1>7, <1>8, <1>9, <1>10, <1>11 DEF Next, ThreadStep

\* A risky command reaches the field only after the operator's approval
\* (ApprovalGate.submit, ApprovalHandler.handle, PendingCommandStore.approve),
\* under every interleaving with the expire thread and every crash.
THEOREM ApprovedBeforeSent == Spec => []OnlyOnApproval
<1>1. Init => Approval
  BY GateAssumption, ShortItems
     DEF Init, Approval, Authentic, SafeNotHeld, OnlyOnApproval, Rest, SweepRest
<1>2. TypeOK /\ Approval /\ [Next]_vars => Approval'
  BY ApprovalStep
<1>3. Approval => OnlyOnApproval
  BY DEF Approval
<1> QED BY <1>1, <1>2, <1>3, TypeCorrect, PTL DEF Spec

-----------------------------------------------------------------------------
(* One approval, one dispatch; and approved means sent                     *)

\* What the paho thread is about to record was sent, and so was what is
\* recorded.
Recorded ==
  /\ op.at \in {"store", "save", "tell"} /\ op.d = "APPROVED" => sent[op.p] > 0
  /\ ApprovedIsSent

LEMMA RecordedStep ==
  ASSUME TypeOK, Recorded, [Next]_vars
  PROVE  Recorded'
<1> USE DEF store, threads
<1>1. ASSUME UNCHANGED <<mem, row, op, sent>>
      PROVE  Recorded'
  BY <1>1 DEF Recorded, ApprovedIsSent
<1>2. ASSUME NEW p \in Cmd, SubmitSafe(p) \/ SubmitRisky(p)
      PROVE  Recorded'
  <2>1. CASE SubmitSafe(p)
    BY <2>1 DEF TypeOK, Recorded, ApprovedIsSent, SubmitSafe, Dispatch
  <2>2. CASE SubmitRisky(p)
    BY <2>2 DEF TypeOK, Recorded, ApprovedIsSent, SubmitRisky
  <2> QED BY <1>2, <2>1, <2>2
<1>3. ASSUME NEW p \in Cmd, SubmitThenDie(p)
      PROVE  Recorded'
  BY <1>3 DEF TypeOK, Recorded, ApprovedIsSent, SubmitThenDie, Rest
<1>4. ASSUME NEW p \in Cmd, Elapse(p) \/ \E d \in Decision : Decide(p, d)
      PROVE  Recorded'
  BY <1>1, <1>4 DEF Elapse, Decide
<1>5. CASE LoseDecision \/ RepeatDecision \/ ChangeRole \/ ListStale \/ TellExpired \/ UNCHANGED vars
  BY <1>1, <1>5 DEF LoseDecision, RepeatDecision, ChangeRole, ListStale, TellExpired, vars
<1>6. CASE Receive
  <2>1. op'.at \in {"store", "save", "tell"} => op'.d # "APPROVED"
    BY <1>6 DEF Receive, FirstStep, Work, Rest
  <2> QED BY <1>6, <2>1 DEF Recorded, ApprovedIsSent, Receive
<1>7. CASE SendApproved
  BY <1>7 DEF TypeOK, Recorded, ApprovedIsSent, SendApproved, Dispatch
<1>8. CASE SendRaises \/ TellDecision
  BY <1>8 DEF Recorded, ApprovedIsSent, SendRaises, TellDecision, Rest
<1>9. CASE StoreDecision
  BY <1>9 DEF TypeOK, Recorded, ApprovedIsSent, StoreDecision
<1>10. CASE SaveDecision
  BY <1>10 DEF TypeOK, Recorded, ApprovedIsSent, SaveDecision
<1>11. CASE ExpireOne \/ SaveExpired
  <2>1. CASE ExpireOne
    BY <2>1 DEF TypeOK, Recorded, ApprovedIsSent, ExpireOne
  <2>2. CASE SaveExpired
    BY <2>2 DEF TypeOK, Recorded, ApprovedIsSent, SaveExpired
  <2> QED BY <1>11, <2>1, <2>2
<1>12. CASE Restart
  BY <1>12 DEF Recorded, ApprovedIsSent, Restart, Rest
<1> QED BY <1>2, <1>3, <1>4, <1>5, <1>6, <1>7, <1>8, <1>9, <1>10, <1>11, <1>12
        DEF Next, ThreadStep, SweepStep

\* An entry is approved, in memory or in the table, only if its command was
\* sent: "Dispatch first - only persist if send succeeds" (approve).
THEOREM ApprovedMeansSent == Spec => []ApprovedIsSent
<1>1. Init => Recorded
  BY DEF Init, Recorded, ApprovedIsSent, Rest
<1>2. TypeOK /\ Recorded /\ [Next]_vars => Recorded'
  BY RecordedStep
<1>3. Recorded => ApprovedIsSent
  BY DEF Recorded
<1> QED BY <1>1, <1>2, <1>3, TypeCorrect, PTL DEF Spec

\* Only an entry on which the paho thread is past the dispatch, or which left
\* PENDING, may have been dispatched more often than the process crashed.
Unspent(p) == mem[p] \in {"NONE", "PENDING"} /\ ~(op.at = "store" /\ op.p = p)
Spending ==
  /\ \A p \in Cmd \ Safe : Unspent(p) => sent[p] <= crashes
  /\ op.at = "send" => sent[op.p] <= crashes
  /\ DispatchedOnce

LEMMA SpendingStep ==
  ASSUME TypeOK, Approval, Spending, [Next]_vars
  PROVE  Spending'
<1> USE DEF store, threads
<1>1. ASSUME UNCHANGED <<mem, op, sent, crashes>>
      PROVE  Spending'
  BY <1>1 DEF Spending, Unspent, DispatchedOnce
<1>2. ASSUME NEW p \in Cmd, SubmitSafe(p)
      PROVE  Spending'
  <2>1. p \in Safe /\ sent' = [sent EXCEPT ![p] = 1] /\ UNCHANGED <<mem, op, crashes>>
    BY <1>2 DEF TypeOK, SubmitSafe, Dispatch
  <2>2. op.at = "send" => op.p # p
    BY <2>1 DEF Approval, Authentic
  <2> QED BY <2>1, <2>2 DEF TypeOK, Spending, Unspent, DispatchedOnce
<1>3. ASSUME NEW p \in Cmd, SubmitRisky(p)
      PROVE  Spending'
  <2>1. mem[p] = "NONE" /\ mem' = [mem EXCEPT ![p] = "PENDING"] /\ UNCHANGED <<op, sent, crashes>>
    BY <1>3 DEF SubmitRisky
  <2> QED BY <2>1 DEF TypeOK, Spending, Unspent, DispatchedOnce
<1>4. ASSUME op' = Rest, crashes' = crashes + 1, UNCHANGED sent
      PROVE  Spending'
  BY <1>4 DEF TypeOK, Spending, Unspent, DispatchedOnce, Rest
<1>5. ASSUME NEW p \in Cmd, Elapse(p) \/ \E d \in Decision : Decide(p, d)
      PROVE  Spending'
  BY <1>1, <1>5 DEF Elapse, Decide
<1>6. CASE LoseDecision \/ RepeatDecision \/ ChangeRole \/ ListStale \/ SaveExpired \/ TellExpired
             \/ UNCHANGED vars
  BY <1>1, <1>6 DEF LoseDecision, RepeatDecision, ChangeRole, ListStale, SaveExpired, TellExpired, vars
<1>7. CASE Receive
  <2>1. op.at = "rest" /\ UNCHANGED <<mem, sent, crashes>>
    BY <1>7 DEF Receive
  <2>2. op'.at = "send" => op'.p \in Cmd \ Safe /\ mem[op'.p] = "PENDING"
    <3>1. Head(inbox)[1] \in Cmd
      BY <1>7, HeadDecision DEF Receive
    <3> QED BY <1>7, <3>1 DEF Receive, Takes, Work, Rest, Approval, SafeNotHeld
  <2> QED BY <2>1, <2>2 DEF Spending, Unspent, DispatchedOnce
<1>8. CASE SendApproved
  <2>1. op.at = "send" /\ op.p \in Cmd /\ op' = [op EXCEPT !.at = "store"]
        /\ sent' = [sent EXCEPT ![op.p] = @ + 1] /\ UNCHANGED <<mem, crashes>>
    BY <1>8 DEF TypeOK, SendApproved, Dispatch
  <2>2. op'.at = "store" /\ op'.p = op.p
    BY <2>1 DEF TypeOK
  <2> QED BY <2>1, <2>2 DEF TypeOK, Spending, Unspent, DispatchedOnce
<1>9. CASE SendRaises \/ TellDecision
  <2>1. op.at \in {"send", "tell"} /\ op'.at = "rest" /\ UNCHANGED <<mem, sent, crashes>>
    BY <1>9 DEF SendRaises, TellDecision, Rest
  <2> QED BY <2>1 DEF Spending, Unspent, DispatchedOnce
<1>10. CASE StoreDecision
  <2>1. /\ op.at = "store" /\ op.p \in Cmd /\ op.d \in Decision
        /\ op'.at = "save"
        /\ mem' = [mem EXCEPT ![op.p] = op.d] /\ UNCHANGED <<sent, crashes>>
    BY <1>10 DEF TypeOK, StoreDecision
  <2> QED BY <2>1 DEF TypeOK, Spending, Unspent, DispatchedOnce, Decision
<1>11. CASE SaveDecision
  <2>1. op.at = "save" /\ op'.at = "tell" /\ UNCHANGED <<mem, sent, crashes>>
    BY <1>11 DEF TypeOK, SaveDecision
  <2> QED BY <2>1 DEF Spending, Unspent, DispatchedOnce
<1>12. CASE ExpireOne
  <2>1. PICK p \in Cmd : mem' = [mem EXCEPT ![p] = "EXPIRED"] /\ UNCHANGED <<op, sent, crashes>>
    BY <1>12 DEF TypeOK, ExpireOne
  <2> QED BY <2>1 DEF TypeOK, Spending, Unspent, DispatchedOnce
<1> QED BY <1>2, <1>3, <1>4, <1>5, <1>6, <1>7, <1>8, <1>9, <1>10, <1>11, <1>12
        DEF Next, ThreadStep, SweepStep, SubmitThenDie, Restart

\* One approval dispatches once unless the process dies in between: repeated
\* decisions, changes of mind and the expire thread add no dispatch.
THEOREM OneDispatchPerApproval == Spec => []DispatchedOnce
<1>1. Init => Spending
  BY DEF Init, Spending, Unspent, DispatchedOnce, Rest
<1>2. Init => Approval
  BY GateAssumption, ShortItems
     DEF Init, Approval, Authentic, SafeNotHeld, OnlyOnApproval, Rest, SweepRest
<1>3. TypeOK /\ Approval /\ Spending /\ [Next]_vars => Approval' /\ Spending'
  BY ApprovalStep, SpendingStep
<1>4. Spending => DispatchedOnce
  BY DEF Spending
<1> QED BY <1>1, <1>2, <1>3, <1>4, TypeCorrect, PTL DEF Spec

-----------------------------------------------------------------------------
(* What the dashboard is told                                              *)

\* No step takes back a dispatch, an answer of the operator or an expiry.
LEMMA NothingTakenBack ==
  ASSUME TypeOK, [Next]_vars
  PROVE  /\ due \subseteq due'
         /\ \A p \in Cmd : sent'[p] >= sent[p] /\ decided[p] \subseteq decided'[p]
<1> USE DEF store, threads
<1>1. ASSUME NEW p \in Cmd, SubmitSafe(p)
      PROVE  UNCHANGED <<due, decided>> /\ \A q \in Cmd : sent'[q] >= sent[q]
  BY <1>1 DEF TypeOK, SubmitSafe, Dispatch
<1>2. ASSUME NEW p \in Cmd, NEW d \in Decision, Decide(p, d)
      PROVE  UNCHANGED <<due, sent>> /\ \A q \in Cmd : decided[q] \subseteq decided'[q]
  BY <1>2 DEF TypeOK, Decide
<1>3. ASSUME NEW p \in Cmd, Elapse(p)
      PROVE  UNCHANGED <<sent, decided>> /\ due \subseteq due'
  BY <1>3 DEF Elapse
<1>4. CASE UNCHANGED <<due, sent, decided>>
  BY <1>4 DEF TypeOK
<1>5. SendApproved => UNCHANGED <<due, decided>> /\ \A q \in Cmd : sent'[q] >= sent[q]
  BY DEF TypeOK, SendApproved, Dispatch
<1>6. ASSUME NEW p \in Cmd, SubmitRisky(p) \/ SubmitThenDie(p)
      PROVE  UNCHANGED <<due, sent, decided>>
  BY <1>6 DEF SubmitRisky, SubmitThenDie
<1>7. \/ LoseDecision \/ RepeatDecision \/ Receive \/ SendRaises \/ StoreDecision \/ SaveDecision
      \/ TellDecision \/ SweepStep \/ Restart \/ ChangeRole \/ UNCHANGED vars
      => UNCHANGED <<due, sent, decided>>
  BY DEF LoseDecision, RepeatDecision, Receive, SendRaises, StoreDecision, SaveDecision, TellDecision,
         SweepStep, ListStale, ExpireOne, SaveExpired, TellExpired, Restart, ChangeRole, vars
<1>8. \A q \in Cmd : sent[q] >= sent[q]
  BY DEF TypeOK
<1> QED BY <1>1, <1>2, <1>3, <1>4, <1>5, <1>6, <1>7, <1>8 DEF Next, ThreadStep

\* An announcement is PENDING, what the paho thread recorded, or EXPIRED of the
\* entry the expire thread has in hand.
LEMMA Announced ==
  ASSUME [Next]_vars, NEW e \in told', e \notin told
  PROVE  \/ \E p \in Cmd : e = <<p, "PENDING">>
         \/ op.at = "tell" /\ e = <<op.p, op.d>>
         \/ sweep.at = "tell" /\ e = <<sweep.p, "EXPIRED">>
<1> USE DEF store, threads
<1>1. ASSUME NEW p \in Cmd, SubmitRisky(p)
      PROVE  e = <<p, "PENDING">>
  BY <1>1 DEF SubmitRisky, Tell
<1>2. CASE TellDecision
  BY <1>2 DEF TellDecision, Tell
<1>3. CASE TellExpired
  BY <1>3 DEF TellExpired, Tell, ExpiryEvent
<1>4. ASSUME NEW p \in Cmd,
             SubmitSafe(p) \/ SubmitThenDie(p) \/ Elapse(p) \/ \E d \in Decision : Decide(p, d)
      PROVE  told' = told
  BY <1>4 DEF SubmitSafe, SubmitThenDie, Elapse, Decide
<1>5. \/ LoseDecision \/ RepeatDecision \/ Receive \/ SendApproved \/ SendRaises \/ StoreDecision
      \/ SaveDecision \/ ListStale \/ ExpireOne \/ SaveExpired \/ Restart \/ ChangeRole \/ UNCHANGED vars
      => told' = told
  BY DEF LoseDecision, RepeatDecision, Receive, SendApproved, SendRaises, StoreDecision, SaveDecision,
         ListStale, ExpireOne, SaveExpired, Restart, ChangeRole, vars
<1> QED BY <1>1, <1>2, <1>3, <1>4, <1>5 DEF Next, ThreadStep, SweepStep

\* The expire thread works on entries whose time to live is over.
SweepIsDue ==
  /\ sweep.todo \subseteq due
  /\ sweep.at \in {"save", "tell"} => sweep.p \in due

LEMMA SweepStaysDue ==
  ASSUME TypeOK, SweepIsDue, [Next]_vars
  PROVE  SweepIsDue'
<1> USE DEF store, threads
<1>1. due \subseteq due'
  BY NothingTakenBack
<1>2. CASE UNCHANGED sweep
  BY <1>1, <1>2 DEF SweepIsDue
<1>3. CASE sweep' = SweepRest
  BY <1>3 DEF SweepIsDue, SweepRest
<1>4. CASE ListStale
  <2>1. sweep'.at = "expire" /\ sweep'.todo = Stale
    BY <1>4 DEF ListStale
  <2> QED BY <1>1, <2>1 DEF SweepIsDue, Stale
<1>5. CASE ExpireOne
  <2>1. PICK p \in sweep.todo : sweep'.p = p /\ sweep'.todo = sweep.todo \ {p}
    BY <1>5 DEF ExpireOne
  <2> QED BY <1>1, <2>1 DEF SweepIsDue
<1>6. CASE SaveExpired
  <2>1. sweep.at = "save" /\ sweep'.p = sweep.p /\ sweep'.todo = sweep.todo
    BY <1>6 DEF TypeOK, SaveExpired
  <2> QED BY <1>1, <2>1 DEF SweepIsDue
<1>7. CASE TellExpired
  <2>1. sweep'.at \in {"rest", "expire"} /\ sweep'.todo = sweep.todo
    BY <1>7 DEF TellExpired
  <2> QED BY <1>1, <2>1 DEF SweepIsDue
<1>8. ASSUME NEW p \in Cmd,
             \/ SubmitSafe(p) \/ SubmitRisky(p) \/ SubmitThenDie(p) \/ Elapse(p)
             \/ \E d \in Decision : Decide(p, d)
      PROVE  UNCHANGED sweep \/ sweep' = SweepRest
  BY <1>8 DEF SubmitSafe, SubmitRisky, SubmitThenDie, Elapse, Decide
<1>9. LoseDecision \/ RepeatDecision \/ ThreadStep \/ ChangeRole \/ Restart \/ UNCHANGED vars
      => UNCHANGED sweep \/ sweep' = SweepRest
  BY DEF LoseDecision, RepeatDecision, ThreadStep, Receive, SendApproved, SendRaises, StoreDecision,
         SaveDecision, TellDecision, ChangeRole, Restart, vars
<1> QED BY <1>2, <1>3, <1>4, <1>5, <1>6, <1>7, <1>8, <1>9 DEF Next, SweepStep

LEMMA TruthStep ==
  ASSUME TypeOK, Approval, Recorded, SweepIsDue, TellsTruth, [Next]_vars
  PROVE  TellsTruth'
<1> SUFFICES ASSUME NEW p \in Cmd, NEW event \in {"APPROVED", "REJECTED", "EXPIRED"},
                    <<p, event>> \in told'
             PROVE  /\ event = "APPROVED" => sent'[p] > 0
                    /\ event = "REJECTED" => "REJECTED" \in decided'[p]
                    /\ event = "EXPIRED" => p \in due'
  BY DEF TellsTruth
<1>1. due \subseteq due' /\ sent'[p] >= sent[p] /\ decided[p] \subseteq decided'[p]
  BY NothingTakenBack
<1>2. sent[p] \in Nat /\ (sent'[p] >= sent[p] /\ sent[p] > 0 => sent'[p] > 0)
  <2>1. sent'[p] \in Nat
    BY TypeStep DEF TypeOK
  <2> QED BY <2>1 DEF TypeOK
<1>3. CASE <<p, event>> \in told
  BY <1>1, <1>2, <1>3 DEF TellsTruth
<1>4. CASE <<p, event>> \notin told
  <2>1. \/ op.at = "tell" /\ op.p = p /\ op.d = event
        \/ sweep.at = "tell" /\ sweep.p = p /\ event = "EXPIRED"
    BY <1>4, Announced
  <2>2. CASE op.at = "tell" /\ op.p = p /\ op.d = event
    <3>1. event \in Decision /\ event \in decided[p]
      BY <2>2 DEF TypeOK, Approval, Authentic
    <3>2. event = "APPROVED" => sent[p] > 0
      BY <2>2 DEF Recorded
    <3> QED BY <1>1, <1>2, <3>1, <3>2 DEF Decision
  <2>3. CASE sweep.at = "tell" /\ sweep.p = p /\ event = "EXPIRED"
    BY <1>1, <2>3 DEF SweepIsDue
  <2> QED BY <2>1, <2>2, <2>3
<1> QED BY <1>3, <1>4

\* The dashboard is told APPROVED only of what was sent, REJECTED only of what
\* the operator rejected, EXPIRED only of what had its time (RegistryBridge's
\* wfc/approval/pending events), for every interleaving of the two threads.
THEOREM DashboardIsToldTheTruth == Spec => []TellsTruth
<1> DEFINE Truth == Approval /\ Recorded /\ SweepIsDue /\ TellsTruth
<1>1. Init => Truth
  BY GateAssumption, ShortItems
     DEF Init, Approval, Authentic, SafeNotHeld, OnlyOnApproval, Rest, SweepRest, Recorded,
         ApprovedIsSent, SweepIsDue, TellsTruth
<1>2. TypeOK /\ Truth /\ [Next]_vars => Truth'
  BY ApprovalStep, RecordedStep, SweepStaysDue, TruthStep
<1>3. Truth => TellsTruth
  OBVIOUS
<1> QED BY <1>1, <1>2, <1>3, TypeCorrect, PTL DEF Spec
=============================================================================
