---------------------------- MODULE ApprovalGate ----------------------------
(***************************************************************************)
(* Human approval of risky commands (core/approval/*.py): ApprovalGate,    *)
(* PendingCommandStore and ApprovalHandler, with the operator and the two  *)
(* threads that work on the store without a lock: paho's, which brings the *)
(* operator's decisions one at a time, and CommanderCore._expire_loop.     *)
(* Every statement of approve(), reject() and expire_stale() that others   *)
(* can see is a step of its own.                                           *)
(***************************************************************************)
EXTENDS Naturals, Sequences

CONSTANTS Cmd,                  \* commands put to the gate, by pending_id
          Safe,                 \* those whose COMMAND_RISK is SAFE
          NoCmd,                \* a thread that works on no command
          MaxFault              \* bound on crashes, role changes, lost or repeated decisions

ASSUME GateAssumption ==
  /\ Safe \subseteq Cmd
  /\ NoCmd \notin Cmd
  /\ MaxFault \in Nat

VARIABLES mem,                  \* status of each entry of _store
          row,                  \* its status in table pending_commands
          due,                  \* commands whose expires_at has passed
          active,               \* CommanderCore._active
          op,                   \* the paho thread inside approve() or reject()
          sweep,                \* the expire thread inside expire_stale()
          inbox,                \* the operator's decisions on their way
          decided,              \* decided[p] : what the operator ever answered
          sent,                 \* sent[p] : how often p was dispatched
          told,                 \* events published on wfc/approval/pending
          crashes, faults

store == <<mem, row, due>>
threads == <<op, sweep>>
vars == <<store, active, threads, inbox, decided, sent, told, crashes, faults>>

Decision == {"APPROVED", "REJECTED"}
Status == {"NONE", "PENDING", "EXPIRED"} \cup Decision

Rest == [at |-> "rest", p |-> NoCmd, d |-> "NONE"]
Work(at, p, d) == [at |-> at, p |-> p, d |-> d]
SweepRest == [at |-> "rest", p |-> NoCmd, todo |-> {}]

TypeOK ==
  /\ mem \in [Cmd -> Status] /\ row \in [Cmd -> Status]
  /\ due \subseteq Cmd
  /\ active \in BOOLEAN
  /\ op \in [at : {"rest", "send", "store", "save", "tell"},
             p : Cmd \cup {NoCmd}, d : Decision \cup {"NONE"}]
  /\ op.at # "rest" => op.p \in Cmd /\ op.d \in Decision
  /\ sweep \in [at : {"rest", "expire", "save", "tell"}, p : Cmd \cup {NoCmd}, todo : SUBSET Cmd]
  /\ sweep.at \in {"save", "tell"} => sweep.p \in Cmd
  /\ inbox \in Seq(Cmd \X Decision)
  /\ decided \in [Cmd -> SUBSET Decision]
  /\ sent \in [Cmd -> Nat]
  /\ told \subseteq Cmd \X Status
  /\ crashes \in Nat /\ faults \in Nat

Init ==
  /\ mem = [p \in Cmd |-> "NONE"] /\ row = [p \in Cmd |-> "NONE"]
  /\ due = {}
  /\ active = TRUE
  /\ op = Rest
  /\ sweep = SweepRest
  /\ inbox = <<>>
  /\ decided = [p \in Cmd |-> {}]
  /\ sent = [p \in Cmd |-> 0]
  /\ told = {}
  /\ crashes = 0 /\ faults = 0

Dispatch(p) == sent' = [sent EXCEPT ![p] = @ + 1]
Tell(p, event) == told' = told \cup { <<p, event>> }
Fault == faults < MaxFault /\ faults' = faults + 1

-----------------------------------------------------------------------------
(* The rule engine puts a command to the gate                              *)

SubmitSafe(p) ==
  /\ p \in Safe /\ sent[p] = 0
  /\ Dispatch(p)
  /\ UNCHANGED <<store, active, threads, inbox, decided, told, crashes, faults>>

\* add(): nobody else knows the new pending_id before it is published.
SubmitRisky(p) ==
  /\ p \notin Safe /\ mem[p] = "NONE" /\ row[p] = "NONE"
  /\ mem' = [mem EXCEPT ![p] = "PENDING"]
  /\ row' = [row EXCEPT ![p] = "PENDING"]
  /\ Tell(p, "PENDING")
  /\ UNCHANGED <<due, active, threads, inbox, decided, sent, crashes, faults>>

-----------------------------------------------------------------------------
(* The operator                                                            *)

\* An answer to what the dashboard shows, which may be long decided.  The
\* operator gives each answer to a command once (bound), in any order.
Decide(p, d) ==
  /\ <<p, "PENDING">> \in told
  /\ d \notin decided[p]
  /\ decided' = [decided EXCEPT ![p] = @ \cup {d}]
  /\ inbox' = Append(inbox, <<p, d>>)
  /\ UNCHANGED <<store, active, threads, sent, told, crashes, faults>>

LoseDecision ==
  /\ Fault /\ inbox # <<>>
  /\ inbox' = Tail(inbox)
  /\ UNCHANGED <<store, active, threads, decided, sent, told, crashes>>

RepeatDecision ==
  /\ Fault
  /\ \E i \in DOMAIN inbox : inbox' = Append(inbox, inbox[i])
  /\ UNCHANGED <<store, active, threads, decided, sent, told, crashes>>

-----------------------------------------------------------------------------
(* The paho thread: handle_message, ApprovalHandler.handle, approve, reject *)

\* Mutation: an entry is looked up, its status is not.
Takes_AnyStatus(p) == mem[p] # "NONE"

\* `pending is None or pending.status != PENDING`
Takes(p) == mem[p] = "PENDING"

\* Mutation: an approval is stored, and never sent.
FirstStep_StoreOnly(d) == "store"

\* Mutation: a rejected command is sent as well.
FirstStep_SendAnyway(d) == "send"

\* An approved command is sent before anything is stored.
FirstStep(d) == IF d = "APPROVED" THEN "send" ELSE "store"

\* In standby, and for an entry no longer pending, the decision is dropped.
Receive ==
  /\ op.at = "rest" /\ inbox # <<>>
  /\ LET p == Head(inbox)[1]
         d == Head(inbox)[2]
     IN op' = IF active /\ Takes(p) THEN Work(FirstStep(d), p, d) ELSE Rest
  /\ inbox' = Tail(inbox)
  /\ UNCHANGED <<store, active, sweep, decided, sent, told, crashes, faults>>

SendApproved ==
  /\ op.at = "send"
  /\ Dispatch(op.p)
  /\ op' = [op EXCEPT !.at = "store"]
  /\ UNCHANGED <<store, active, sweep, inbox, decided, told, crashes, faults>>

\* send() raises: handle_message swallows it and the entry stays pending.
SendRaises ==
  /\ Fault
  /\ op.at = "send"
  /\ op' = Rest
  /\ UNCHANGED <<store, active, sweep, inbox, decided, sent, told, crashes>>

\* Mutation: the reason of the decision is stored as its status.
StoreDecision_Reason ==
  /\ op.at = "store"
  /\ mem' = [mem EXCEPT ![op.p] = "operator_rejected"]
  /\ op' = [op EXCEPT !.at = "save"]
  /\ UNCHANGED <<row, due, active, sweep, inbox, decided, sent, told, crashes, faults>>

StoreDecision ==
  /\ op.at = "store"
  /\ mem' = [mem EXCEPT ![op.p] = op.d]
  /\ op' = [op EXCEPT !.at = "save"]
  /\ UNCHANGED <<row, due, active, sweep, inbox, decided, sent, told, crashes, faults>>

SaveDecision ==
  /\ op.at = "save"
  /\ row' = [row EXCEPT ![op.p] = op.d]
  /\ op' = [op EXCEPT !.at = "tell"]
  /\ UNCHANGED <<mem, due, active, sweep, inbox, decided, sent, told, crashes, faults>>

TellDecision ==
  /\ op.at = "tell"
  /\ Tell(op.p, op.d)
  /\ op' = Rest
  /\ UNCHANGED <<store, active, sweep, inbox, decided, sent, crashes, faults>>

-----------------------------------------------------------------------------
(* The expire thread: expire_stale, every EXPIRE_TICK_SECONDS while active *)

Elapse(p) ==
  /\ mem[p] # "NONE"
  /\ due' = due \cup {p}
  /\ UNCHANGED <<mem, row, active, threads, inbox, decided, sent, told, crashes, faults>>

\* Mutation: the expiry time is compared the wrong way round.
Stale_WrongWay == { p \in Cmd : mem[p] = "PENDING" /\ p \notin due }

Stale == { p \in Cmd : mem[p] = "PENDING" /\ p \in due }

\* The list is made once, from the statuses of that moment.
ListStale ==
  /\ active /\ sweep.at = "rest" /\ Stale # {}
  /\ sweep' = [at |-> "expire", p |-> NoCmd, todo |-> Stale]
  /\ UNCHANGED <<store, active, op, inbox, decided, sent, told, crashes, faults>>

\* Each listed entry is read again, but its status is not.
ExpireOne ==
  /\ sweep.at = "expire"
  /\ \E p \in sweep.todo :
       /\ mem' = [mem EXCEPT ![p] = "EXPIRED"]
       /\ sweep' = [at |-> "save", p |-> p, todo |-> sweep.todo \ {p}]
  /\ UNCHANGED <<row, due, active, op, inbox, decided, sent, told, crashes, faults>>

SaveExpired ==
  /\ sweep.at = "save"
  /\ row' = [row EXCEPT ![sweep.p] = "EXPIRED"]
  /\ sweep' = [sweep EXCEPT !.at = "tell"]
  /\ UNCHANGED <<mem, due, active, op, inbox, decided, sent, told, crashes, faults>>

\* Mutation: the expiry is announced as a rejection.
ExpiryEvent_Rejected == "REJECTED"

ExpiryEvent == "EXPIRED"

TellExpired ==
  /\ sweep.at = "tell"
  /\ Tell(sweep.p, ExpiryEvent)
  /\ sweep' = [at |-> IF sweep.todo = {} THEN "rest" ELSE "expire", p |-> NoCmd, todo |-> sweep.todo]
  /\ UNCHANGED <<store, active, op, inbox, decided, sent, crashes, faults>>

-----------------------------------------------------------------------------
(* The process                                                             *)

\* A crash drops both threads where they are; the store is hydrated from the
\* table, and the decisions that were in flight may be missed.
Restart ==
  /\ Fault
  /\ crashes' = crashes + 1
  /\ mem' = row
  /\ op' = Rest
  /\ sweep' = SweepRest
  /\ inbox' \in {inbox, <<>>}
  /\ UNCHANGED <<row, due, active, decided, sent, told>>

\* The process dies in add(), after the row and before the announcement.
SubmitThenDie(p) ==
  /\ Fault
  /\ p \notin Safe /\ mem[p] = "NONE" /\ row[p] = "NONE"
  /\ crashes' = crashes + 1
  /\ row' = [row EXCEPT ![p] = "PENDING"]
  /\ mem' = row'
  /\ op' = Rest
  /\ sweep' = SweepRest
  /\ UNCHANGED <<due, active, inbox, decided, sent, told>>

\* CommanderCore.activate and deactivate.
ChangeRole ==
  /\ Fault
  /\ active' = ~active
  /\ UNCHANGED <<store, threads, inbox, decided, sent, told, crashes>>

ThreadStep ==
  \/ Receive \/ SendApproved \/ SendRaises
  \/ StoreDecision \/ SaveDecision \/ TellDecision

SweepStep == ListStale \/ ExpireOne \/ SaveExpired \/ TellExpired

Next ==
  \/ \E p \in Cmd :
       \/ SubmitSafe(p) \/ SubmitRisky(p) \/ SubmitThenDie(p) \/ Elapse(p)
       \/ \E d \in Decision : Decide(p, d)
  \/ LoseDecision \/ RepeatDecision
  \/ ThreadStep \/ SweepStep
  \/ Restart \/ ChangeRole

Spec == Init /\ [][Next]_vars

\* Time passes, and both threads run.  The operator owes no answer.
Fairness ==
  /\ WF_vars(ThreadStep) /\ WF_vars(SweepStep)
  /\ \A p \in Cmd : WF_vars(Elapse(p))

FairSpec == Spec /\ Fairness

-----------------------------------------------------------------------------
(* Properties                                                              *)

\* A risky command reaches the field only after the operator approved it,
\* whatever is repeated, lost, crashed or run at the same time.
OnlyOnApproval ==
  \A p \in Cmd \ Safe : sent[p] > 0 => "APPROVED" \in decided[p]

\* One approval dispatches once: a second dispatch takes a crash between the
\* dispatch and the row that records it (approve: send first, persist second).
DispatchedOnce == \A p \in Cmd : sent[p] <= 1 + crashes

\* "Dispatch first - only persist if send succeeds": an entry is approved, in
\* memory or in the table, only if its command was sent.
ApprovedIsSent ==
  \A p \in Cmd : "APPROVED" \in {mem[p], row[p]} => sent[p] > 0

\* The dashboard is told only what happened: approved after a dispatch,
\* rejected after the operator's rejection, expired after the time to live.
TellsTruth ==
  \A p \in Cmd :
    /\ <<p, "APPROVED">> \in told => sent[p] > 0
    /\ <<p, "REJECTED">> \in told => "REJECTED" \in decided[p]
    /\ <<p, "EXPIRED">> \in told => p \in due

\* While the commander is active no command waits for ever: it is decided or
\* it expires (_expire_loop).
NoneWaitsForEver ==
  <>[]active => \A p \in Cmd : mem[p] = "PENDING" ~> mem[p] # "PENDING"

\* Docs/Test_Protocols.md, U-APPR-003: expire_stale leaves commands already
\* approved or rejected untouched.
ExpiryLeavesDecided ==
  [][ \A p \in Cmd : mem[p] \in Decision => mem'[p] # "EXPIRED" ]_vars
=============================================================================
