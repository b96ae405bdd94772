---------------------------- MODULE AckProtocol ----------------------------
(***************************************************************************)
(* The life of a command: CommandDispatcher.send, the broker, FieldNode's  *)
(* handler, the acknowledgements, CommanderCore._handle_ack and the        *)
(* timeout sweep, under crashes of either side and lost or repeated        *)
(* messages.  Each publisher's stream stays in order; the broker forgets   *)
(* what it holds for a client that is away (clean sessions), and a         *)
(* publisher that reconnects repeats what was not confirmed (QoS 1).       *)
(***************************************************************************)
EXTENDS CommandTracker, Naturals, Sequences

CONSTANTS Node,                 \* field nodes
          Target,               \* Target[t] : the node command t is for
          UnknownType,          \* commands of a type the node does not know
          Idempotent,           \* commands whose trace_id is derived, not drawn
          Idle,                 \* no command in hand
          MaxSend,              \* bound on the sends of one command
          MaxFault              \* bound on crashes, losses and repetitions

ASSUME ProtocolAssumption ==
  /\ Target \in [Trace -> Node]
  /\ UnknownType \subseteq Trace
  /\ Idempotent \subseteq Trace
  /\ Idle \notin Trace
  /\ MaxSend \in Nat /\ MaxFault \in Nat

VARIABLES cmdq,                 \* cmdq[n] : commands on their way to n
          ackq,                 \* ackq[n] : acknowledgements n has published
          busy,                 \* busy[n] : the command being executed, if any
          handled,              \* handled[n] : n's _handled_trace_ids
          did,                  \* what the field really did, as event ids
          runs,                 \* successful runs of t in its node's present life
          swept,                \* commands the sweep has given up on
          sends, faults         \* bounds

nodeVars == <<busy, handled, did, runs>>
vars == <<trackerVars, cmdq, ackq, nodeVars, swept, sends, faults>>

TypeOK ==
  /\ TrackerTypeOK
  /\ cmdq \in [Node -> Seq(Trace)]
  /\ ackq \in [Node -> Seq(EventId)]
  /\ busy \in [Node -> Trace \cup {Idle}]
  /\ handled \in [Node -> SUBSET Trace]
  /\ did \subseteq EventId
  /\ runs \in [Trace -> Nat]
  /\ swept \subseteq Trace
  /\ sends \in [Trace -> Nat]
  /\ faults \in Nat

Init ==
  /\ TrackerInit
  /\ cmdq = [n \in Node |-> <<>>]
  /\ ackq = [n \in Node |-> <<>>]
  /\ busy = [n \in Node |-> Idle]
  /\ handled = [n \in Node |-> {}]
  /\ did = {}
  /\ runs = [t \in Trace |-> 0]
  /\ swept = {}
  /\ sends = [t \in Trace |-> 0]
  /\ faults = 0

-----------------------------------------------------------------------------
(* The commander                                                           *)

\* A rule that decides the same thing again sends the same trace again only
\* for the idempotent command types.
MayDecide(t) ==
  /\ t \in Idempotent \/ ~Known(t)
  /\ sends[t] < MaxSend

\* send(): registered in the tracker first, published second.
Send(t) ==
  /\ MayDecide(t)
  /\ Create(t)
  /\ cmdq' = [cmdq EXCEPT ![Target[t]] = Append(@, t)]
  /\ sends' = [sends EXCEPT ![t] = @ + 1]
  /\ UNCHANGED <<ackq, nodeVars, swept, faults>>

Fault == faults < MaxFault /\ faults' = faults + 1

\* The new commander misses what was published to the old one, for the nodes
\* whose publications reached the broker meanwhile.
MissAcks == \E missed \in SUBSET Node :
              ackq' = [n \in Node |-> IF n \in missed THEN <<>> ELSE ackq[n]]

CommanderRestart ==
  /\ Fault
  /\ Restart
  /\ MissAcks
  /\ UNCHANGED <<cmdq, nodeVars, swept, sends>>

\* The process dies inside send(): in create(), or before publish().
SendThenDie(t) ==
  /\ Fault
  /\ MayDecide(t)
  /\ CreateThenDie(t)
  /\ MissAcks
  /\ UNCHANGED <<cmdq, nodeVars, swept, sends>>

\* _handle_ack: the tracker's answer decides every further effect.
HandleAck(n) ==
  /\ ackq[n] # <<>>
  /\ LET ack == Head(ackq[n]) IN Update(ack[1], ack[2], ack)
  /\ ackq' = [ackq EXCEPT ![n] = Tail(@)]
  /\ UNCHANGED <<cmdq, nodeVars, swept, sends, faults>>

HandleAckThenDie(n) ==
  /\ Fault
  /\ ackq[n] # <<>>
  /\ LET ack == Head(ackq[n]) IN UpdateThenDie(ack[1], ack[2], ack)
  /\ ackq' = [ackq EXCEPT ![n] = Tail(@)]
  /\ UNCHANGED <<cmdq, nodeVars, swept, sends>>

\* _check_command_timeouts on a command that nobody acknowledged in time.  It
\* tells the tracker, without an event_id, and gives the fire to another.
Sweep(t) ==
  /\ t \in Overdue
  /\ Update(t, "COMMAND_ACK_FAILED", NoEventId)
  /\ swept' = swept \cup {t}
  /\ UNCHANGED <<cmdq, ackq, nodeVars, sends, faults>>

-----------------------------------------------------------------------------
(* The field node: one paho thread, one message at a time                  *)

Publish(n, acks) == ackq' = [ackq EXCEPT ![n] = @ \o acks]

Incoming(n, t) == busy[n] = Idle /\ cmdq[n] # <<>> /\ t = Head(cmdq[n])
Consume(n) == cmdq' = [cmdq EXCEPT ![n] = Tail(@)]

RepeatAck(n) == \E t \in Trace :
  /\ Incoming(n, t) /\ t \in handled[n]
  /\ Consume(n)
  /\ Publish(n, << <<t, "EXECUTED">> >>)
  /\ UNCHANGED <<trackerVars, nodeVars, swept, sends, faults>>

\* Mutation: the second acknowledgement of an unknown command is left out.
SkipUnknown_OneAck(n) == \E t \in Trace :
  /\ Incoming(n, t) /\ t \notin handled[n] /\ t \in UnknownType
  /\ Consume(n)
  /\ did' = did \cup { <<t, "RECEIVED">>, <<t, "EXECUTED">> }
  /\ Publish(n, << <<t, "RECEIVED">> >>)
  /\ UNCHANGED <<trackerVars, busy, handled, runs, swept, sends, faults>>

\* A command of an unknown type is acknowledged as executed and not remembered.
SkipUnknown(n) == \E t \in Trace :
  /\ Incoming(n, t) /\ t \notin handled[n] /\ t \in UnknownType
  /\ Consume(n)
  /\ did' = did \cup { <<t, "RECEIVED">>, <<t, "EXECUTED">> }
  /\ Publish(n, << <<t, "RECEIVED">>, <<t, "EXECUTED">> >>)
  /\ UNCHANGED <<trackerVars, busy, handled, runs, swept, sends, faults>>

\* Mutation: the command is remembered as handled when it is taken.
Take_Remembered(n) == \E t \in Trace :
  /\ Incoming(n, t) /\ t \notin handled[n] /\ t \notin UnknownType
  /\ Consume(n)
  /\ busy' = [busy EXCEPT ![n] = t]
  /\ handled' = [handled EXCEPT ![n] = @ \cup {t}]
  /\ did' = did \cup { <<t, "RECEIVED">> }
  /\ Publish(n, << <<t, "RECEIVED">> >>)
  /\ UNCHANGED <<trackerVars, runs, swept, sends, faults>>

Take(n) == \E t \in Trace :
  /\ Incoming(n, t) /\ t \notin handled[n] /\ t \notin UnknownType
  /\ Consume(n)
  /\ busy' = [busy EXCEPT ![n] = t]
  /\ did' = did \cup { <<t, "RECEIVED">> }
  /\ Publish(n, << <<t, "RECEIVED">> >>)
  /\ UNCHANGED <<trackerVars, handled, runs, swept, sends, faults>>

\* Mutation: a command carried out is not remembered.
Succeed_Forgotten(n) == \E t \in Trace :
  /\ busy[n] = t
  /\ busy' = [busy EXCEPT ![n] = Idle]
  /\ did' = did \cup { <<t, "EXECUTED">> }
  /\ runs' = [runs EXCEPT ![t] = @ + 1]
  /\ Publish(n, << <<t, "EXECUTED">> >>)
  /\ UNCHANGED <<trackerVars, cmdq, handled, swept, sends, faults>>

Succeed(n) == \E t \in Trace :
  /\ busy[n] = t
  /\ busy' = [busy EXCEPT ![n] = Idle]
  /\ handled' = [handled EXCEPT ![n] = @ \cup {t}]
  /\ did' = did \cup { <<t, "EXECUTED">> }
  /\ runs' = [runs EXCEPT ![t] = @ + 1]
  /\ Publish(n, << <<t, "EXECUTED">> >>)
  /\ UNCHANGED <<trackerVars, cmdq, swept, sends, faults>>

\* _execute_command raises: not remembered as handled, so a repeated delivery
\* is tried afresh.
Raise(n) == \E t \in Trace :
  /\ busy[n] = t
  /\ busy' = [busy EXCEPT ![n] = Idle]
  /\ did' = did \cup { <<t, "FAILED">> }
  /\ Publish(n, << <<t, "FAILED">> >>)
  /\ UNCHANGED <<trackerVars, cmdq, handled, runs, swept, sends, faults>>

\* The node's process dies and starts again: its memory and what was waiting
\* for it are gone, a command in hand may have been carried out, and the last
\* acknowledgements may not have left the client.
NodeCrash(n) ==
  /\ Fault
  /\ busy' = [busy EXCEPT ![n] = Idle]
  /\ handled' = [handled EXCEPT ![n] = {}]
  /\ runs' = [t \in Trace |-> IF Target[t] = n THEN 0 ELSE runs[t]]
  /\ \/ UNCHANGED did
     \/ busy[n] # Idle /\ did' = did \cup { <<busy[n], "EXECUTED">> }
  /\ cmdq' = [cmdq EXCEPT ![n] = <<>>]
  /\ \E k \in 0 .. Len(ackq[n]) : ackq' = [ackq EXCEPT ![n] = SubSeq(@, 1, k)]
  /\ UNCHANGED <<trackerVars, swept, sends>>

-----------------------------------------------------------------------------
(* The broker                                                              *)

LoseCommand(n) ==
  /\ Fault
  /\ cmdq[n] # <<>>
  /\ cmdq' = [cmdq EXCEPT ![n] = Tail(@)]
  /\ UNCHANGED <<trackerVars, ackq, nodeVars, swept, sends>>

LoseAck(n) ==
  /\ Fault
  /\ ackq[n] # <<>>
  /\ ackq' = [ackq EXCEPT ![n] = Tail(@)]
  /\ UNCHANGED <<trackerVars, cmdq, nodeVars, swept, sends>>

RepeatCommand(n) ==
  /\ Fault
  /\ \E i \in DOMAIN cmdq[n] : cmdq' = [cmdq EXCEPT ![n] = Append(@, @[i])]
  /\ UNCHANGED <<trackerVars, ackq, nodeVars, swept, sends>>

RepeatPublishedAck(n) ==
  /\ Fault
  /\ \E i \in DOMAIN ackq[n] : ackq' = [ackq EXCEPT ![n] = Append(@, @[i])]
  /\ UNCHANGED <<trackerVars, cmdq, nodeVars, swept, sends>>

-----------------------------------------------------------------------------
NodeStep(n) ==
  RepeatAck(n) \/ SkipUnknown(n) \/ Take(n) \/ Succeed(n) \/ Raise(n)

Next ==
  \/ \E t \in Trace : Send(t) \/ SendThenDie(t) \/ Sweep(t)
  \/ CommanderRestart
  \/ \E n \in Node :
       \/ HandleAck(n) \/ HandleAckThenDie(n)
       \/ NodeStep(n) \/ NodeCrash(n)
       \/ LoseCommand(n) \/ LoseAck(n) \/ RepeatCommand(n) \/ RepeatPublishedAck(n)

Spec == Init /\ [][Next]_vars

\* The paho thread of a node that runs handles what arrived, and so does the
\* commander's.  Nothing makes a rule decide, nor a fault happen.
Fairness == \A n \in Node : WF_vars(NodeStep(n)) /\ WF_vars(HandleAck(n))

FairSpec == Spec /\ Fairness

-----------------------------------------------------------------------------
(* Properties                                                              *)

\* What the ledger says of a command happened in the field: a command is
\* RECEIVED, EXECUTED or FAILED only if its node took it, carried it out (or
\* refused its type), or raised an error over it, whatever was lost, repeated
\* or restarted in between (_handle_ack, update, _send_ack).
LedgerTellsTruth ==
  \A t \in Trace : status[t] \in AckStatus => <<t, status[t]>> \in did

\* A node that stays up carries a command out at most once, however often the
\* commander decides it again or the broker repeats it (_handled_trace_ids).
AtMostOncePerLife == \A t \in Trace : runs[t] <= 1

\* The audit rows agree with the ledger, although the two are committed apart
\* and a restart rebuilds the seen ids from them: an applied event is the
\* command's status, or the receipt that came before its outcome.
AuditAgreesWithLedger ==
  \A id \in history :
    \/ status[id[1]] = id[2]
    \/ id[2] = "RECEIVED" /\ status[id[1]] \in TERMINAL_STATES

\* While there are no faults every command gets its outcome: no acknowledgement
\* is refused for good when messages are neither lost nor repeated.
EveryCommandSettles ==
  \A t \in Trace : status[t] = "ISSUED" ~> status[t] \in TERMINAL_STATES \/ faults > 0

\* CommanderCore's timeout sweep: "Mark the command failed in the tracker so
\* it stops appearing".
GivenUpStopsAppearing == swept \cap GetIssued = {}

\* The ledger and the field together implement the promise: one outcome per
\* command, final across restarts, and true.
OutcomeOf(st) ==
  CASE st = "NONE" -> "none" [] st = "EXECUTED" -> "worked" [] st = "FAILED" -> "failed"
    [] OTHER -> "open"
Outcomes == [t \in Trace |-> OutcomeOf(status[t])]
Facts == { f \in Trace \X {"worked", "failed"} :
             \/ f[2] = "worked" /\ <<f[1], "EXECUTED">> \in did
             \/ f[2] = "failed" /\ <<f[1], "FAILED">> \in did }

Outcome == INSTANCE CommandOutcome WITH outcome <- Outcomes, fact <- Facts

OutcomeKept == Outcome!OutcomeSpec
=============================================================================
