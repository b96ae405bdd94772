--------------------------- MODULE CommandTracker ---------------------------
(***************************************************************************)
(* The commander's ledger of commands (commands_monitor/command_tracker.py *)
(* over the SQLite tables of command_repo.py).  The module gives the       *)
(* tracker's state and its operations; AckProtocol composes them with the  *)
(* dispatcher, the broker and the field nodes.                             *)
(***************************************************************************)

CONSTANT Trace                  \* trace_ids of the commands

VARIABLES status,               \* the `status` of each record, table `commands`
          seen,                 \* _seen_event_ids, in memory only
          history,              \* the applied events, table `command_history`
          dated                 \* commands whose COMMAND_ISSUED row was written

trackerVars == <<status, seen, history, dated>>

AckStatus == {"RECEIVED", "EXECUTED", "FAILED"}
TERMINAL_STATES == {"EXECUTED", "FAILED"}

\* Mutation: a failed command may be revived by a later success.
VALID_TRANSITIONS_Revived ==
  { <<"ISSUED", "RECEIVED">>, <<"RECEIVED", "EXECUTED">>, <<"RECEIVED", "FAILED">>,
    <<"FAILED", "EXECUTED">> }

VALID_TRANSITIONS ==
  { <<"ISSUED", "RECEIVED">>, <<"RECEIVED", "EXECUTED">>, <<"RECEIVED", "FAILED">> }

\* A field node derives the id of an acknowledgement from its trace and its
\* status, so the pair is the id.  The timeout sweep sends no event_id.
EventId == Trace \X AckStatus
NoEventId == <<>>

TrackerTypeOK ==
  /\ status \in [Trace -> {"NONE", "ISSUED"} \cup AckStatus]
  /\ seen \subseteq EventId
  /\ history \subseteq EventId
  /\ dated \subseteq Trace

TrackerInit ==
  /\ status = [t \in Trace |-> "NONE"]
  /\ seen = {} /\ history = {} /\ dated = {}

\* create(): a second call for the same trace changes nothing.
Create(t) ==
  /\ status' = [status EXCEPT ![t] = IF @ = "NONE" THEN "ISSUED" ELSE @]
  /\ dated' = IF status[t] = "NONE" THEN dated \cup {t} ELSE dated
  /\ UNCHANGED <<seen, history>>

\* The checks of update(), in the order of the code.  An event that is
\* refused after the third check has its id remembered all the same.
Known(t) == status[t] # "NONE"
Fresh(t, id) == Known(t) /\ id # NoEventId /\ id \notin seen
\* Mutation: only the terminal states refuse an event, whatever it is.
Accepts_AnyEvent(t, event, id) == Known(t) /\ status[t] \notin TERMINAL_STATES

Accepts(t, event, id) == Fresh(t, id) /\ <<status[t], event>> \in VALID_TRANSITIONS

Update(t, event, id) ==
  /\ seen' = IF Fresh(t, id) THEN seen \cup {id} ELSE seen
  /\ status' = [status EXCEPT ![t] = IF Accepts(t, event, id) THEN event ELSE @]
  /\ history' = IF Accepts(t, event, id) THEN history \cup {id} ELSE history
  /\ UNCHANGED dated

\* A new process hydrates from the database: the ids of refused events are
\* forgotten, those of applied events come back from the history table.
Hydrate == seen' = history

Restart == Hydrate /\ UNCHANGED <<status, history, dated>>

\* create() and update() each make two commits; the process can die between
\* them, or after both.
CreateThenDie(t) ==
  /\ ~Known(t)
  /\ status' = [status EXCEPT ![t] = "ISSUED"]
  /\ dated' \in {dated, dated \cup {t}}
  /\ Hydrate
  /\ UNCHANGED history

\* Mutation: the audit row is committed before the status.
UpdateThenDie_RowFirst(t, event, id) ==
  /\ Accepts(t, event, id)
  /\ history' = history \cup {id}
  /\ seen' = history'
  /\ UNCHANGED <<status, dated>>

UpdateThenDie(t, event, id) ==
  /\ Accepts(t, event, id)
  /\ status' = [status EXCEPT ![t] = event]
  /\ Hydrate
  /\ UNCHANGED <<history, dated>>

\* What the timeout sweep can age: a record with no history entry counts as
\* issued just now (`issued_at ... else now`).
GetIssued == { t \in Trace : status[t] = "ISSUED" }
Overdue == GetIssued \cap dated
=============================================================================
