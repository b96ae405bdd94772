--------------------------- MODULE CommandOutcome ---------------------------
(***************************************************************************)
(* What the command tracker promises whoever reads it: a command has one   *)
(* outcome, given once and never revised, and the outcome tells what the   *)
(* field did.  AckProtocol is shown to implement it.                       *)
(***************************************************************************)

CONSTANT Trace                  \* the commands, by trace_id

VARIABLES outcome,              \* what the commander believes
          fact                  \* what the field has really done

outcomeVars == <<outcome, fact>>

Fact == {"worked", "failed"}

OutcomeTypeOK ==
  /\ outcome \in [Trace -> {"none", "open", "worked", "failed"}]
  /\ fact \subseteq Trace \X Fact

OutcomeInit == outcome = [t \in Trace |-> "none"] /\ fact = {}

Issue(t) ==
  /\ outcome[t] = "none"
  /\ outcome' = [outcome EXCEPT ![t] = "open"]
  /\ UNCHANGED fact

\* The field completes or botches an attempt at a command that was issued,
\* whether or not the commander still waits for it.
Attempt(t) ==
  /\ outcome[t] # "none"
  /\ \E f \in Fact : fact' = fact \cup {<<t, f>>}
  /\ UNCHANGED outcome

Report(t) ==
  /\ outcome[t] = "open"
  /\ \E f \in Fact : <<t, f>> \in fact /\ outcome' = [outcome EXCEPT ![t] = f]
  /\ UNCHANGED fact

OutcomeNext == \E t \in Trace : Issue(t) \/ Attempt(t) \/ Report(t)

OutcomeSpec == OutcomeInit /\ [][OutcomeNext]_outcomeVars
=============================================================================
