----------------------------- MODULE StepLedger -----------------------------
(***************************************************************************)
(* What agent() promises a script about its steps, with no supervisor, no  *)
(* journal, no child process and no crash in sight: a step is paid for     *)
(* before anyone works on it and the budget holds, one agent at a time     *)
(* works on it, and a keyed step that has an answer keeps it, unworked,    *)
(* until somebody rejects it.  WorkflowCalls implements it.                *)
(***************************************************************************)
EXTENDS Naturals, FiniteSets

CONSTANTS
  Steps,    \* the agent() calls of the script
  Keyed,    \* those that pass key=...
  Keys,     \* the identities one step may be paid for under
  Total     \* the budget

VARIABLES
  charged,  \* the keys paid for, ever
  agents,   \* step -> the agents at work on it
  answered  \* the keyed steps whose answer stands

Paid(s) == \E n \in Keys : <<s, n>> \in charged

Init == charged = {} /\ agents = [s \in Steps |-> 0] /\ answered = {}

(* A key is charged once, and only while there is budget left.             *)
Pay(k) ==
  /\ k \notin charged /\ Cardinality(charged) < Total
  /\ charged' = charged \cup {k}
  /\ UNCHANGED <<agents, answered>>

Work(s) ==
  /\ Paid(s) /\ agents[s] = 0 /\ s \notin answered
  /\ agents' = [agents EXCEPT ![s] = 1]
  /\ UNCHANGED <<charged, answered>>

(* Agents end or are stopped, those of several steps at once.              *)
Rest(S) ==
  /\ agents' = [s \in Steps |-> IF s \in S THEN 0 ELSE agents[s]]
  /\ UNCHANGED <<charged, answered>>

Answer(s) ==
  /\ Paid(s) /\ agents[s] = 0 /\ s \notin answered
  /\ answered' = answered \cup {s}
  /\ UNCHANGED <<charged, agents>>

Reject(s) ==
  /\ s \in answered
  /\ answered' = answered \ {s}
  /\ UNCHANGED <<charged, agents>>

Next ==
  \/ \E k \in Steps \X Keys : Pay(k)
  \/ \E s \in Steps : Work(s)
  \/ \E S \in SUBSET Steps : Rest(S)
  \/ \E s \in Keyed : Answer(s) \/ Reject(s)

Spec == Init /\ [][Next]_<<charged, agents, answered>>
=============================================================================
