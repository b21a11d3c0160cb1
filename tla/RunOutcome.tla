------------------------------ MODULE RunOutcome ------------------------------
(***************************************************************************)
(* What the run record promises to everyone who reads it, with no lock, no   *)
(* write-ahead record and no process in sight: one status, and whether a     *)
(* cancellation is owed.  RunLifecycle implements it.                        *)
(***************************************************************************)
VARIABLES status, wanted

Outcomes == {"succeeded", "failed", "cancelled"}

Unfinished == status \notin Outcomes

\* "none" is a run registered and not yet launched, "creating" one whose
\* workspace is being prepared.
Init == status \in {"none", "creating"} /\ ~wanted

\* A child is launched, first or again, only while nobody wants the run gone.
Launch == Unfinished /\ ~wanted /\ status' = "running" /\ wanted' = wanted

Want == Unfinished /\ status' = status /\ wanted' = TRUE

\* The first outcome stands, and a wanted cancellation is the outcome.
Finish ==
  /\ Unfinished
  /\ status' \in IF wanted THEN {"cancelled"} ELSE Outcomes
  /\ wanted' = (status' = "cancelled")

\* A cancellation that raced an outcome still wins.
Cancel == status' = "cancelled" /\ wanted' = TRUE

Next == Launch \/ Want \/ Finish \/ Cancel

Spec == Init /\ [][Next]_<<status, wanted>>
=============================================================================
