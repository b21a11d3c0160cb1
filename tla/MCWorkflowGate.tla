--------------------------- MODULE MCWorkflowGate ---------------------------
(* Two finite instances of WorkflowGate for TLC, one behaviour being of one *)
(* of them: a wave of items with two gates, and one gate answered over the  *)
(* lives of five supervisors.  What is declared here covers both, so that   *)
(* an invariant of WorkflowGate is one of either.                           *)
EXTENDS WorkflowGate, Functions

CONSTANTS i1, i2, i3, g1, g2

OneOffer == {{"approve"}}
TwoOffers == {{"retry", "accept"}, {"approve", "retry"}}
AllOffers == OneOffer \cup TwoOffers

\* The script lets a gate through; one result, and actions that it may approve.
Wave == INSTANCE WorkflowGate
  WITH Results <- {"r1"}, Offers <- OneOffer, MaxLives <- 2, Catches <- FALSE

\* No items: the body itself asks, about two results, with actions that need
\* not offer approval, and may catch the gate.
Answering == INSTANCE WorkflowGate
  WITH Gates <- {g1}, PlainGates <- {}, Offers <- TwoOffers, Cap <- 1, MaxSteps <- 1

VARIABLE focus
gateVars == <<vars, focus>>

\* Items are interchangeable: a wave has the first of them, started in order, as
\* the code does.
Firsts == {{}, {i1}, {i1, i2}, {i1, i2, i3}}

GateInit == Init /\ focus \in {"wave", "answers"}
WaveTurn == focus = "wave" /\ Wave!Next /\ {wave, started}' \subseteq Firsts /\ UNCHANGED focus
AnswerTurn == focus = "answers" /\ Answering!Next /\ wave' = {} /\ UNCHANGED focus
GateNext == WaveTurn \/ AnswerTurn

WaveFairness ==
  /\ \A t \in Threads : WF_gateVars(focus = "wave" /\ Wave!ThreadStep(t) /\ UNCHANGED focus)
  /\ WF_gateVars(focus = "wave" /\ Wave!MainStep /\ UNCHANGED focus)
GateSpec == GateInit /\ [][GateNext]_gateVars /\ WaveFairness

\* GateEndsSupervisor, of the wave: a body that catches the gate may go on.
WaveEndsSupervisor == (focus = "wave" /\ up /\ stop) ~> ~up

\* Bound: the calls that the threads of the first and of the second supervisor
\* make together in the wave.  A thread that may not call any more can still
\* return, so the bound leaves the fairness satisfiable.
MaxCalls == <<4, 3>>
WithinCalls == focus = "wave" => SumFunction(steps) <= MaxCalls[life]
=============================================================================
