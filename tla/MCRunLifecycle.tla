--------------------------- MODULE MCRunLifecycle ---------------------------
(* Small instances of RunLifecycle for TLC.                                 *)
EXTENDS RunLifecycle, TLC

CONSTANTS c1, c2

CancellerSymmetry == Permutations(Cancellers)
=============================================================================
