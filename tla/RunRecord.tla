------------------------------ MODULE RunRecord ------------------------------
(***************************************************************************)
(* The run record of delegate-agent: what `state.json` and the finalize     *)
(* write-ahead record `finalize-wal.json` hold, reduced to the fields the   *)
(* cancel / finalize / launch protocol branches on, and the pure functions  *)
(* the code applies to them (record_io.py, run_status.py,                   *)
(* wait_cancel_commands.py, runner.py).                                     *)
(***************************************************************************)
EXTENDS Naturals

CONSTANT MaxAttempts   \* bound: child attempts of one run (primary + retries)

ASSUME AttemptsAssumption == MaxAttempts \in Nat \ {0}

Attempts == 1..MaxAttempts

Terminal == {"succeeded", "failed", "cancelled"}

\* "none": no state.json yet.  "creating" stands for creating_isolation.
Statuses == {"none", "creating", "running"} \cup Terminal

\* gen is the published pid/pgid (the attempt that wrote them, 0 for none),
\* marker is cancelRequested, setup says that setupPgid is recorded.
Records == [status : Statuses, marker : BOOLEAN,
            gen : 0..MaxAttempts, setup : BOOLEAN]

Fresh(status, gen) ==
  [status |-> status, marker |-> FALSE, gen |-> gen, setup |-> FALSE]

\* Also the value of the WAL when no finalize-wal.json exists.
NoRecord == Fresh("none", 0)

\* "Cancellation owns the outcome": the two ways a record says it.
CancelSeen(r) == r.marker \/ r.status = "cancelled"

\* Slips of the next operator: last writer wins; only the status is compared.
MergePendingWins(current, pending) == pending
MergeForgetsMarker(current, pending) ==
  IF current.status \in Terminal THEN current ELSE pending

\* The terminal record that `pending`, a finalizer's outcome, becomes over the
\* record `current`: cancellation wins, then the first terminal record.
MergeTerminal(current, pending) ==
  IF CancelSeen(current)
  THEN [status |-> "cancelled",
        marker |-> current.marker \/ pending.marker,
        gen    |-> IF pending.gen # 0 THEN pending.gen ELSE current.gen,
        setup  |-> current.setup \/ pending.setup]
  ELSE IF current.status \in Terminal THEN current ELSE pending

\* What the two files say together: a pending WAL is overlaid on the record.
Overlay(state, pending) ==
  IF pending = NoRecord THEN state ELSE MergeTerminal(state, pending)

\* A launch must not start, or publish, over such a record.
LaunchRefused(r) == r.marker \/ r.status \in Terminal

\* effectiveStatus: a running record whose pid is missing or dead is stale.
Effective(r, alive) ==
  IF r.status = "running" /\ r.gen \notin alive THEN "stale" ELSE r.status

Settled(effective) == effective \in Terminal \cup {"stale"}

\* Slip: the marker never reaches the record.
StampedNot(r) == r

Stamped(r) == [r EXCEPT !.marker = TRUE]

\* The canonical cancelled outcome written over a record.
Cancelled(r) == [r EXCEPT !.status = "cancelled"]

NoTarget == 0
SetupGroup == MaxAttempts + 1
Targets == 0..(MaxAttempts + 1)

\* The process a record names for cancel to signal: the published child, else
\* the setup group, else nothing.
SignalTarget(r) ==
  IF r.gen # 0 THEN r.gen ELSE IF r.setup THEN SetupGroup ELSE NoTarget
=============================================================================
