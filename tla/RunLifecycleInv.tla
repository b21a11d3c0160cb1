--------------------------- MODULE RunLifecycleInv ---------------------------
(***************************************************************************)
(* The inductive invariants behind the theorems about RunLifecycle.          *)
(***************************************************************************)
EXTENDS RunLifecycle

Holding(c) == cpc[c] \in Loads \cup Acts \cup Sealing

\* The lock and the program counters agree on who is inside.
LockInv ==
  /\ lock = "launcher" <=> pc = "publish"
  /\ \A c \in Cancellers : Holding(c) <=> lock = c

\* A launcher writes at most one WAL, as the last thing it does to the record.
WalInv == wal # NoRecord => /\ wal.status \in Terminal
                            /\ pc \in {"present", "done", "crashed"}

\* What a lock holder loaded is still the record, or the record under a WAL
\* published since the holder folded the one before, and what it concluded
\* about a child only ever turns a running record into a stale one.
ViewInv == \A c \in Cancellers : cpc[c] \in Acts =>
  /\ view[c] \in {rec, View}
  /\ seen[c] = view[c].status \/ (seen[c] = "stale" /\ view[c].status = "running")

\* Nothing came between the admission read and the publication.
PublishInv == pc = "publish" => ~LaunchRefused(View)

\* What an unlocked finalizer read can only have moved towards an outcome.
DraftInv == pc \in {"finalizeWal", "failWal"} =>
  /\ draft.status \in Terminal => View.status \in Terminal
  /\ CancelSeen(draft) => CancelSeen(View)

\* A launcher about to write a terminal record has computed its outcome, and
\* only a retry can fall back on the capture of the attempt before it.
LauncherInv ==
  /\ pc \in {"finalize", "finalizeWal", "fail", "failWal"} => outcome \in Terminal
  /\ pc = "retryFailed" => attempt > 1

\* A launcher that captures a child has published it.
CaptureInv == pc = "capture" => View.status \in {"running"} \cup Terminal

RecordInv ==
  LockInv /\ WalInv /\ ViewInv /\ PublishInv /\ DraftInv /\ CaptureInv

\* The steps of RunOutcome, said of the record readers got before and after.
Promised(r, s) ==
  \/ s.status = r.status /\ (CancelSeen(s) <=> CancelSeen(r))
  \/ s.status = "cancelled"
  \/ /\ r.status \notin Terminal
     /\ \/ ~CancelSeen(r) /\ s.status = "running" /\ ~CancelSeen(s)
        \/ s.status = r.status /\ CancelSeen(s)
        \/ ~CancelSeen(r) /\ s.status \in Terminal /\ ~s.marker

-----------------------------------------------------------------------------
(* What the launcher and the cancel commands told the operator.             *)

Owed == {"kill", "settle", "settleLoad", "settleAct"} \cup Sealing

\* A cancel command that signals, settles or seals has its marker on the record.
OwedInv == \A c \in Cancellers : cpc[c] \in Owed => CancelSeen(View)

\* A marked record has no other outcome than cancelled.
MarkedInv == View.marker /\ View.status \in Terminal => View.status = "cancelled"

\* A finalizer that persisted under the lock leaves no WAL, and is the last to
\* write an outcome.
ReportInv ==
  /\ reported # "none" => View.status \in Terminal
  /\ via # "none" => pc \in {"present", "done", "crashed"}
  /\ via = "lock" => wal = NoRecord /\ View.status = reported /\ reported \in Terminal

ReplyInv == OwedInv /\ MarkedInv /\ ReportInv /\ CancelledReplyHolds

-----------------------------------------------------------------------------
(* Processes *)

\* Where the launcher may still have a group running.
Tending == {"publish", "capture", "reaped", "crashed"}

\* Which attempt may have running processes: the launcher's current one, while
\* it launches or captures it, or is gone; and then no WAL was ever written.
RunsInv ==
  /\ \A g \in Attempts : GroupRuns(g) =>
       g = attempt /\ pc \in Tending /\ wal = NoRecord
  /\ pc = "reaped" => \A g \in Attempts : leader[g] # "live"

Launching == {"create", "setupCheck", "setupSpawn", "setupPublish", "setupWait", "setupClear",
              "setupVerdict", "admit", "publish"}
Capturing == {"capture", "reaped", "decide"}
Urgent == {"urgentRecheck", "urgentRecheckWal", "urgentRecheckAgain", "urgentKill",
           "record", "recordLoad", "recordAct", "recordSeal"}

\* The generations published so far: what a cancel command aims at is one of
\* them, so the next attempt's process is not the one it has killed.
Reached(g) == /\ pc \in Launching => g < attempt
              /\ pc \in Capturing => g <= attempt
ReachedInv == Reached(rec.gen) /\ (pc \in {"capture", "reaped"} => rec.gen = attempt)

\* What a cancel command knows of the group the record names: what it reads, and
\* aims at, without the lock was published once; it seals a record without one, or one whose group it has killed; and the group that a marked
\* record names is its target, which is killed before it settles.
Aims(c) ==
  /\ cpc[c] \in WalReads \cup Rereads => Reached(view[c].gen)
  /\ cpc[c] \in Urgent => target[c] \in Attempts /\ Reached(target[c])
  /\ cpc[c] = "selectSeal" => rec.gen = 0
  /\ cpc[c] = "recordSeal" => rec.gen = target[c]
  /\ cpc[c] \in {"record", "recordLoad", "recordAct", "recordSeal"} => ~GroupRuns(target[c])
  /\ cpc[c] \in {"kill", "settle", "settleLoad", "settleAct"} =>
       \A g \in Attempts : GroupRuns(g) /\ rec.gen = g => cpc[c] = "kill" /\ target[c] = g
AimInv == \A c \in Cancellers : Aims(c)

ChildInv == RunsInv /\ ReachedInv /\ AimInv /\ TerminalLeavesNoChild
=============================================================================
