---------------------------- MODULE RunLifecycle ----------------------------
(***************************************************************************)
(* One tracked run: its launcher (runner.py, worktree_execution.py), the    *)
(* `delegate cancel` commands aimed at it (wait_cancel_commands.py), the    *)
(* processes it starts, and the record they all share under the workspace   *)
(* registry lock (run_registry.py, record_io.py).                           *)
(*                                                                         *)
(* A step is either one hold of the registry lock or one access made        *)
(* without it.  A hold of a cancel command is split (acquire, load, act)    *)
(* because the launcher's finalizer may publish its WAL without the lock    *)
(* in between; the launcher's own holds are split only around Popen, where  *)
(* a crash leaves a child that no record names.  A read without the lock    *)
(* looks at the record and the WAL in turn; the launcher's own are one look *)
(* because all of them come before the WAL that only it can write.          *)
(***************************************************************************)
EXTENDS RunRecord, FiniteSets

CONSTANTS
  Cancellers,         \* concurrent `delegate cancel` commands on this run
  MaxSelections,      \* CANCEL_GENERATION_MAX_ATTEMPTS
  Kinds,              \* launch kinds explored: subset of LaunchKinds
  LauncherMayCrash,   \* SIGKILL of the launcher, SIGTERM while it runs setup
  CancellerMayCrash,  \* SIGKILL or Ctrl-C of a cancel command
  LockMayTimeOut,     \* a bounded wait for the registry lock may run out
  OthersHoldLock,     \* other commands of the workspace take the lock
  WritesMayFail       \* the manifest or index write after Popen may fail

LaunchKinds == {"plain", "isolated", "setup"}

ASSUME ConstantsAssumption ==
  /\ MaxSelections \in Nat \ {0}
  /\ Kinds \subseteq LaunchKinds
  /\ Cancellers \cap {"free", "launcher", "other"} = {}
  /\ {LauncherMayCrash, CancellerMayCrash, LockMayTimeOut,
      OthersHoldLock, WritesMayFail} \subseteq BOOLEAN

VARIABLES
  rec,        \* state.json
  wal,        \* finalize-wal.json, NoRecord when absent
  lock,       \* the registry flock: "free" or its holder
  kind,       \* how this run was launched
  pc,         \* where the launcher is
  attempt,    \* the attempt being launched or captured, or whose capture is finalized
  outcome,    \* the status computed for the finalizer
  draft,      \* the record an unlocked finalizer read before writing its WAL
  reported,   \* the status the finalizer returned: envelope, exit code, ping
  via,        \* how that finalizer persisted it: "lock" or "wal"
  leader,     \* the child of each attempt
  kids,       \* attempts whose process group outlives its leader
  setup,      \* the workspace setup process
  cpc,        \* where each cancel command is
  target,     \* the generation it selected
  selections, \* the selections it has left
  view,       \* the record it loaded
  seen,       \* the effective status it computed from that record
  reply       \* what it answered

record    == <<rec, wal, lock>>
processes == <<leader, kids, setup>>
launcher  == <<pc, attempt, outcome, draft, reported, via>>
cancelling == <<cpc, target, selections, view, seen, reply>>
vars == <<rec, wal, lock, kind, pc, attempt, outcome, draft, reported, via,
          leader, kids, setup, cpc, target, selections, view, seen, reply>>

LauncherPCs ==
  {"create", "setupCheck", "setupSpawn", "setupPublish", "setupWait",
   "setupClear", "setupVerdict", "admit", "publish", "recordFailure",
   "retryFailed", "capture", "reaped", "decide", "finalize", "finalizeWal",
   "abort", "fail", "failWal", "present", "done", "crashed"}

Waits == {"select", "mark", "settle", "record"}
Loads == {"selectLoad", "markLoad", "settleLoad", "recordLoad"}
Acts  == {"selectAct", "markAct", "settleAct", "recordAct"}
Sealing == {"selectSeal", "recordSeal"}

\* A read without the lock: state.json, the WAL, state.json again.
Reads == {"urgentRead", "urgentRecheck"}
WalReads == {"urgentReadWal", "urgentRecheckWal"}
Rereads == {"urgentReadAgain", "urgentRecheckAgain"}

CancelPCs ==
  {"idle", "kill", "urgentKill", "done", "crashed"}
  \cup Waits \cup Loads \cup Acts \cup Sealing \cup Reads \cup WalReads \cup Rereads

Replies ==
  {"none", "cancelled", "unrecorded", "alreadySettled", "alreadyTerminal",
   "groupAlive", "missingPid", "targetChanged", "lockBusy", "lockTimeout"}

RecordTypeOK ==
  /\ rec \in Records
  /\ wal \in Records
  /\ lock \in {"free", "launcher", "other"} \cup Cancellers

LauncherTypeOK ==
  /\ kind \in LaunchKinds
  /\ pc \in LauncherPCs
  /\ attempt \in Attempts
  /\ outcome \in {"none"} \cup Terminal
  /\ draft \in Records
  /\ reported \in {"none"} \cup Terminal
  /\ via \in {"none", "lock", "wal"}

ProcessTypeOK ==
  /\ leader \in [Attempts -> {"unborn", "live", "zombie", "dead"}]
  /\ kids \in SUBSET Attempts
  /\ setup \in {"none", "live", "ok", "failed", "stopped"}

CancelTypeOK ==
  /\ cpc \in [Cancellers -> CancelPCs]
  /\ target \in [Cancellers -> Targets]
  /\ selections \in [Cancellers -> 1..MaxSelections]
  /\ view \in [Cancellers -> Records]
  /\ seen \in [Cancellers -> Statuses \cup {"stale"}]
  /\ reply \in [Cancellers -> Replies]

TypeOK == RecordTypeOK /\ LauncherTypeOK /\ ProcessTypeOK /\ CancelTypeOK

-----------------------------------------------------------------------------
(* What the record and the WAL say together, and the processes behind it. *)

\* What load_run_state returns under the lock, and to the launcher before it
\* finalized; a reader that has neither may fall between two versions of it.
View == Overlay(rec, wal)

\* os.kill(pid, 0) succeeds for a child that exited and was not yet reaped.
AlivePids == {g \in Attempts : leader[g] \in {"live", "zombie"}}

\* Slip: a dead leader is taken for an empty group.
LeaderAlive(g) == g \in AlivePids

GroupAlive(g) == g \in AlivePids \/ g \in kids

LauncherGone == pc \in {"done", "crashed"}

\* reconcile_finalize_wal_locked: fold a pending WAL into the record.  Publish
\* and unlink are one step: folding a record twice changes nothing more.
Reconcile == rec' = View /\ wal' = NoRecord

\* One whole hold of the registry lock, taken and released within the step.
Hold == lock = "free" /\ lock' = "free"

LockTimesOut == LockMayTimeOut /\ lock # "free"

Init ==
  /\ kind \in Kinds
  /\ rec = IF kind = "plain" THEN NoRecord ELSE Fresh("creating", 0)
  /\ pc = IF kind = "plain" THEN "admit" ELSE "create"
  /\ wal = NoRecord
  /\ lock = "free"
  /\ attempt = 1
  /\ outcome = "none"
  /\ draft = NoRecord
  /\ reported = "none"
  /\ via = "none"
  /\ leader = [g \in Attempts |-> "unborn"]
  /\ kids = {}
  /\ setup = "none"
  /\ cpc = [c \in Cancellers |-> "idle"]
  /\ target = [c \in Cancellers |-> NoTarget]
  /\ selections = [c \in Cancellers |-> MaxSelections]
  /\ view = [c \in Cancellers |-> NoRecord]
  /\ seen = [c \in Cancellers |-> "none"]
  /\ reply = [c \in Cancellers |-> "none"]

-----------------------------------------------------------------------------
(* The launcher: worktree creation and the workspace setup command.         *)

CreateWorktree ==
  /\ pc = "create"
  /\ \/ pc' = (IF kind = "setup" THEN "setupCheck" ELSE "admit") /\ outcome' = outcome
     \/ pc' = "fail" /\ outcome' = "failed"
  /\ UNCHANGED <<record, kind, attempt, draft, reported, via, processes, cancelling>>

\* The cancel check before setup releases the lock before setup is started.
\* A refusal raises with nothing recorded, and so does a lock timeout.
SetupCheck ==
  /\ pc = "setupCheck"
  /\ \/ /\ Hold /\ Reconcile
        /\ pc' = IF LaunchRefused(View) THEN "done" ELSE "setupSpawn"
     \/ /\ LockTimesOut
        /\ pc' = "done"
        /\ UNCHANGED record
  /\ UNCHANGED <<kind, attempt, outcome, draft, reported, via, processes, cancelling>>

SetupSpawn ==
  /\ pc = "setupSpawn"
  /\ \/ setup' = "live" /\ pc' = "setupPublish"
     \/ setup' = "failed" /\ pc' = "setupClear"
  /\ UNCHANGED <<record, kind, attempt, outcome, draft, reported, via,
                 leader, kids, cancelling>>

\* _publish_setup_pgid: a read-modify-write under the lock; a timeout leaves
\* the record unannotated and the setup running.
SetupPublish ==
  /\ pc = "setupPublish"
  /\ pc' = "setupWait"
  /\ \/ /\ Hold
        /\ rec' = [View EXCEPT !.setup = TRUE]
        /\ wal' = NoRecord
     \/ LockTimesOut /\ UNCHANGED record
  /\ UNCHANGED <<kind, attempt, outcome, draft, reported, via, processes, cancelling>>

SetupReap ==
  /\ pc = "setupWait"
  /\ setup \in {"ok", "failed"}
  /\ pc' = "setupClear"
  /\ UNCHANGED <<record, kind, attempt, outcome, draft, reported, via,
                 processes, cancelling>>

\* The launcher's --timeout for setup: kill the group, count it as a failure.
SetupDeadline ==
  /\ pc = "setupWait"
  /\ setup = "live"
  /\ setup' = "failed"
  /\ pc' = "setupClear"
  /\ UNCHANGED <<record, kind, attempt, outcome, draft, reported, via,
                 leader, kids, cancelling>>

\* SIGTERM of the launcher while it runs setup: it takes the group down, clears
\* the record and dies of the signal; the run is left for the seal path.
SetupInterrupted ==
  /\ LauncherMayCrash
  /\ pc \in {"setupPublish", "setupWait", "setupClear"}
  /\ setup' = "stopped"
  /\ pc' = "setupClear"
  /\ UNCHANGED <<record, kind, attempt, outcome, draft, reported, via,
                 leader, kids, cancelling>>

SetupClear ==
  /\ pc = "setupClear"
  /\ pc' = CASE setup = "ok" -> "admit" [] setup = "stopped" -> "crashed"
             [] OTHER -> "setupVerdict"
  /\ \/ /\ Hold
        /\ rec' = [View EXCEPT !.setup = FALSE]
        /\ wal' = NoRecord
     \/ LockTimesOut /\ UNCHANGED record
  /\ UNCHANGED <<kind, attempt, outcome, draft, reported, via, processes, cancelling>>

\* A failed setup is the operator's cancellation when the record says so.
SetupVerdict ==
  /\ pc = "setupVerdict"
  /\ \/ /\ Hold /\ Reconcile
        /\ outcome' = IF LaunchRefused(View) THEN "cancelled" ELSE "failed"
        /\ pc' = "fail"
     \/ /\ LockTimesOut
        /\ pc' = "done"
        /\ UNCHANGED <<record, outcome>>
  /\ UNCHANGED <<kind, attempt, draft, reported, via, processes, cancelling>>

-----------------------------------------------------------------------------
(* The launcher: one child attempt after another.                           *)

\* Slip: the first attempt falls back on a capture it does not have.
LaunchLostToRetry == "retryFailed"

\* Where a launch that did not happen leaves the launcher: a retry still has
\* the capture of the attempt before it.
LaunchLost == IF attempt > 1 THEN "retryFailed" ELSE "abort"

\* Admission, Popen and publication happen under one hold of the lock; Popen
\* ends this step with the lock still held.
Admit ==
  /\ pc = "admit"
  /\ lock = "free"
  /\ Reconcile
  /\ IF LaunchRefused(View)
     THEN pc' = LaunchLost /\ UNCHANGED <<lock, leader>>
     ELSE \/ /\ leader' = [leader EXCEPT ![attempt] = "live"]
             /\ lock' = "launcher"
             /\ pc' = "publish"
          \/ /\ pc' = "recordFailure"   \* Popen or the sandbox plan failed
             /\ UNCHANGED <<lock, leader>>
  /\ UNCHANGED <<kind, attempt, outcome, draft, reported, via, kids, setup, cancelling>>

AdmitTimesOut ==
  /\ pc = "admit"
  /\ LockTimesOut
  /\ pc' = LaunchLost
  /\ UNCHANGED <<record, kind, attempt, outcome, draft, reported, via,
                 processes, cancelling>>

\* Publication re-reads the record first and kills the child rather than write
\* over one that turned terminal or was marked since the admission read.
Publish ==
  /\ pc = "publish"
  /\ lock' = "free"
  /\ IF LaunchRefused(View)
     THEN /\ leader' = [leader EXCEPT ![attempt] = "dead"]
          /\ kids' = kids \ {attempt}
          /\ pc' = LaunchLost
          /\ rec' = rec
     ELSE /\ rec' = Fresh("running", attempt)
          /\ pc' = "capture"
          /\ UNCHANGED <<leader, kids>>
  /\ UNCHANGED <<wal, kind, attempt, outcome, draft, reported, via, setup, cancelling>>

\* state.json, the manifest or the index cannot be written: the child is
\* killed and the exception leaves the attempt.
PublishFails ==
  /\ WritesMayFail
  /\ pc = "publish"
  /\ rec' \in {rec, Fresh("running", attempt)}
  /\ leader' = [leader EXCEPT ![attempt] = "dead"]
  /\ kids' = kids \ {attempt}
  /\ lock' = "free"
  /\ pc' = "abort"
  /\ UNCHANGED <<wal, kind, attempt, outcome, draft, reported, via, setup, cancelling>>

\* Slip: the failure is raised and not recorded.
RecordFailureRaises ==
  /\ pc = "recordFailure"
  /\ pc' = LaunchLost
  /\ UNCHANGED <<record, kind, attempt, outcome, draft, reported, via,
                 processes, cancelling>>

\* _record_tracked_launch_failure
RecordFailure ==
  /\ pc = "recordFailure"
  /\ pc' = LaunchLost
  /\ \/ /\ Hold
        /\ rec' = IF LaunchRefused(View) THEN View ELSE Fresh("failed", 0)
        /\ wal' = NoRecord
     \/ LockTimesOut /\ UNCHANGED record
  /\ UNCHANGED <<kind, attempt, outcome, draft, reported, via, processes, cancelling>>

\* A retry that lost its launch to a cancel finalizes the earlier capture; any
\* other lost retry raises.
RetryFailed ==
  /\ pc = "retryFailed"
  /\ IF CancelSeen(View)
     THEN /\ pc' = "finalize"
          /\ attempt' = attempt - 1
          /\ outcome' \in IF View.marker THEN {"cancelled"} ELSE Terminal
     ELSE pc' = "abort" /\ UNCHANGED <<attempt, outcome>>
  /\ UNCHANGED <<record, kind, draft, reported, via, processes, cancelling>>

\* persist_progress: rewrite the running record, carrying the cancel marker
\* over; never over a terminal record.  A busy lock skips the refresh.
PersistProgress ==
  /\ pc = "capture"
  /\ Hold
  /\ rec' = IF View.status \in Terminal THEN View
            ELSE [Fresh("running", attempt) EXCEPT !.marker = View.marker]
  /\ wal' = NoRecord
  /\ UNCHANGED <<kind, launcher, processes, cancelling>>

\* Output limit, deadline or stall: terminate the group and reap the leader.
StopChild ==
  /\ pc = "capture"
  /\ leader[attempt] \in {"live", "zombie"}
  /\ leader' = [leader EXCEPT ![attempt] = "dead"]
  /\ kids' = kids \ {attempt}
  /\ pc' = "decide"
  /\ UNCHANGED <<record, kind, attempt, outcome, draft, reported, via, setup, cancelling>>

Reap ==
  /\ pc = "capture"
  /\ leader[attempt] = "zombie"
  /\ leader' = [leader EXCEPT ![attempt] = "dead"]
  /\ pc' = "reaped"
  /\ UNCHANGED <<record, kind, attempt, outcome, draft, reported, via,
                 kids, setup, cancelling>>

\* Slip: only exits the launcher forced clean the group up.
TerminateNothing ==
  /\ pc = "reaped"
  /\ pc' = "decide"
  /\ UNCHANGED <<record, kind, attempt, outcome, draft, reported, via,
                 processes, cancelling>>

\* _terminate_call_process on every exit of the capture: the group's survivors.
TerminateGroup ==
  /\ pc = "reaped"
  /\ kids' = kids \ {attempt}
  /\ pc' = "decide"
  /\ UNCHANGED <<record, kind, attempt, outcome, draft, reported, via,
                 leader, setup, cancelling>>

\* A retry (lost thread, profile fallback, empty success) is decided from an
\* unlocked read of the record.
Retry ==
  /\ pc = "decide"
  /\ attempt < MaxAttempts
  /\ ~CancelSeen(View)
  /\ attempt' = attempt + 1
  /\ pc' = "admit"
  /\ UNCHANGED <<record, kind, outcome, draft, reported, via, processes, cancelling>>

\* _finalize_tracked_run reads the marker without the lock, and computes the
\* child's outcome (a harness may report its own cancellation).
ComputeOutcome ==
  /\ pc = "decide"
  /\ outcome' \in IF View.marker THEN {"cancelled"} ELSE Terminal
  /\ pc' = "finalize"
  /\ UNCHANGED <<record, kind, attempt, draft, reported, via, processes, cancelling>>

-----------------------------------------------------------------------------
(* The launcher: the terminal record.                                       *)

\* A terminal record nobody cancelled is adopted as it is.
AlreadyFinal(r) == r.status \in Terminal /\ ~CancelSeen(r)

\* Slip: the report is the computed outcome, whatever the record says.
FinalStatusAsComputed(r) == IF AlreadyFinal(r) THEN r.status ELSE outcome

FinalStatus(r) ==
  IF AlreadyFinal(r) THEN r.status
  ELSE IF CancelSeen(r) THEN "cancelled" ELSE outcome

\* The finalizer's record over the one it read: only a child that was
\* captured gives it a pid.
FinalRecord(r) ==
  MergeTerminal(r, Fresh(FinalStatus(r), IF pc \in {"finalize", "finalizeWal"}
                                         THEN attempt ELSE 0))

\* A persistent worktree's launcher goes on to write the worktree status.
AfterFinal == IF pc \in {"finalize", "finalizeWal"} /\ kind # "plain"
              THEN "present" ELSE "done"

\* _persist_final_progress with the lock.
FinalizeLocked ==
  /\ pc \in {"finalize", "fail"}
  /\ Hold
  /\ rec' = IF AlreadyFinal(View) THEN View ELSE FinalRecord(View)
  /\ wal' = NoRecord
  /\ reported' = FinalStatus(View)
  /\ via' = "lock"
  /\ pc' = AfterFinal
  /\ UNCHANGED <<kind, attempt, outcome, draft, processes, cancelling>>

\* _persist_final_progress when the lock wait ran out: the same decision from
\* an unlocked read ...
FinalizeUnlocked ==
  /\ pc \in {"finalize", "fail"}
  /\ LockTimesOut
  /\ draft' = View
  /\ pc' = IF pc = "finalize" THEN "finalizeWal" ELSE "failWal"
  /\ UNCHANGED <<record, kind, attempt, outcome, reported, via, processes, cancelling>>

\* ... published as a WAL for the next lock holder to fold.
WriteWal ==
  /\ pc \in {"finalizeWal", "failWal"}
  /\ wal' = IF AlreadyFinal(draft) THEN wal ELSE FinalRecord(draft)
  /\ reported' = FinalStatus(draft)
  /\ via' = "wal"
  /\ draft' = NoRecord
  /\ pc' = AfterFinal
  /\ UNCHANGED <<rec, lock, kind, attempt, outcome, processes, cancelling>>

\* An exception that left the attempts: a plain launch just exits, a
\* persistent-worktree launch records a failure unless one is recorded.
Abort ==
  /\ pc = "abort"
  /\ IF kind = "plain" THEN pc' = "done" /\ outcome' = outcome
     ELSE IF View.status \in Terminal THEN pc' = "present" /\ outcome' = outcome
     ELSE pc' = "fail" /\ outcome' = "failed"
  /\ UNCHANGED <<record, kind, attempt, draft, reported, via, processes, cancelling>>

\* set_worktree_status: the status field is untouched, a pending WAL folded.
SetWorktreeStatus ==
  /\ pc = "present"
  /\ pc' = "done"
  /\ \/ Hold /\ Reconcile
     \/ LockTimesOut /\ UNCHANGED record
  /\ UNCHANGED <<kind, attempt, outcome, draft, reported, via, processes, cancelling>>

LauncherCrash ==
  /\ LauncherMayCrash
  /\ ~LauncherGone
  /\ pc' = "crashed"
  /\ lock' = IF lock = "launcher" THEN "free" ELSE lock
  /\ UNCHANGED <<rec, wal, kind, attempt, outcome, draft, reported, via,
                 processes, cancelling>>

\* What the launcher does next whenever it is scheduled.  Deadlines, stalls and
\* progress refreshes are the environment's choice.
LauncherStep ==
  \/ CreateWorktree \/ SetupCheck \/ SetupSpawn \/ SetupPublish \/ SetupReap
  \/ SetupClear \/ SetupVerdict
  \/ Admit \/ AdmitTimesOut \/ Publish \/ PublishFails \/ RecordFailure
  \/ RetryFailed \/ Reap \/ TerminateGroup \/ Retry
  \/ ComputeOutcome \/ FinalizeLocked \/ FinalizeUnlocked \/ WriteWal
  \/ Abort \/ SetWorktreeStatus

-----------------------------------------------------------------------------
(* The processes, and the rest of the workspace.                            *)

\* A child exits, on its own or on a signal, perhaps leaving group members.
ChildExits(g) ==
  /\ leader[g] = "live"
  /\ leader' = [leader EXCEPT ![g] = "zombie"]
  /\ kids' \in {kids, kids \cup {g}}
  /\ UNCHANGED <<record, kind, launcher, setup, cancelling>>

KidsExit(g) ==
  /\ g \in kids
  /\ kids' = kids \ {g}
  /\ UNCHANGED <<record, kind, launcher, leader, setup, cancelling>>

\* init reaps the orphan of a launcher that is gone.
InitReaps(g) ==
  /\ LauncherGone
  /\ leader[g] = "zombie"
  /\ leader' = [leader EXCEPT ![g] = "dead"]
  /\ UNCHANGED <<record, kind, launcher, kids, setup, cancelling>>

SetupExits ==
  /\ setup = "live"
  /\ setup' \in {"ok", "failed"}
  /\ UNCHANGED <<record, kind, launcher, leader, kids, cancelling>>

ProcessStep ==
  \/ \E g \in Attempts : ChildExits(g) \/ KidsExit(g) \/ InitReaps(g)
  \/ SetupExits

\* Any other command of the workspace holds the lock for a while.
OtherHolds ==
  /\ OthersHoldLock
  /\ lock = "free"
  /\ lock' = "other"
  /\ UNCHANGED <<rec, wal, kind, launcher, processes, cancelling>>

OtherReleases ==
  /\ lock = "other"
  /\ lock' = "free"
  /\ UNCHANGED <<rec, wal, kind, launcher, processes, cancelling>>

\* A command that visits this run (prune, retire, gc) replays its WAL first.
OtherReplays ==
  /\ OthersHoldLock
  /\ Hold /\ Reconcile
  /\ UNCHANGED <<kind, launcher, processes, cancelling>>

\* seal_unlaunched_run: a record that never published a process, quiet for the
\* grace window, whose launcher is verifiably gone.
SealUnlaunched ==
  /\ Hold
  /\ LauncherGone
  /\ View.status = "creating"
  /\ View.gen = 0
  /\ rec' = Cancelled(Stamped(View))
  /\ wal' = NoRecord
  /\ UNCHANGED <<kind, launcher, processes, cancelling>>

-----------------------------------------------------------------------------
(* `delegate cancel`: select a generation, mark the record, signal the      *)
(* generation, settle the record.                                           *)

At(c, where) == cpc[c] = where

\* Move on keeping what was read, ...
GoTo(c, where) ==
  /\ cpc' = [cpc EXCEPT ![c] = where]
  /\ UNCHANGED <<target, selections, view, seen, reply>>

\* ... move on to a phase that reads afresh, aimed at `aim`, ...
Onward(c, where, aim) ==
  /\ cpc' = [cpc EXCEPT ![c] = where]
  /\ target' = [target EXCEPT ![c] = aim]
  /\ view' = [view EXCEPT ![c] = NoRecord]
  /\ seen' = [seen EXCEPT ![c] = "none"]
  /\ UNCHANGED <<selections, reply>>

\* ... or stop, forgetting everything.
Stop(c, where, answer) ==
  /\ cpc' = [cpc EXCEPT ![c] = where]
  /\ target' = [target EXCEPT ![c] = NoTarget]
  /\ selections' = [selections EXCEPT ![c] = MaxSelections]
  /\ view' = [view EXCEPT ![c] = NoRecord]
  /\ seen' = [seen EXCEPT ![c] = "none"]
  /\ reply' = [reply EXCEPT ![c] = answer]

Answer(c, answer) == Stop(c, "done", answer)

\* Another generation `g` took the place of the selected one.
SelectAgain(c, g) ==
  IF selections[c] = 1 THEN Answer(c, "targetChanged")
  ELSE /\ cpc' = [cpc EXCEPT ![c] = "mark"]
       /\ target' = [target EXCEPT ![c] = g]
       /\ selections' = [selections EXCEPT ![c] = @ - 1]
       /\ view' = [view EXCEPT ![c] = NoRecord]
       /\ seen' = [seen EXCEPT ![c] = "none"]
       /\ UNCHANGED reply

\* state.json written, lock released; a pending WAL stays where it is.
WriteAndRelease(r) == rec' = r /\ lock' = "free" /\ UNCHANGED wal
Release == WriteAndRelease(rec)

Begin(c) ==
  /\ At(c, "idle")
  /\ GoTo(c, "select")
  /\ UNCHANGED <<record, kind, launcher, processes>>

LoadOf == [w \in Waits |->
  CASE w = "select" -> "selectLoad" [] w = "mark" -> "markLoad"
    [] w = "settle" -> "settleLoad" [] OTHER -> "recordLoad"]
ActOf == [l \in Loads |->
  CASE l = "selectLoad" -> "selectAct" [] l = "markLoad" -> "markAct"
    [] l = "settleLoad" -> "settleAct" [] OTHER -> "recordAct"]

\* Every phase takes the lock and folds a pending WAL first, ...
Enter(c) ==
  /\ cpc[c] \in Waits
  /\ lock = "free"
  /\ lock' = c
  /\ Reconcile
  /\ GoTo(c, LoadOf[cpc[c]])
  /\ UNCHANGED <<kind, launcher, processes>>

\* ... then loads the record (with a WAL published since) and its effective
\* status.
Load(c) ==
  /\ cpc[c] \in Loads
  /\ view' = [view EXCEPT ![c] = View]
  /\ seen' = [seen EXCEPT ![c] = Effective(View, AlivePids)]
  /\ cpc' = [cpc EXCEPT ![c] = ActOf[cpc[c]]]
  /\ UNCHANGED <<record, kind, launcher, processes, target, selections, reply>>

\* Slip: the recording of the urgent path waits for the lock without a bound.
GivesUpBeforeSignal(c) ==
  /\ cpc[c] \in Waits
  /\ LockTimesOut
  /\ \/ At(c, "select") /\ Onward(c, "urgentRead", NoTarget)
     \/ cpc[c] \in {"mark", "settle"} /\ Answer(c, "lockTimeout")
  /\ UNCHANGED <<record, kind, launcher, processes>>

\* A lock that stays busy: the first phase signals without it, a later phase
\* raises, the urgent path's bounded recording gives up.
GivesUpOnLock(c) ==
  /\ cpc[c] \in Waits
  /\ LockTimesOut
  /\ \/ At(c, "select") /\ Onward(c, "urgentRead", NoTarget)
     \/ cpc[c] \in {"mark", "settle"} /\ Answer(c, "lockTimeout")
     \/ At(c, "record") /\ Answer(c, "unrecorded")
  /\ UNCHANGED <<record, kind, launcher, processes>>

\* Selection over a run whose published child is dead: seal it, unless its
\* process group still has members.
SelectStale(c) ==
  /\ At(c, "selectAct")
  /\ seen[c] = "stale" /\ view[c].gen # 0
  /\ IF GroupAlive(view[c].gen)
     THEN Release /\ Answer(c, "groupAlive")
     ELSE WriteAndRelease(Cancelled(view[c])) /\ Answer(c, "cancelled")
  /\ UNCHANGED <<kind, launcher, processes>>

SelectTerminal(c) ==
  /\ At(c, "selectAct")
  /\ seen[c] \in Terminal \/ (seen[c] = "stale" /\ view[c].gen = 0)
  /\ Release
  /\ Answer(c, "alreadyTerminal")
  /\ UNCHANGED <<kind, launcher, processes>>

\* The workspace-setup window with nothing published: only the marker can stop
\* the run, and the record is sealed under the same hold.
SelectUnpublished(c) ==
  /\ At(c, "selectAct")
  /\ ~Settled(seen[c])
  /\ SignalTarget(view[c]) = NoTarget
  /\ IF view[c].status = "creating"
     THEN rec' = Stamped(view[c]) /\ GoTo(c, "selectSeal") /\ UNCHANGED <<wal, lock>>
     ELSE Release /\ Answer(c, "missingPid")
  /\ UNCHANGED <<kind, launcher, processes>>

\* Both paths that stamp and seal in one hold load the record again between.
Seal(c) ==
  /\ cpc[c] \in Sealing
  /\ WriteAndRelease(Cancelled(View))
  /\ Answer(c, "cancelled")
  /\ UNCHANGED <<kind, launcher, processes>>

SelectTarget(c) ==
  /\ At(c, "selectAct")
  /\ ~Settled(seen[c])
  /\ SignalTarget(view[c]) # NoTarget
  /\ Release
  /\ Onward(c, "mark", SignalTarget(view[c]))
  /\ UNCHANGED <<kind, launcher, processes>>

\* The run settled since selection, or reads as stale: cancel just returns.
MarkSettled(c) ==
  /\ At(c, "markAct")
  /\ Settled(seen[c])
  /\ Release
  /\ Answer(c, "alreadySettled")
  /\ UNCHANGED <<kind, launcher, processes>>

\* Setup ended since selection: nothing to signal, but no child may launch.
MarkSetupEnded(c) ==
  /\ At(c, "markAct")
  /\ ~Settled(seen[c])
  /\ target[c] = SetupGroup
  /\ SignalTarget(view[c]) = NoTarget
  /\ WriteAndRelease(Stamped(view[c]))
  /\ Onward(c, "settle", target[c])
  /\ UNCHANGED <<kind, launcher, processes>>

\* Another generation: select again, a bounded number of times.
MarkRetarget(c) ==
  /\ At(c, "markAct")
  /\ ~Settled(seen[c])
  /\ SignalTarget(view[c]) # target[c]
  /\ target[c] = SetupGroup => SignalTarget(view[c]) # NoTarget
  /\ Release
  /\ IF SignalTarget(view[c]) = NoTarget THEN Answer(c, "missingPid")
     ELSE SelectAgain(c, SignalTarget(view[c]))
  /\ UNCHANGED <<kind, launcher, processes>>

\* The selected generation still stands: stamp the marker before any signal.
\* A setup group whose launcher is gone is sealed unsignalled instead.
Mark(c) ==
  /\ At(c, "markAct")
  /\ ~Settled(seen[c])
  /\ SignalTarget(view[c]) = target[c]
  /\ IF target[c] = SetupGroup /\ LauncherGone
     THEN /\ WriteAndRelease([Cancelled(view[c]) EXCEPT !.setup = FALSE])
          /\ Answer(c, "cancelled")
     ELSE /\ WriteAndRelease(Stamped(view[c]))
          /\ Onward(c, "kill", target[c])
  /\ UNCHANGED <<kind, launcher, processes>>

\* SIGTERM to the generation's group, SIGKILL for what is left after the grace.
SignalGroup(g) ==
  IF g = SetupGroup
  THEN /\ setup' \in IF setup = "live" THEN {"ok", "failed"} ELSE {setup}
       /\ UNCHANGED <<leader, kids>>
  ELSE /\ leader' = [leader EXCEPT ![g] = IF @ = "live" THEN "zombie" ELSE @]
       /\ kids' = kids \ {g}
       /\ setup' = setup

Kill(c) ==
  /\ At(c, "kill")
  /\ SignalGroup(target[c])
  /\ Onward(c, "settle", target[c])
  /\ UNCHANGED <<record, kind, launcher>>

\* A signalled attempt may hand off to a retry: follow a new generation,
\* otherwise write cancelled over whatever the record says now.
Settle(c) ==
  /\ At(c, "settleAct")
  /\ LET now   == SignalTarget(view[c])
         going == ~Settled(seen[c])
     IN IF going /\ now = NoTarget /\ target[c] # SetupGroup
        THEN Release /\ Answer(c, "missingPid")
        ELSE IF going /\ now \notin {NoTarget, target[c]}
        THEN Release /\ SelectAgain(c, now)
        ELSE WriteAndRelease(Cancelled(view[c])) /\ Answer(c, "cancelled")
  /\ UNCHANGED <<kind, launcher, processes>>

-----------------------------------------------------------------------------
(* `delegate cancel` while another process keeps the lock: signal first,    *)
(* without a marker, then one bounded attempt to record.                    *)

\* load_run_state_or_none reads state.json and then the WAL; finding one, it
\* drops what it read and takes state.json again to merge the two.
ReadOn == [r \in Reads \cup WalReads |->
  CASE r = "urgentRead" -> "urgentReadWal" [] r = "urgentRecheck" -> "urgentRecheckWal"
    [] r = "urgentReadWal" -> "urgentReadAgain" [] OTHER -> "urgentRecheckAgain"]

Reading(c, from, file) ==
  /\ cpc[c] \in from
  /\ cpc' = [cpc EXCEPT ![c] = ReadOn[@]]
  /\ view' = [view EXCEPT ![c] = file]
  /\ UNCHANGED <<record, kind, launcher, processes, target, selections, seen, reply>>

LookAtRecord(c) == Reading(c, Reads, rec)
LookAtWal(c) == wal # NoRecord /\ Reading(c, WalReads, wal)

\* The read is over: no WAL, or the second look at state.json.
ReadEnds(c, first, again) ==
  \/ At(c, first) /\ wal = NoRecord
  \/ At(c, again)
Got(c) == IF cpc[c] \in Rereads THEN MergeTerminal(rec, view[c]) ELSE view[c]

UrgentRead(c) ==
  /\ ReadEnds(c, "urgentReadWal", "urgentReadAgain")
  /\ LET effective == Effective(Got(c), AlivePids)
     IN IF effective \in Terminal THEN Answer(c, "alreadyTerminal")
        ELSE IF Got(c).gen = 0 \/ effective = "stale" THEN Answer(c, "lockBusy")
        ELSE Onward(c, "urgentRecheck", Got(c).gen)
  /\ UNCHANGED <<record, kind, launcher, processes>>

UrgentRecheck(c) ==
  /\ ReadEnds(c, "urgentRecheckWal", "urgentRecheckAgain")
  /\ IF Got(c).status \in Terminal THEN Answer(c, "alreadyTerminal")
     ELSE IF SignalTarget(Got(c)) # target[c] THEN Answer(c, "targetChanged")
     ELSE Onward(c, "urgentKill", target[c])
  /\ UNCHANGED <<record, kind, launcher, processes>>

UrgentKill(c) ==
  /\ At(c, "urgentKill")
  /\ SignalGroup(target[c])
  /\ GoTo(c, "record")
  /\ UNCHANGED <<record, kind, launcher>>

\* A record that turned terminal counts as recorded, whatever it says.
UrgentRecord(c) ==
  /\ At(c, "recordAct")
  /\ IF seen[c] \in Terminal
     THEN Release /\ Answer(c, "alreadySettled")
     ELSE IF SignalTarget(view[c]) = target[c]
     THEN rec' = Stamped(view[c]) /\ GoTo(c, "recordSeal") /\ UNCHANGED <<wal, lock>>
     ELSE Release /\ Answer(c, "unrecorded")
  /\ UNCHANGED <<kind, launcher, processes>>

CancellerCrash(c) ==
  /\ CancellerMayCrash
  /\ cpc[c] \notin {"idle", "done", "crashed"}
  /\ Stop(c, "crashed", "none")
  /\ lock' = IF lock = c THEN "free" ELSE lock
  /\ UNCHANGED <<rec, wal, kind, launcher, processes>>

CancelStep(c) ==
  \/ Enter(c) \/ Load(c) \/ GivesUpOnLock(c)
  \/ SelectStale(c) \/ SelectTerminal(c) \/ SelectUnpublished(c) \/ Seal(c)
  \/ SelectTarget(c)
  \/ MarkSettled(c) \/ MarkSetupEnded(c) \/ MarkRetarget(c) \/ Mark(c)
  \/ Kill(c) \/ Settle(c)
  \/ LookAtRecord(c) \/ LookAtWal(c)
  \/ UrgentRead(c) \/ UrgentRecheck(c) \/ UrgentKill(c) \/ UrgentRecord(c)

Next ==
  \/ LauncherStep \/ SetupDeadline \/ SetupInterrupted \/ StopChild
  \/ PersistProgress \/ LauncherCrash
  \/ ProcessStep
  \/ \E c \in Cancellers : Begin(c) \/ CancelStep(c) \/ CancellerCrash(c)
  \/ OtherHolds \/ OtherReleases \/ OtherReplays \/ SealUnlaunched

Spec == Init /\ [][Next]_vars

\* The scheduler runs the launcher and every started cancel command, and a
\* holder of the lock works for a bounded time.  Nothing makes a child exit.
FairSpec ==
  /\ Spec
  /\ WF_vars(LauncherStep)
  /\ \A c \in Cancellers : WF_vars(CancelStep(c))
  /\ WF_vars(OtherReleases)

-----------------------------------------------------------------------------
(* Properties.                                                             *)

\* A group with a member that still executes.
GroupRuns(g) == leader[g] = "live" \/ g \in kids

\* A child that no record names: its launcher was killed between Popen and
\* publication.  Nothing in the code can find it.
Unpublished(g) == pc = "crashed" /\ View.gen # g

\* A terminal record leaves no child of the run running, whichever of the
\* finalizer, the launch failure and the cancel paths wrote it and when.
TerminalLeavesNoChild ==
  View.status \in Terminal =>
    \A g \in Attempts : GroupRuns(g) => Unpublished(g)

\* A cancel that answered `cancelled` is not contradicted later: not by the
\* launcher's finalizer, a late WAL, a retry or another cancel.
CancelledReplyHolds ==
  \A c \in Cancellers : reply[c] = "cancelled" => View.status = "cancelled"

\* A retry never runs beside what the attempt before it left behind.
OneLiveGeneration ==
  \A g, h \in Attempts : GroupRuns(g) /\ GroupRuns(h) => g = h

\* The launcher's envelope, exit code and ping (from _persist_final_progress
\* under the lock) never come to disagree with what readers of the record get.
LockedReportAgrees == via = "lock" => View.status = reported

\* No cancelled record, and no marker, is ever lost to a progress refresh, a
\* retry's publication, a late WAL or a read-modify-write of another field.
CancelIsFinal == [][CancelSeen(View) => CancelSeen(View')]_vars

\* A terminal record changes only to `cancelled`.
TerminalIsStable ==
  [][View.status \in Terminal => View'.status \in {View.status, "cancelled"}]_vars

\* Every started cancel answers, whoever holds the lock meanwhile.
CancelReturns ==
  \A c \in Cancellers : cpc[c] = "select" ~> cpc[c] \in {"done", "crashed"}

\* Once cancel signalled a marked run, readers end up with `cancelled`, also
\* when the cancel command dies there and only the launcher is left to say so.
SignalledBecomesCancelled ==
  \A c \in Cancellers : cpc[c] = "settle" ~> [](View.status = "cancelled")

\* When its children and its setup end by themselves, a run whose launcher is
\* not killed ends with a terminal record, unless a cancel was killed half-way.
RunSettles ==
  WF_vars(ProcessStep) =>
    <>[](View.status \in Terminal \/ \E c \in Cancellers : cpc[c] = "crashed")

\* The record, as readers get it, behaves as RunOutcome promises.
Outcome == INSTANCE RunOutcome WITH status <- View.status, wanted <- CancelSeen(View)
ImplementsRunOutcome == Outcome!Spec
=============================================================================
