# delegate-agent in TLA+

`delegate` launches AI coding harnesses as tracked child processes ("Runs"), keeps a
record of every Run in a workspace registry, and offers commands (`wait`, `cancel`,
`runs prune`, `worktree gc`, `mail`, `workflow …`) that act on those records from other
processes. Nothing coordinates these processes except files, `flock`, signals and pids.
This directory models that coordination, checks it with TLC and proves what matters most
with TLAPS.

## Inventory

Sizes are lines of Python under `src/src/delegate_agent`.

| Component | State it keeps | Operations | Talks to others by | What is hard |
|---|---|---|---|---|
| Run record and WAL (`record_io`, `run_status`; 850) | `state.json`, `finalize-wal.json` of a run | merge, overlay, effective status | read by every command without a lock | two files read in turn; a dead pid means *stale* |
| Launcher and finalizer (`runner`; 6750) | attempt, child, capture, outcome; the record | admit, publish, refresh, reap, retry, finalize | registry lock, signals, record | retries against cancel, bounded lock waits, crashes after `Popen` |
| `cancel`, `wait` (`wait_cancel_commands`; 1310) | the selected generation | select, mark, signal, settle, urgent path, seal | registry lock, signals, record | generations change underfoot; the command may die |
| Worktree launch and setup (`worktree_execution`, `workspace_spec`; 1830) | record in `creating_isolation`, `setupPgid` | register, create, set up, launch, abort | record, setup group | the window with no child to signal |
| Registry (`run_registry`; 1530) | `index.json`, alias claims, run directories | register, resolve, reconcile, prune | registry and retention locks | several files per operation, crash in between |
| Workflow supervisor (`workflows/runtime`, `registry`; 7450) | journal, `status.json`, replay fold, budget, gates | agent, adopt, reject, park, resume | launches Runs, cancels them, journal | crash at any row, replay must not repeat or lose work |
| Workflow commands and pins (`workflows/commands`, `workflow_pinning`, …; 4130) | pins, attempts, approvals | start, resume, approve, kill, repin | workflow lock, signals | approvals and kills against a draining supervisor |
| Worktree management (`worktree_gc/mgmt/remove/…`; 6250) | worktree status, leases | list, remove, gc, salvage | registry locks (nested), git | launch against removal, half-created worktrees |
| Mail (`mail_core`, `mail_push`; 2530) | ledgers, `nextSeq`, boxes, push watermark | send, read, push, prune | registry lock, hooks | crash between ledger, counter and publication |
| Lane health, automatic resume (`lane_health`, `auto_resume`; 900) | known-bad markers; the note of the run just ended | check, write, clear; resume, rerun, defer | flock, the run record | markers that go stale between a look and a removal; two predicates that must agree |
| Lane slice, failover state (`lane_slice`, `failover_state`; 570) | slice lock and unit, blocks | acquire/release, block/clear | flock, systemd, mkdir lock | last user out, stale-lock takeover |
| Stall watchdog, stream capture (1560) | progress clocks, pending tools | observe, stall, confirm | capture threads | a verdict from an old observation |
| Retention and scratch (1230) | archives, scratch directories | archive, reclaim | retention lock | removal against a resumed run |
| The rest (request building, CLI, config, discovery, sandboxes, rendering) | none shared | | | pure or OS-bound |

Every component, with what is and is not modelled, is listed in `PROJECT.json`; its
hazards, each at the line where it bites, are there too.

What makes each correct, in one line: a record never forgets a cancellation and keeps its
first outcome; a terminal run has no live child; a cancel that says *cancelled* is not
contradicted; a run always ends; a resume repeats no completed agent and charges none
twice; a message is delivered once and its ledger is honest; a worktree in use is never
removed; a marker says what the last run found; a working child is not killed as stalled.

## Plan

1. **`RunRecord`, `RunLifecycle`, `RunReaders`, `RunOutcome`** and their proofs: the launcher, the
   cancel commands, the record between them and the commands that only read it. *Done.*
2. **`WorkflowGate`**: gates, admission, the item pool and approvals. **`WorkflowCalls`**:
   `agent()` across supervisors: keys, the journal fold against live state, budget claims,
   children, adoption on resume. *Done.*
3. The stores, one small module each, composed in `MCStores`: **`Mailbox`**,
   **`RunRegistry`**, **`WorktreeLease`**, **`Retention`**, **`LaneSlice`**, **`LaneHealth`**,
   **`StallWatchdog`**, with the proofs of **`StoreProofs`**, **`MailboxProofs`** and
   **`StallWatchdogProofs`**. *Done.*
4. Left: `workflow kill` and the watchdog against a resume (kill writes its status without the
   workflow lock), dry runs and soft parks; removal with `--kill-live` and of nested worktrees.
5. **`StepLedger`**, the abstract specification of `WorkflowCalls`, and the proofs that the calls
   implement it and that a parked workflow exits *paused*. *Done.* Every safety property that a
   passing run checks is now proved; liveness is left to TLC.

## Modules

| Module | Role |
|---|---|
| `RunRecord` | the record, reduced to status, cancel marker, published generation and setup flag; merge, overlay, launch refusal, effective status, signal target |
| `RunLifecycle` | one tracked run: launcher, cancel commands, child processes, setup, the registry lock |
| `RunOutcome` | abstract specification: a status and whether a cancellation is wanted |
| `RunReaders` | a command that reads a run's record without the lock, beside all that `RunLifecycle` does to it |
| `MCRunLifecycle` | instance for TLC, with symmetry over cancel commands |
| `MCRunLiveness` | instance for TLC of `RunReaders`, in two weathers: every failure on, and hardly any |
| `RunLifecycleInv` | the inductive invariant |
| `WorkflowGate` | a workflow supervisor at its gates: script and item threads, admission and drain, gate rows, approvals, resume and approve |
| `MCWorkflowGate` | its two instances for TLC: a wave of items, and the answers to one gate |
| `WorkflowGateProofs` | proofs about `WorkflowGate` |
| `WorkflowCalls` | `agent()` calls over several supervisors: identities, journal, replay memory, budget, child runs, adoption, rejection, signal, crash, resume |
| `StepLedger` | abstract specification: what is paid for, the agents at work on a step, the keyed steps whose answer stands |
| `MCWorkflowCalls` | its instances for TLC |
| `WorkflowCallsProofs`, `WorkflowCallsReplayProofs` | proofs about `WorkflowCalls`: the budget and the children; the replay memory, its types, the settlements, what a resume adopts, the refinement of `StepLedger` |
| `Mailbox` | the mailbox: `send`, `read`, `prune`, `status`, the stop-hook pump, the unread mail of a record |
| `RunRegistry` | `index.json`, alias claims, run directories, the cached terminal selection, the WAL's replay, `runs prune` |
| `WorktreeLease` | a persistent worktree: attached and nested launches against `remove` and `reap` |
| `Retention` | the archival of a finished run's raw logs, and reading them back |
| `LaneSlice` | the systemd slice that lanes share, and its lock |
| `LaneHealth` | the known-bad marker of a lane and the one automatic continuation of a run |
| `StallWatchdog` | the detectors of one attempt and the capture loop that polls them |
| `MCStores` | the instance of these seven for TLC |
| `StoreProofs` | proofs about `LaneSlice`, `Retention`, `LaneHealth`, `WorktreeLease` and `RunRegistry`, and about the composition of the seven |
| `MailboxProofs`, `StallWatchdogProofs` | proofs about `Mailbox` and `StallWatchdog` |
| `RunLifecycleRecordProofs` | proofs about `RunLifecycle`: merge and overlay, types, the record, the refinement |
| `RunLifecycleReplyProofs` | proofs about `RunLifecycle`: replies, reports, the child processes |

### How state corresponds to code

`rec` is `state.json` and `wal` is `finalize-wal.json`; `View` is what both say together, the WAL
overlaid: what `load_run_state` returns to whoever holds the lock, and to the launcher before it
wrote a WAL. A command without the lock gets what its looks at the two files in turn make of it: the
urgent cancel's are `LookAtRecord`, `LookAtWal` and the second look at `state.json` (`Got`), those of
every other command are `RunReaders`, whose `look` is one read under way. A record's `gen` is the published `pid`/`pgid`
named by the attempt that wrote it, `marker` is `cancelRequested`, `setup` says that
`setupPgid` is present. `lock` is the registry `flock`. `pc`, `attempt`, `outcome`, `draft`
are the launcher's locals; `reported` is what `_persist_final_progress` returned (the
envelope, the exit code and the ping come from it) and `via` says which branch returned
it. `leader[g]` and `kids` are the child of attempt `g` and the survivors of its process
group; `zombie` is an exited child not yet waited for, which `os.kill(pid, 0)` still finds.
`cpc`, `target`, `selections`, `view`, `seen`, `reply` are the locals of each cancel command.

`NoRecord` stands for an absent file. A plain launch starts with no record (it is
registered before, written at publication); worktree launches start `creating`.

In `WorkflowGate`, `rows` are the gate rows of `journal.jsonl`, `approvals` is
`approval.json` and `status` is `status.json`, reduced to its phase and the gate it names.
`up` says that a supervisor holds the workflow lock and `life` counts supervisors. A thread
has a `pc`, the gate call it is making (`call`) and the exception unwinding it (`exc`);
`stop`, `inflight` and `pending` are `gate_state["stop_admitting"]`,
`gate_state["in_flight_agents"]` and `pending_gate[-1]`. `wave`, `started`, `firstGate` and
`keyError` are the locals of one top-level `parallel()` or `pipeline()`. A question is a gate
key and a hash; a hash is the result asked about and, for a question asked again because its
answer lapsed, the actions on offer. `passed` and `last` are history: what was passed, and how the
last supervisor ended, with which question parked (`pending_gate[-1]`) and whether its script had
caught a gate's exit.

In `WorkflowCalls` a step is one `agent()` call site with a thread of its own. Its keys differ
only in a retry identity `n`: a keyed call counts the rejected candidates
(`_caller_key_candidate`), a positional one hashes `retryAttempt`, which is
`max(replayAttempt, 1)`, and `replayAttempt` is `life - 1`. `journal[s]` holds the rows of the
step's keys; `mem[s]` is the replay state: `replay`, `started_without_result`, `exhausted_keys`,
`tombstoned_keys`, `started_after_tombstone`, `started_scopes`, `lifetime_started_keys`.
`ReadRow` is one turn of `_load_replay`, `Live` is what `append_event` does to the same fields.
`claimed` is `claimed_keys`, `spent` is `Budget._spent`, `disk` is `budget.spent` in
`status.json`. `pc` and `call` are the call's place and locals, `runs[s]` its child runs, `ord`
their order of registration (`_find_workflow_agent_run` takes the last). A run is reduced to its
effective status; what happens inside one is `RunLifecycle`.

The seven stores share no variable and no lock that the models could tell apart: each is a
protocol of its own among processes that meet only there. Where two of them meet, one side is
reduced to what the other sees of it: the mailbox, the leases and the markers know a run by its
effective status, and what makes it so is `RunLifecycle`.

`Mailbox`: a message is the number of its ledger in `mail/sent`; a ledger holds its `seq` and a row
per recipient. `nextSeq` is `mail/meta.json`, `inbox` and `readBox` are `boxes/<box>/inbox` and
`read`, `cursor` and `pending` are `hook-cursor.json` and `hook-pending.json`, `unread` is
`unreadMail` of the record, `recordLock` says that the record was published under the lock.

`RunRegistry`: `index` is `index.json` (entries, aliases, names, cached selections), `claims` the
files under `aliases/`, `state[r]` the status in `state.json` with a version that stands for the
file's identity (inode, mtime, size), `op` the operation that holds the lock, with the image of the
index it loaded. `selLog` remembers every selection saved, since a reader may hold any.

`WorktreeLease`: `rec`, `child`, `named` and `at` are a user's record, process group, published
pid and launcher; `removal` is the plan of `remove_worktree` or `reap_worktrees` and what it found.

`Retention`: a set of files is a function from names to sizes; `live`, `temp`, `archive` are the
run's directory, `archive.tmp` and the archive; `pass` holds the members listed with their sizes;
`reading` is a `runs output` under way, with the size its log had when it began, and `cutShort`
counts the reads of each log that showed less.

`LaneSlice`: `flock` is the lock on the slice's file, `scope` and `sliceUp` are systemd's, `place`
is where a lane's runner is. `LaneHealth`: `marker` is the file, reduced to the time it expires at
(a missing or corrupt one is `NoMarker`, `Corrupt`), `job` is a launch command with its locals and
the run it is at. `StallWatchdog`: `watchdog` holds the fields of the class, `loop` the locals of
the capture loop, `seen` and `quiet` are histories against which the detectors are judged.

### Atomicity

A step is one hold of the registry lock, or one access made without it. Two kinds of hold
are split further. A cancel command's hold is acquire (with WAL reconciliation), load, act,
because a finalizer that could not get the lock writes its WAL regardless of who holds
it. The launcher's admission hold is split at `Popen`, where a crash leaves a child no record names.
Folding a WAL publishes the record and unlinks the file; the two are one step, because
folding again changes nothing (`FoldTwice`) and the lock keeps everyone out who could tell, but for a
reader without it, who tells them apart in one way only: it took the record before the step and looks
for the WAL after it, which two looks around one step show. A single atomic replace of a file is one
step. The retry decision, the marker read before
finalization, the urgent cancel and `Abort` read without the lock, and are steps of their
own. A read by anyone but the launcher is as many steps as it looks at files: `state.json`, the WAL,
and, if there is one, `state.json` again to merge the two. The launcher's own reads are one: there is
no WAL before it finalizes, so they look at one file.

`WorkflowGate` steps at every lock it takes: the journal lock (row, projection), the gate
condition (admission, close, drain), the item semaphore and the barrier. The start loop's two
looks at the gate are separate steps. `pending_gate.append` and the closing of admission are one:
nothing reads the former before the latter. `approve` and `run --resume` hold the workflow
lock throughout, so each is one step, and the ways they can stop half-way (`ResumeDies`,
`ApproveFails`) are steps of their own.

In `WorkflowCalls` a row, its fold into memory and the rewriting of `status.json` are one hold of
`journal_lock` and one step, except for a budget row: its `status.json` is a step of its own
(`SaveStatus`), since a crash there makes the status lag. The claim in memory has its own lock and is
a step; so are admission with the `agent_started` row, the launch, the return. The lookup in
`_run_child_lifecycle` and the sweep after it are one step, as no other thread touches the rows
of the step; the waits of an adoption are two. A cancel of a key's runs is one step: no child
is launched for the key meanwhile.

In the stores a step is one file replaced, created or unlinked, one lock operation, or one look
without a lock. `runs output` looks whether the log is there, looks again, and opens it, with the
archival between any two (`ReadBegins`, `ReadLooksAgain`, `ReadOpens`); the first of those two looks of
`log_output.py` and its like in `tail_file_output` are one, since nothing creates a log that was gone.
`flock` conversion is two steps (`SliceConverts`, `SliceProbes`), as the kernel
gives the shared lock up first. `remove_worktree` holds the registry lock throughout and steps at
each lock and look of its walk; its blocks are evaluated in one step, since what they look at moves
only towards not blocking while the lock is held, or is looked at again. A launch and its
publication are one hold (`Spawns`, `Publishes`), split where its launcher may die. A line is
accounted in one step, under the watchdog's lock; the loop steps at every one it takes, at the probe
and at the sample.

### What the steps leave out

- The pid start-identity guard of cancel, a `SIGKILL` refused by the kernel
  (`process_group_survived`) and children that survive `SIGKILL`.
- Write errors other than those after `Popen`, unreadable records, and quarantined WALs.
- The launcher's setup deadline, its stall and output limits and its progress refreshes happen
  whenever they please; why they happen is the stall watchdog's business.
- The child's outcome is any terminal status (a harness may report its own cancellation).
- A child whose launcher was killed between `Popen` and publication is `Unpublished`:
  no code can find it, and `TerminalLeavesNoChild` excuses exactly this case.
- A record handed to another launch (attached worktrees, resumes) is a new run.
- In `WorkflowGate`: what agents compute, the journal's other rows (they matter for their
  rewriting of `status.json`), soft parks, `race`, dry runs, repins, `kill` and `reject`.
  Nested primitives are not modelled: they bypass the item slots and the barrier. Scripts are
  arbitrary: any thread makes any calls in any order.
- In `WorkflowCalls`: gates (that is `WorkflowGate`), dry runs and simulated rows, `kill`, the
  watchdog, a `--budget` changed by a resume, the lifetime limit, follow-ups, the rows no decision
  reads. A child that is `lost` has no survivors in its process group (with survivors a cancel is
  refused, like one without a pid). A step is called once per supervisor, unless it is rejected.

- In `Mailbox`: `mail watch`, waiting for a reply, the session-start context, and mail bodies; the
  pump's byte bound is its batch size. In `RunRegistry`: rename, repair, and listings.
- In `WorktreeLease`: `--kill-live`, nested worktrees, pools, adoption, dirty-tree checks (a refusal
  is `RemoveEnds`). A nested run counts as in use only if its registry was there to be locked: one
  created between `_refuse_if_registry_appeared` and git's delete is lost with the path.
- In `Retention`: eligibility by age, and the archive's format. Only `runs prune` removes an archive, with
  the whole run (`run_registry.py:1336`), and it is not part of the model. In `LaneSlice`: the unit's
  properties. In `LaneHealth`: how a key is derived from the environment; markers and automatic
  resume are enabled; `Ends` reduces `SIGNATURES` to what the decisions tell apart.
- In `StallWatchdog`: the output limit, the deadline, and text streams, whose completion report stops
  the child without a confirmation. Lines are those of a codex stream; other classifiers produce the
  same signals.

Known limits of the code that the models show or assume, and no document denies: a prune that dies
leaves index entries without a directory; alias numbers are used again after a prune; a pass that
dies between two unlinks makes the next one record a size of 0 for the log already gone; a nested run
between two attempts reads as stale and blocks nothing; a log that is unlinked between a reader's look
and its open reads as empty, or as an error, that once; a watchdog exit whose children cannot all be
cancelled writes *failed* over a parked gate, deliberately; a script that catches a `GateExit` may end
*succeeded* or *failed* with a gate parked; two continuations of one native session do
not exclude each other; the mkdir lock of `failover_state` can be taken over twice; a tool that
starts and ends inside a probe that finds a commit counts as idle time.

Two places say otherwise than the read that `ReportedIsReadable` exempts. The docstring at
`wait_cancel_commands.py:930` has the urgent cancel's last read before its signal see a finalizer
that finished since selection; a read that the fold overtakes sees neither the outcome nor the WAL, and
the cancel signals a group that is gone by then. `docs/configuration.md:341` has readers see the record
without the WAL until it is replayed, which `record_io` does not do.

## Runs

| Run | Question | Instance |
|---|---|---|
| `MCRunLifecycle` | safety of the record, the processes and the replies; does the record refine `RunOutcome`? | 2 cancels (symmetric), 3 attempts, 2 selections, all kinds, every failure on |
| `MCRunLiveness` | do readers without the lock learn what was reported, and a cancel always answer? | 1 cancel, 1 reader, 2 attempts, every failure on |
| | does a run always end, and a signalled one end cancelled? | the same in calm weather: a cancel may die; no launcher is killed, no lock wait runs out, no write fails |
| `MCWorkflowGate` | can a pause ever lie, whatever interleaves with the gate, and does a closed gate end its supervisor? | `Wave`: 3 items, 2 slots, a gate with actions and a plain one, 2 calls per thread, 2 supervisors; fair |
| | do approvals answer what was asked, and stay good? | `Answering`: no items, one gate, 2 results, 2 action lists, one without `approve`, a script that may catch the gate, 5 supervisors |
| `MCWorkflowCalls` | do calls, retries and a resume implement `StepLedger`, or double a child, overspend, forget or hang? | a keyed and a positional step, budget 1, 2 tries, 2 supervisors |
| `MCStepLives` | does a rejected step settle once, and is it remembered as the journal has it, over many supervisors? | one keyed step, 3 supervisors, a rejection, late children |
| `MCStores` | can mail, the registry, worktrees, logs, a slice, markers or the watchdog break what they promise? | below |
| `Doc*` | what the documentation says and the code does not do | the smallest instance that shows it |

`MCRunLiveness` and `MCWorkflowGate` hold two instances each, of which a behaviour is one (`calm`,
`focus`): an instance of the module with other constants (`Calm`, `Wave`, `Answering`) over the same
variables, so the invariants of the module are checked of either. What only one of them promises says
so: `CalmSettles`, `CalmCancels`, `WaveEndsSupervisor`.

`CHECK_DEADLOCK FALSE`: a launcher and its cancels do stop, and so does a workflow once its
supervisors are used up.

**Bounds.** `MaxAttempts` bounds the attempts (the code has one primary, one fallback per
profile and one empty-success retry: three); `MaxSelections` is
`CANCEL_GENERATION_MAX_ATTEMPTS`, reduced to 2, enough to run out. Two cancel commands
suffice for every pair of phases to interleave; three attempts, for a retry that hands
off to another. Nothing else is bounded there.
In `WorkflowGate`, `MaxLives` bounds supervisors and `MaxSteps` the calls a thread makes in one
lifetime. Three items with two slots give waves with a barrier (one, two) and without (three); which
items a smaller wave has is fixed, and the order they start in, since they are interchangeable (`Firsts`);
two calls let an item park after an agent; an answer can lapse, be asked again, and lapse again
within five lifetimes. In `MCWorkflowGate` the threads of the first supervisor make at most four
calls together and those of the second three (`MaxCalls`) in the wave: a wave, an item that parks after an agent,
and a sibling's agent or gate to race with it. A thread that may not call can return, so the bound
does not make the fairness unsatisfiable.
In `WorkflowCalls`, `Lives` bounds supervisors, `Tries` the children of one call, `Rejections` the
rejections of a step. Two steps with a budget of one make every claim a race, two tries put a
retry beside a timed-out child. In `MCStepLives` three lives with a rejection in any of them are
enough for a key to be settled, refused, settled again and replayed.

In `MCStores` a behaviour moves one store, which `focus` picks, and the others stay as they began:
since they share no state, their product would add states and no case.
- Mail: three lanes, one with a push hook and an end, the coordinator as sender, one blocked pair, two
  messages, one killed process. Two messages suffice for a group and a direct send, for a batch beside
  a newer message, and for a number to be given twice after a death.
- Registry: two runs, two alias numbers, four versions of a state file (running, success, cancel,
  mark).
- Slice: three lanes, so one may start between the conversion of a second and the end of a third; two
  failures. Logs: two of up to three bytes, two passes that die, so a resumed pass may die too, and one
  reader, again and again.
- Worktree: its owner, one attached and one nested run, one removal at a time.
- Watchdog: a stall after two units, a grace of one, a streak of two, an output limit of one, two
  tools in flight. `TimedSession` has three lines, a commit and eight units of time, so a child can go
  quiet after any of them and be waited out; `LoopingSession` has four lines and no clock, for the
  detectors.
- Markers: two launches, one safe and forced, the other of any mode; one clock tick, which is a
  marker's whole life; one cancel or kill.

`LateChildren` is an assumption about the world: may a supervisor be lost after it spawned a child
and before the child registered? Such a child is in no index, so the cancel of the next resume
cannot see it, and the resume relaunches its step beside it: `ImplementsLedger`, `ExitLeavesNoChild`
and `AdoptsFinished` need `FALSE`. The budget, the replay memory and `KeyedSettleOnce` do not:
`MCStepLives` runs with `TRUE`, which is also what makes a resumed call wait for a run it did not
launch.

**Fairness.** `FairSpec` assumes that the launcher and every started cancel command are
scheduled, and that another holder of the lock releases it: `flock` goes with the process,
and every hold in the code is a bounded piece of file work. Weak fairness suffices because
lock waits poll and the bounded ones give up. `MCRunLiveness` assumes the same in either weather, and
nothing of its reader. `RunSettles` assumes besides that children and
setup end, since a run with no deadline may wait for its child for ever.
`SignalledBecomesCancelled` needs no lock timeouts: a retry whose admission times out on the lock
raises past the finalizer and leaves the record `running` with a dead pid.

In `WorkflowGate`, `FairSpec` assumes that the interpreter runs every thread and that a child
ends (it has a timeout); commands, signals and crashes are never assumed to happen. In
`WorkflowCalls` it assumes only that a thread which can go on does, and that the script ends when
its calls have: not that a child ever answers, nor that a timeout is set. A signalled supervisor
must stop all the same, because every wait polls `cancel_event`, and a cancelled adoption ends.

In `StallWatchdog` the capture loop and the stdout thread run on (`WF` of `Loops` and
`SetTerminal`), and time passes: the loop sleeps in each round (`TRACKED_PROCESS_POLL_SEC`), so a tick
is enabled again and again but not continuously (`SF` of `Tick`). The child is assumed to do nothing.
The other stores assume no fairness.

**Properties.**

- `TerminalLeavesNoChild`: no terminal record beside a running process of the run.
- `OneLiveGeneration`: a retry never runs beside what the attempt before it left.
- `CancelledReplyHolds`: a cancel that said *cancelled* is not contradicted.
- `LockedReportAgrees`: what the launcher, having the lock, told its caller is what the record says.
- `ReportedIsReadable`: once the launcher has reported, a command that reads the two files without the
  lock gets an outcome, the record's or one that a cancel then overrode; at most one read, which the
  fold of the WAL overtook between its looks, comes back with *running*, and none if the launcher
  persisted under the lock. A poll is therefore late by one turn at most. That every single read
  sees the outcome is false.
- `ImplementsRunOutcome`: the refinement, with `status <- View.status` and
  `wanted <- CancelSeen(View)`. It implies `CancelIsFinal` (cancellation is never lost) and
  `TerminalIsStable` (a first outcome stands), which are proved and not checked by runs of their own.
- `CancelReturns`, and in calm weather `CalmSettles` (`RunSettles`) and `CalmCancels`
  (`SignalledBecomesCancelled`): liveness.
- `PausedIsQuiet`, `PausedIsAnswerable`: a workflow that says *paused* has drained its agents and
  names a question the journal holds.
- `GateExitsPaused`: how a supervisor that ended left the workflow. One that left at a gate left it
  *paused*. One that was cancelled with a question parked did too, unless that question counts as
  answered. One that returned or raised with a question parked had caught the gate's exit. One that
  could not cancel its children says *failed* whatever it had parked (`runtime.py:6765`), and the
  property asks nothing of it. That a parked question is left *paused* without these exceptions
  (`ParkedEndsPaused`) is false, and `DocParkedFails` shows it.
- `AnswersWereAsked`, `PassedStaysPassed`: approvals answer questions that were asked with actions
  that were offered, and a gate once passed stays passed on replay.
- `WaveEndsSupervisor`: closing a gate ends the supervisor, at any wave size (`GateEndsSupervisor`, for a
  script that does not catch the exit; `DocGateBarrier` is about one that does).
- `ImplementsLedger`: the calls implement `StepLedger`, with `charged <- ChargedKeys`,
  `answered <- AnsweredSteps` and the children that may still work as `agents`. `StepLedger` knows no
  supervisor, journal or crash: a key is charged once and within the budget, an agent starts only on a
  step that is paid for, has no agent and, if keyed, no answer, and an answer goes only by a rejection.
  It implies `OneChild` (a step never has two children at work), which is proved and not checked by a
  run of its own. The ledger is also checked, beyond the run, on one step with two rejections and three
  supervisors (760,000 states).
- `ExitLeavesNoChild`: a supervisor that ends by itself leaves no child at work.
- `NeverOverspent`: a key with a child is charged in the journal, and the charged keys are within
  the budget, whatever crashes lost of `status.json`.
- `ReplayAgrees`: what the supervisor remembers is what its successor will read.
- `KeyedSettleOnce`: a settled keyed step settles again only after a rejection.
- `AdoptsFinished`: a key whose latest child of an earlier supervisor succeeded is not launched
  again.
- `SignalStops`: a signalled supervisor stops, even if its children never end.
- `PushHidesNothing`: what the push hook counts as seen was in front of the model, whoever died and
  however numbers were given twice. `UnreadIsReported`: mail a lane never saw is in its record, if the
  record was published under the lock (`runner.py:1231` writes a WAL from an older look).
  `StatusTellsDelivery`: *delivered* means that the box holds it, wherever the sender died.
- `SelectionIsCurrent`: a cached terminal selection that a reader may use says what the record says.
  `RegisteredIsResolvable`: a registered run keeps its alias through failures and half-done prunes.
- `RemovalSparesUsers`: no removal takes a worktree from under its owner or an attached run, and
  `remove` not from under a nested run it could see; nothing but run records says who uses it.
- `SliceSparesLanes`, `SliceIsReclaimed`: the last one out stops the slice, and only then.
- `LogsReadBack`: a read shows at least what its log held when it began, at every moment of an archival
  and of its resumption; except at most one for each log, which the unlink overtook between its look
  and its open, and from then on the archive has the log whole.
- `MarkerIsVerdict`: the marker a launch can meet is what the last finished run asked for.
  `DeferralIsSettled`: a refusal of a safe run that is let off for a retry is decided by it, unless
  the retry met another launch's marker or could not be launched, and the command says so. Of calls it
  says nothing: `DocCallDeferral` shows that their refusals are let off and never decided.
- `StallsAreReal`, `TripsAreEarned`, `HungIsStopped`: a child is stopped as stalled only when it is
  quiet or looping, a loop is always found, and a child that hangs is always stopped.

## Findings

Four bugs of the code, and three places where it does not do what its comments and documents say; each
has a run with a counterexample and an entry in `PROJECT.json`:

- `DocGateBarrier` (bug): a script that catches a `GateExit` and calls `parallel()` or
  `pipeline()` again hangs: the start loop starts nothing and the caller waits at a barrier made for
  every item.
- `DocRetryKey` (bug): a call without a key that was rejected and has settled since is launched and
  charged again by the next resume, because its retry identity is the number of the resume while
  the original key stays tombstoned.
- `DocReapNested` (bug): `reap` judges the nested runs of a worktree before it locks the nested
  registry and looks for nested worktrees only afterwards: a run launched inside in between loses its
  worktree, which the documentation rules out without `--kill-live`.
- `DocCancelledResumes` (bug): a cancel stamped after the finalizer's one look at `cancelRequested`
  makes the record cancelled, yet the note says *failed* and the session is continued in a new run.
- `DocParkedFails`: a bare `run --resume` approves the question `status.json` names, also one that offers
  only `retry` and `accept`. The gate asks again; a supervisor that parks it again and is signalled
  while its agents drain takes the question for answered and writes *failed* and `result.json` over the
  pause, which the comment there says it does not. `approve` refuses the same answer.
- `DocCallDeferral`: the broker's refusal of a grouped `call` is let off as if it were to be rerun, which
  the documents exclude; its workspace is gone by then, the rerun cannot start, and the lane is never
  judged.

## Proofs

Every theorem holds for every value of its module's constants; what is assumed of them are the
named assumptions of the modules (`AttemptsAssumption`, `ConstantsAssumption`, `GateAssumption`,
`CallsAssumption`, `SliceAssumption`, `RetentionAssumption`, `HealthAssumption`, `LeaseAssumption`,
`RegistryAssumption`, `MailAssumption`, `WatchdogAssumption`, `SessionAssumption`), which TLC
evaluates in every run. They say what kind of value a constant is: bounds and limits are numbers
(and admit something, where nothing would happen otherwise), names are distinct, sets that are
counted are finite, an action list is not empty.

- `MergeKeepsCancel`, `MergeKeepsTerminal`, `FoldTwice`: merge keeps a cancellation, keeps the first
  terminal record and is idempotent.
- `TypeCorrect`: `Spec => []TypeOK`, together with `LauncherInv` (an outcome is computed
  before it is written; only a retry falls back on an earlier capture).
- `CancellationIsFinal`, `FirstOutcomeStands`, `RunImplementsOutcome`. Each step changes
  `View` only in one of the ways `Promised` lists, and these are the steps of `RunOutcome`.
  That is not true from types alone: a cancel writes over what it loaded earlier, an
  unlocked finalizer over a draft, a publication over its admission read. `RecordInv` says why
  those reads are still good: who is inside the lock (`LockInv`), that only a launcher
  past its last write leaves a WAL (`WalInv`), what a lock holder's view can differ by
  (`ViewInv`), that publication follows an admissible read (`PublishInv`), that a draft
  only moves towards an outcome (`DraftInv`), and that a captured run is published (`CaptureInv`).
- `LockedReportsAgree`, `CancelledRepliesHold`, from `ReplyInv` over
  `RecordInv`: a command between its mark and its settlement keeps its marker on the record
  (`OwedInv`, `MarkedInv`), a report is terminal and, given under the lock, agrees
  (`ReportInv`).
- `ReportsAreReadable`: `ReaderSpec => []ReportedIsReadable`, for a reader that takes the two files in turn
  beside any number of cancels. A read that began after the report holds a terminal record, or holds
  the running one while the WAL is still there or has been folded since; the WAL is written once, so
  this happens to one read.
- `OutcomesLeaveNoChild`, `OneGenerationRuns`, from `ChildInv`: only the launcher's current attempt can
  have a process, while it is launched, captured or its launcher is gone (`RunsInv`); a command aims
  at a generation that was published, so what it killed is not the next attempt (`ReachedInv`,
  `AimInv`), and it seals only a record without a group or with the group it killed.
- `GateTypes`, `PauseIsQuiet`, `PauseIsAnswerable`, `AnswersAreAsked`, for every set of items,
  gates, results and action lists, any number of slots and any bounds, from `GateAssumption`.
  `GateInv` carries them: `in_flight_agents` counts the threads inside a call (`AgentsCounted`),
  threads outside a wave are idle (`IdleElsewhere`), a gate in the air means admission is
  closed and, once projected, nothing in flight (`GatesClose`), and whatever names a question
  names one with a row (`QuestionsAsked`): a pause could otherwise be projected from an exception
  of another thread, from a re-read journal or from the status of an earlier supervisor.
- `PassedStays`, from `PassedInv` over `GateInv`: nothing is approved while a supervisor lives, so the
  question of a parked or unwinding call has no answer yet (`NothingIsAnswered`, `NothingIsLeft`); a
  question asked again offers exactly the actions its hash names (`ReasksAreTheSame`); a decision has
  an answer (`DecidedIsAnswered`); and an answer is only ever replaced on the question that
  `status.json` names, which is not the one a gate with actions has just passed at (`StaysAnswered`).
- `ParkedExits`: `GateExitsPaused`, from `ExitInv` over `PassedInv`, with no hypothesis but
  `GateAssumption`: for scripts that catch a `GateExit` or do not, and action lists with or without
  `approve`. A question is parked just while admission is closed (`GateAsked`); once it is, whoever is
  past it is leaving, unless the script has caught the exit (`Leaving`, `ClosedIsLeaving`); so a
  supervisor that ends with a question parked unwinds from it, and finds its row unanswered in the
  journal unless an answer is recorded for it.

- `BudgetNeverOverspent`, for all steps, any budget and any bounds, late children or not, from
  `CallsAssumption`. The property speaks of the journal and the runs; `BudgetInv` adds what ties
  them to the claims in memory: a live supervisor has claimed every charged key and counted every
  claim, a call past `Charge` is charged. The step that needs it is `Boots`: the successor starts
  from a `status.json` that may lag and is right only because it counts the rows.
- `OneChildAtATime`, `ExitedSupervisorsLeaveNoChild`, assuming `~LateChildren`: `ChildInv` of
  `WorkflowCalls` says that a child at work is the last launched, that a live supervisor's call is
  waiting for it, and that a lost one's is registered, so the resume either cancels it or is refused.
- `MemoryMatchesJournal`, `WorkflowTypes`, from `ReplayInv`: memory is the fold of the journal, but for
  the keys a sweep has forgotten. The fold that a resume computes is a recursive function over the
  journal; what it yields for journals of any length is proved by induction over the set of lengths
  for which it holds (the induction theorem on operators is out of reach, its instance on sets is not).
- `KeyedStepsSettleOnce`, from `SettleInv`: the identities before the one that has an answer stay
  rejected, so a call takes that one and finds the answer; a call at work has none, and the identities
  before its own stay rejected while it works.
- `FinishedAreAdopted`, assuming `~LateChildren`, for any steps, bounds and number of supervisors. Runs
  are numbered as they register, each number once, and no run of an earlier life is at work while a
  supervisor lives (`AgeInv`): a success is then older than the supervisor that meets it. A key with a
  run was started in the journal, and is under way, answered or rejected there (`Kept`); a keyed call
  is never behind a key it started, and a positional one takes a key of its own in each life or the
  original, which it has not swept (`ScopeInv`): so a lookup that finds nothing has no run to miss. A
  call that launches all the same has looked at the key's latest run and seen it fail, or found none
  (`LaunchInv`). `ScopeInv` and `LaunchInv` were tried with TLC, keyed and positional, three
  supervisors and two rejections, over several million states, before they were proved.

- `CallsImplementLedger`, assuming `~LateChildren`: each step of the calls is one step of the ledger or a
  stutter. A launch is `Work` by `BudgetInv` (it is paid for), `ChildInv` (no agent) and `SettleInv` (no
  answer); a budget row is `Pay`, or nothing when a call has come back to a key already charged, and
  stays within `Total` by `BudgetInv`; a rejected row is `Reject` if it takes the step's answer; a finished
  row is `Answer`, whether from the call's own child or adopted, and for an adopted one `WaitInv` adds
  that what is waited for was paid for, through the crash that made it an orphan. Every other step puts
  no agent to work (`NoNewAgents`) and is a `Rest`.

- `SliceGoesWithItsLanes`, from `ReclaimInv`: while nothing has failed, a slice that is up has a lane
  that has yet to look whether it is the last (`SliceIsTended`).
- `SliceTypes`, `SliceIsSpared`, for any set of lanes and any failures, from `SliceInv`: who uses the
  slice holds the lock, shared or exclusive (`UsersHold`), and who holds it exclusively is alone
  (`ExclusiveIsAlone`); so the probe that found no other lock still speaks when the slice is stopped.
- `LogsAlwaysReadBack`, for any logs, any number of dying passes and any number of reads, from
  `RetentionInv`: a log that is gone is in the archive (`GoneIsArchived`), and a pass that may unlink has
  checked sizes that cannot have moved since (`PassKnows`); a read comes back short only for a log that
  went between its looks, which a log does once.
- `MarkersAreVerdicts`, `DeferralsAreSettled`, for any launches and any clock, from `HealthInv`: a
  launch about to remove a marker holds the store's lock and saw one that is over (`Removes`,
  `Stamped`), and a deferral is on its way to the retry, in it, or settled (`DeferralIsDue`).
- `WorktreesAreSpared`, for any attached and nested runs and any deaths, from `LeaseInv`: a removal past
  its check still holds the locks the check was made under (`RemoverHolds`), a launcher starts a child
  only under its registry's lock and leaves it in the record (`UsersKnow`), so what the check found
  absent is absent when the directory goes (`NobodyUses`).
- `RunsStayResolvable`, `SelectionsAreCurrent`, for any runs, aliases and writes, from `RegistryInv`: the
  image that a registration or a prune will save resolves every registered run as the index does,
  and a pruned run's directory is gone before its entry (`OpKnows`); a selection, in the index, in an
  image or read by anyone earlier, is older than the state file or agrees with it (`SelKnows`).

- `RegistryTypes`, from `VersionInv`: the fold of a WAL during a prune writes without looking at the
  bound, and stays within it because a record that is still running has been written once.
- `MailTypes`, `MarksFollowShown`, `RecordsNameUnread`, `StatusFollowsBox`, for any lanes, messages and
  dying senders, from `MailInv`: among messages that reached a box numbers are in order, though ledgers
  that reached none may share one (`BoxInv`); a message on its way has the highest number, and no pump
  has seen as far (`SenderInv`); what lies at or below a lane's cursor was shown, and what lies between
  it and the pending batch's end is in that batch (`HookInv`).
- `WatchdogTypes`, `SignalledChildrenStalled`, `DetectorsAreRight`, for any sessions, from `WatchInv` and
  `TripInv`: the time the watchdog takes for idle has really passed, and is judged at the time the loop
  read; the streak it counts line by line is the longest run of like failures that ends now, and the
  characters are those said since the last activity, in the whole output.
- `StoresKeepTypes`, `StoresKeepPromises`: each step of `MCStores` is a step of one store and a stutter
  of the others, so all of these carry over to the composition that TLC runs.

Only model-checked: the liveness properties `CalmSettles`, `CalmCancels`, `CancelReturns`,
`WaveEndsSupervisor`, `SignalStops` and `HungIsStopped` (fairness and `ENABLED` are beyond the prover).
The `Doc*` runs look for counterexamples and have nothing to prove.

## Not modelled

- Argv and request building, CLI parsing and help, configuration, discovery, profiles, sandboxes,
  rendering, stream parsers and outcome classification, which are most of the repository's lines: they
  are sequential, keep no shared state, and what matters in them is wording, layout or the behaviour of
  other programs. Where a model needs what they decide, it takes any value they can give.
- `workflow kill`, `watch` and the workflow watchdog, dry runs, soft parks, repins, `race` and judges,
  nested primitives.
- Salvage, pools, adoption and nested worktrees; scratch reclamation and byte budgets.
- The usage-limit failover state: a best-effort cache whose lock the code does not make exclusive.
- The read-only side of every store (`wait`, `runs list`, `mail watch`, rosters): only what it can
  conclude is modelled (`RunReaders`, `Effective`, `StatusOf`, `Accepts`, `ReadBegins` to `ReadArchived`).
