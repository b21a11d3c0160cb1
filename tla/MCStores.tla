----------------------------- MODULE MCStores -----------------------------
(* Small instances of the stores for TLC: the mailbox, the run registry,    *)
(* the lane slice, the retention pass, the worktree leases, the stall       *)
(* watchdog and the lane markers share no state, so a behaviour moves the   *)
(* one that `focus` picks and leaves the others as they began.              *)
EXTENDS Mailbox, RunRegistry, LaneSlice, Retention, WorktreeLease, StallWatchdog,
        LaneHealth

CONSTANTS Stores, l1, l2, l3, r1, r2, o, e, own, a1, n1, c1, c2, t1, t2, d1, d2

VARIABLE focus

CoordinatorMayNotWriteToL3 == {<<Lead, l3>>}

\* A child whose timing matters, and one that only fills its detectors.
TimedSession ==
  [count |-> 3, until |-> 2, commits |-> 1, horizon |-> 8,
   lines |-> {Line("say", t1, TRUE), Line("start", c1, TRUE), Line("finish", c1, TRUE),
              Line("finish", c1, FALSE), Line("start", Patch, TRUE), Line("done", Patch, TRUE)}]
LoopingSession ==
  [count |-> 4, until |-> 0, commits |-> 0, horizon |-> 0,
   lines |-> {Line("say", t1, TRUE), Line("say", t2, TRUE), Line("start", c1, TRUE), Line("finish", c1, FALSE),
              Line("finish", c2, FALSE), Line("finish", Patch, TRUE), Line("finish", Patch, FALSE),
              Line("error", ErrorItem, FALSE)}]
OneLaunchIsSafe == {m \in [Launches -> {"work", "safe", "call"}] : m[d2] = "safe"}
TimedAndLooping == {TimedSession, LoopingSession}

storesVars == <<mailVars, registryVars, sliceVars, retentionVars, leaseVars, watchdogVars, healthVars>>

StoresInit ==
  /\ focus \in Stores
  /\ MailInit /\ RegistryInit /\ SliceInit /\ RetentionInit /\ LeaseInit
  /\ WatchdogInit /\ HealthInit
  /\ focus = "watchdog" \/ session = TimedSession
  /\ focus = "health" \/ (marker = NoMarker /\ \A i \in Launches : job[i].mode = "safe")

MailTurn ==
  /\ focus = "mail" /\ MailNext
  /\ UNCHANGED <<focus, registryVars, sliceVars, retentionVars, leaseVars, watchdogVars, healthVars>>
RegistryTurn ==
  /\ focus = "registry" /\ RegistryNext
  /\ UNCHANGED <<focus, mailVars, sliceVars, retentionVars, leaseVars, watchdogVars, healthVars>>
SliceTurn ==
  /\ focus = "slice" /\ SliceNext
  /\ UNCHANGED <<focus, mailVars, registryVars, retentionVars, leaseVars, watchdogVars, healthVars>>
RetentionTurn ==
  /\ focus = "retention" /\ RetentionNext
  /\ UNCHANGED <<focus, mailVars, registryVars, sliceVars, leaseVars, watchdogVars, healthVars>>
LeaseTurn ==
  /\ focus = "lease" /\ LeaseNext
  /\ UNCHANGED <<focus, mailVars, registryVars, sliceVars, retentionVars, watchdogVars, healthVars>>
WatchdogTurn ==
  /\ focus = "watchdog" /\ WatchdogNext
  /\ UNCHANGED <<focus, mailVars, registryVars, sliceVars, retentionVars, leaseVars, healthVars>>
HealthTurn ==
  /\ focus = "health" /\ HealthNext
  /\ UNCHANGED <<focus, mailVars, registryVars, sliceVars, retentionVars, leaseVars, watchdogVars>>

StoresNext ==
  MailTurn \/ RegistryTurn \/ SliceTurn \/ RetentionTurn \/ LeaseTurn \/ WatchdogTurn \/ HealthTurn

\* WatchdogSpec's fairness, and none for the other stores.
StoresSpec ==
  /\ StoresInit /\ [][StoresNext]_<<focus, storesVars>>
  /\ WF_watchdogVars(focus = "watchdog" /\ SetTerminal) /\ WF_watchdogVars(focus = "watchdog" /\ Loops)
  /\ SF_watchdogVars(focus = "watchdog" /\ Tick)

\* The state of every store is what its module declares.
StoresTypeOK ==
  /\ MailTypeOK /\ RegistryTypeOK /\ SliceTypeOK /\ RetentionTypeOK /\ LeaseTypeOK
  /\ WatchdogTypeOK /\ HealthTypeOK
=============================================================================
