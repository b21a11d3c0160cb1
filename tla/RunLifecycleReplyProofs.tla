------------------------ MODULE RunLifecycleReplyProofs ------------------------
(***************************************************************************)
(* What a launcher reports and a cancel command answers, against what the    *)
(* record says from then on; and the record against the processes behind it. *)
(***************************************************************************)
EXTENDS RunLifecycleRecordProofs, RunReaders

USE DEF record, launcher, processes, cancelling

\* Cancel writes its marker or its outcome over what it loaded, and a pending
\* WAL cannot undo either.
LEMMA CancelWriteShows ==
  ASSUME TypeInv, NEW v \in Records, UNCHANGED wal
  PROVE  /\ rec' = Stamped(v) => CancelSeen(View')
         /\ rec' = Cancelled(v) => View'.status = "cancelled" /\ CancelSeen(View')
         /\ rec' = [Cancelled(v) EXCEPT !.setup = FALSE] =>
              View'.status = "cancelled" /\ CancelSeen(View')
<1>1. wal \in Records
  BY DEF TypeInv, TypeOK, RecordTypeOK
<1>2. ASSUME NEW x \in Records, CancelSeen(x), rec' = x
      PROVE  CancelSeen(View') /\ (x.status = "cancelled" => View'.status = "cancelled")
  <2>1. View' = Overlay(x, wal)
    BY <1>2 DEF View
  <2> QED BY <1>1, <1>2, <2>1, MergeKeepsCancel DEF Overlay
<1>3. Stamped(v) \in Records /\ CancelSeen(Stamped(v))
  BY WrittenTypes DEF Stamped, CancelSeen, Records
<1>4. /\ Cancelled(v) \in Records /\ Cancelled(v).status = "cancelled"
      /\ [Cancelled(v) EXCEPT !.setup = FALSE] \in Records
      /\ [Cancelled(v) EXCEPT !.setup = FALSE].status = "cancelled"
  BY DEF Cancelled, Records, Statuses, Terminal
<1>5. CancelSeen(Cancelled(v)) /\ CancelSeen([Cancelled(v) EXCEPT !.setup = FALSE])
  BY <1>4 DEF CancelSeen
<1> QED BY <1>2, <1>3, <1>4, <1>5

\* A cancel command answers `cancelled` only in the step that writes it, and
\* goes on to signal, settle or seal only over a marked record.
LEMMA CancelAnswers ==
  ASSUME TypeInv, LockInv, NEW c \in Cancellers,
         CancelStep(c) \/ Begin(c) \/ CancellerCrash(c)
  PROVE  /\ UNCHANGED <<pc, reported, via>>
         /\ \A d \in Cancellers \ {c} : cpc'[d] = cpc[d] /\ reply'[d] = reply[d]
         /\ reply'[c] = "cancelled" => reply[c] = "cancelled" \/ View'.status = "cancelled"
         /\ cpc'[c] \in Owed => cpc[c] \in Owed \/ CancelSeen(View')
<1> USE DEF TypeInv, TypeOK, CancelTypeOK
<1> DEFINE Others == \A d \in Cancellers \ {c} : cpc'[d] = cpc[d] /\ reply'[d] = reply[d]
<1>0. view[c] \in Records /\ View \in Records
  BY ViewType

<1>1. CASE Begin(c)
  <2>1. Others /\ UNCHANGED <<pc, reported, via>> /\ (reply'[c] = "cancelled" => reply[c] = "cancelled")
    BY <1>1 DEF Begin, GoTo
  <2>2. cpc'[c] \in Owed => cpc[c] \in Owed
    BY <1>1 DEF Begin, At, GoTo, Owed, Sealing
  <2> QED BY <2>1, <2>2
<1>2. CASE Enter(c)
  <2>1. cpc'[c] \in Owed => cpc[c] \in Owed
    BY <1>2 DEF Enter, GoTo, LoadOf, Waits, Owed, Sealing
  <2> QED BY <1>2, <2>1 DEF Enter, GoTo
<1>3. CASE Load(c)
  <2>1. cpc'[c] \in Owed => cpc[c] \in Owed
    BY <1>3 DEF Load, ActOf, Loads, Owed, Sealing
  <2> QED BY <1>3, <2>1 DEF Load
<1>4. CASE GivesUpOnLock(c)
  <2>1. Others /\ UNCHANGED <<pc, reported, via>> /\ (reply'[c] = "cancelled" => reply[c] = "cancelled")
    BY <1>4 DEF GivesUpOnLock, Answer, Stop, Onward
  <2>2. cpc'[c] \in Owed => cpc[c] \in Owed
    BY <1>4 DEF GivesUpOnLock, At, Answer, Stop, Onward, Owed, Sealing
  <2> QED BY <2>1, <2>2
<1>5. CASE SelectStale(c)
  <2>1. Others /\ UNCHANGED <<pc, reported, via>>
    BY <1>5 DEF SelectStale, Answer, Stop
  <2>2. UNCHANGED wal
    BY <1>5 DEF SelectStale, WriteAndRelease, Release
  <2>3. reply'[c] = "cancelled" => reply[c] = "cancelled" \/ View'.status = "cancelled"
    BY <1>0, <1>5, <2>2, CancelWriteShows DEF SelectStale, Answer, Stop, WriteAndRelease
  <2>4. cpc'[c] \in Owed => cpc[c] \in Owed \/ CancelSeen(View')
    BY <1>0, <1>5, <2>2, CancelWriteShows DEF SelectStale, At, Answer, Stop, WriteAndRelease, Owed, Sealing
  <2> QED BY <2>1, <2>3, <2>4
<1>6. CASE SelectTerminal(c)
  <2>1. Others /\ UNCHANGED <<pc, reported, via>> /\ (reply'[c] = "cancelled" => reply[c] = "cancelled")
    BY <1>6 DEF SelectTerminal, Answer, Stop
  <2>2. cpc'[c] \in Owed => cpc[c] \in Owed
    BY <1>6 DEF SelectTerminal, At, Answer, Stop, Owed, Sealing
  <2> QED BY <2>1, <2>2
<1>7. CASE SelectUnpublished(c)
  <2>1. Others /\ UNCHANGED <<pc, reported, via>>
    BY <1>7 DEF SelectUnpublished, Answer, Stop, GoTo
  <2>2. UNCHANGED wal
    BY <1>7 DEF SelectUnpublished, WriteAndRelease, Release
  <2>3. reply'[c] = "cancelled" => reply[c] = "cancelled" \/ View'.status = "cancelled"
    BY <1>0, <1>7, <2>2, CancelWriteShows DEF SelectUnpublished, Answer, Stop, GoTo, WriteAndRelease
  <2>4. cpc'[c] \in Owed => cpc[c] \in Owed \/ CancelSeen(View')
    BY <1>0, <1>7, <2>2, CancelWriteShows DEF SelectUnpublished, At, Answer, Stop, GoTo, WriteAndRelease, Owed, Sealing
  <2> QED BY <2>1, <2>3, <2>4
<1>8. CASE Seal(c)
  <2>1. Others /\ UNCHANGED <<pc, reported, via>>
    BY <1>8 DEF Seal, Answer, Stop
  <2>2. UNCHANGED wal
    BY <1>8 DEF Seal, WriteAndRelease, Release
  <2>3. reply'[c] = "cancelled" => reply[c] = "cancelled" \/ View'.status = "cancelled"
    BY <1>0, <1>8, <2>2, CancelWriteShows DEF Seal, Answer, Stop, WriteAndRelease
  <2>4. cpc'[c] \in Owed => cpc[c] \in Owed \/ CancelSeen(View')
    BY <1>0, <1>8, <2>2, CancelWriteShows DEF Seal, At, Answer, Stop, WriteAndRelease, Owed, Sealing
  <2> QED BY <2>1, <2>3, <2>4
<1>9. CASE SelectTarget(c)
  <2>1. Others /\ UNCHANGED <<pc, reported, via>> /\ (reply'[c] = "cancelled" => reply[c] = "cancelled")
    BY <1>9 DEF SelectTarget, Onward
  <2>2. cpc'[c] \in Owed => cpc[c] \in Owed
    BY <1>9 DEF SelectTarget, At, Onward, Owed, Sealing
  <2> QED BY <2>1, <2>2
<1>10. CASE MarkSettled(c)
  <2>1. Others /\ UNCHANGED <<pc, reported, via>> /\ (reply'[c] = "cancelled" => reply[c] = "cancelled")
    BY <1>10 DEF MarkSettled, Answer, Stop
  <2>2. cpc'[c] \in Owed => cpc[c] \in Owed
    BY <1>10 DEF MarkSettled, At, Answer, Stop, Owed, Sealing
  <2> QED BY <2>1, <2>2
<1>11. CASE MarkSetupEnded(c)
  <2>1. Others /\ UNCHANGED <<pc, reported, via>>
    BY <1>11 DEF MarkSetupEnded, Onward
  <2>2. UNCHANGED wal
    BY <1>11 DEF MarkSetupEnded, WriteAndRelease, Release
  <2>3. reply'[c] = "cancelled" => reply[c] = "cancelled" \/ View'.status = "cancelled"
    BY <1>0, <1>11, <2>2, CancelWriteShows DEF MarkSetupEnded, Onward, WriteAndRelease
  <2>4. cpc'[c] \in Owed => cpc[c] \in Owed \/ CancelSeen(View')
    BY <1>0, <1>11, <2>2, CancelWriteShows DEF MarkSetupEnded, At, Onward, WriteAndRelease, Owed, Sealing
  <2> QED BY <2>1, <2>3, <2>4
<1>12. CASE MarkRetarget(c)
  <2>1. Others /\ UNCHANGED <<pc, reported, via>> /\ (reply'[c] = "cancelled" => reply[c] = "cancelled")
    BY <1>12 DEF MarkRetarget, Answer, Stop, SelectAgain
  <2>2. cpc'[c] \in Owed => cpc[c] \in Owed
    BY <1>12 DEF MarkRetarget, At, Answer, Stop, SelectAgain, Owed, Sealing
  <2> QED BY <2>1, <2>2
<1>13. CASE Mark(c)
  <2>1. Others /\ UNCHANGED <<pc, reported, via>>
    BY <1>13 DEF Mark, Answer, Stop, Onward
  <2>2. UNCHANGED wal
    BY <1>13 DEF Mark, WriteAndRelease, Release
  <2>3. reply'[c] = "cancelled" => reply[c] = "cancelled" \/ View'.status = "cancelled"
    BY <1>0, <1>13, <2>2, CancelWriteShows DEF Mark, Answer, Stop, Onward, WriteAndRelease
  <2>4. cpc'[c] \in Owed => cpc[c] \in Owed \/ CancelSeen(View')
    BY <1>0, <1>13, <2>2, CancelWriteShows DEF Mark, At, Answer, Stop, Onward, WriteAndRelease, Owed, Sealing
  <2> QED BY <2>1, <2>3, <2>4
<1>14. CASE Kill(c)
  <2>1. Others /\ UNCHANGED <<pc, reported, via>> /\ (reply'[c] = "cancelled" => reply[c] = "cancelled")
    BY <1>14 DEF Kill, Onward
  <2>2. cpc'[c] \in Owed => cpc[c] \in Owed
    BY <1>14 DEF Kill, At, Onward, Owed, Sealing
  <2> QED BY <2>1, <2>2
<1>15. CASE Settle(c)
  <2>1. Others /\ UNCHANGED <<pc, reported, via>>
    BY <1>15 DEF Settle, Answer, Stop, SelectAgain
  <2>2. UNCHANGED wal
    BY <1>15 DEF Settle, WriteAndRelease, Release
  <2>3. reply'[c] = "cancelled" => reply[c] = "cancelled" \/ View'.status = "cancelled"
    BY <1>0, <1>15, <2>2, CancelWriteShows DEF Settle, Answer, Stop, SelectAgain, WriteAndRelease
  <2>4. cpc'[c] \in Owed => cpc[c] \in Owed \/ CancelSeen(View')
    BY <1>0, <1>15, <2>2, CancelWriteShows DEF Settle, At, Answer, Stop, SelectAgain, WriteAndRelease, Owed, Sealing
  <2> QED BY <2>1, <2>3, <2>4
<1>16. CASE UrgentRead(c) \/ UrgentRecheck(c)
  <2>1. Others /\ UNCHANGED <<pc, reported, via>> /\ (reply'[c] = "cancelled" => reply[c] = "cancelled")
    BY <1>0, <1>16, ReadMoves
  <2>2. cpc'[c] \notin Owed
    BY <1>0, <1>16, ReadMoves DEF Owed, Sealing
  <2> QED BY <2>1, <2>2
<1>17. CASE LookAtRecord(c) \/ LookAtWal(c)
  <2>1. Others /\ UNCHANGED <<pc, reported, via>> /\ (reply'[c] = "cancelled" => reply[c] = "cancelled")
    BY <1>0, <1>17, LookMoves
  <2>2. cpc'[c] \notin Owed
    BY <1>0, <1>17, LookMoves DEF Owed, Sealing, WalReads, Rereads
  <2> QED BY <2>1, <2>2
<1>18. CASE UrgentKill(c)
  <2>1. Others /\ UNCHANGED <<pc, reported, via>> /\ (reply'[c] = "cancelled" => reply[c] = "cancelled")
    BY <1>18 DEF UrgentKill, GoTo
  <2>2. cpc'[c] \in Owed => cpc[c] \in Owed
    BY <1>18 DEF UrgentKill, At, GoTo, Owed, Sealing
  <2> QED BY <2>1, <2>2
<1>19. CASE UrgentRecord(c)
  <2>1. Others /\ UNCHANGED <<pc, reported, via>>
    BY <1>19 DEF UrgentRecord, Answer, Stop, GoTo
  <2>2. UNCHANGED wal
    BY <1>19 DEF UrgentRecord, WriteAndRelease, Release
  <2>3. reply'[c] = "cancelled" => reply[c] = "cancelled" \/ View'.status = "cancelled"
    BY <1>0, <1>19, <2>2, CancelWriteShows DEF UrgentRecord, Answer, Stop, GoTo, WriteAndRelease
  <2>4. cpc'[c] \in Owed => cpc[c] \in Owed \/ CancelSeen(View')
    BY <1>0, <1>19, <2>2, CancelWriteShows DEF UrgentRecord, At, Answer, Stop, GoTo, WriteAndRelease, Owed, Sealing
  <2> QED BY <2>1, <2>3, <2>4
<1>20. CASE CancellerCrash(c)
  <2>1. Others /\ UNCHANGED <<pc, reported, via>> /\ (reply'[c] = "cancelled" => reply[c] = "cancelled")
    BY <1>20 DEF CancellerCrash, Stop
  <2>2. cpc'[c] \in Owed => cpc[c] \in Owed
    BY <1>20 DEF CancellerCrash, At, Stop, Owed, Sealing
  <2> QED BY <2>1, <2>2
<1> QED BY <1>1, <1>2, <1>3, <1>4, <1>5, <1>6, <1>7, <1>8, <1>9, <1>10, <1>11, <1>12, <1>13, <1>14, <1>15, <1>16, <1>17, <1>18, <1>19, <1>20 DEF CancelStep

\* Only the two ways to finalize report anything, and once they did the launcher
\* is past its last write.
LEMMA LauncherReports ==
  ASSUME \/ LauncherStep \/ SetupDeadline \/ SetupInterrupted \/ StopChild \/ PersistProgress
         \/ LauncherCrash \/ ProcessStep
         \/ OtherHolds \/ OtherReleases \/ OtherReplays \/ SealUnlaunched
  PROVE  /\ UNCHANGED <<cpc, reply>>
         /\ \/ FinalizeLocked \/ WriteWal
            \/ /\ UNCHANGED <<reported, via>>
               /\ pc \in {"present", "done", "crashed"} => pc' \in {"present", "done", "crashed"}
<1>1. CASE CreateWorktree
  BY <1>1 DEF CreateWorktree
<1>2. CASE SetupCheck
  BY <1>2 DEF SetupCheck
<1>3. CASE SetupSpawn
  BY <1>3 DEF SetupSpawn
<1>4. CASE SetupPublish
  BY <1>4 DEF SetupPublish
<1>5. CASE SetupReap
  BY <1>5 DEF SetupReap
<1>6. CASE SetupClear
  BY <1>6 DEF SetupClear
<1>7. CASE SetupVerdict
  BY <1>7 DEF SetupVerdict
<1>8. CASE Admit
  BY <1>8 DEF Admit
<1>9. CASE AdmitTimesOut
  BY <1>9 DEF AdmitTimesOut
<1>10. CASE Publish
  BY <1>10 DEF Publish
<1>11. CASE PublishFails
  BY <1>11 DEF PublishFails
<1>12. CASE RecordFailure
  BY <1>12 DEF RecordFailure
<1>13. CASE RetryFailed
  BY <1>13 DEF RetryFailed
<1>14. CASE Reap
  BY <1>14 DEF Reap
<1>15. CASE TerminateGroup
  BY <1>15 DEF TerminateGroup
<1>16. CASE Retry
  BY <1>16 DEF Retry
<1>17. CASE ComputeOutcome
  BY <1>17 DEF ComputeOutcome
<1>18. CASE FinalizeLocked
  BY <1>18 DEF FinalizeLocked
<1>19. CASE FinalizeUnlocked
  BY <1>19 DEF FinalizeUnlocked
<1>20. CASE WriteWal
  BY <1>20 DEF WriteWal
<1>21. CASE Abort
  BY <1>21 DEF Abort
<1>22. CASE SetWorktreeStatus
  BY <1>22 DEF SetWorktreeStatus
<1>23. CASE SetupDeadline
  BY <1>23 DEF SetupDeadline
<1>interrupted. CASE SetupInterrupted
  BY <1>interrupted DEF SetupInterrupted
<1>24. CASE StopChild
  BY <1>24 DEF StopChild
<1>25. CASE PersistProgress
  BY <1>25 DEF PersistProgress
<1>26. CASE LauncherCrash
  BY <1>26 DEF LauncherCrash
<1>27. CASE OtherHolds
  BY <1>27 DEF OtherHolds
<1>28. CASE OtherReleases
  BY <1>28 DEF OtherReleases
<1>29. CASE OtherReplays
  BY <1>29 DEF OtherReplays
<1>30. CASE SealUnlaunched
  BY <1>30 DEF SealUnlaunched
<1>31. CASE ProcessStep
  BY <1>31 DEF ProcessStep, ChildExits, KidsExit, InitReaps, SetupExits
<1> QED BY <1>1, <1>2, <1>3, <1>4, <1>5, <1>6, <1>7, <1>8, <1>9, <1>10, <1>11, <1>12, <1>13, <1>14, <1>15, <1>16, <1>17, <1>18, <1>19, <1>20, <1>21, <1>22, <1>23, <1>interrupted, <1>24, <1>25, <1>26, <1>27, <1>28, <1>29, <1>30, <1>31 DEF LauncherStep

\* A terminal record that nobody cancelled, with its launcher past the last
\* write and no WAL to fold, stays as it is: a cancel that loads it now sees it
\* settled, and one that acts was marking it.
LEMMA SettledStays ==
  ASSUME TypeInv, RecordInv, OwedInv, [Next]_vars,
         pc \in {"present", "done", "crashed"},
         wal = NoRecord, View.status \in Terminal, ~CancelSeen(View)
  PROVE  wal' = NoRecord /\ View' = View
<1> USE DEF TypeInv, RecordInv
<1>1. View = rec /\ View \in Records
  BY ViewType DEF View, Overlay
<1>2. Reconcile \/ UNCHANGED <<rec, wal>> => wal' = NoRecord /\ View' = View
  BY DEF Reconcile, View, Overlay
<1>3. \A c \in Cancellers : cpc[c] \in Acts =>
        view[c] = View /\ seen[c] \in Terminal /\ Settled(seen[c]) /\ seen[c] # "stale"
  BY <1>1 DEF ViewInv, Settled, Terminal
<1>4. \A c \in Cancellers : cpc[c] \notin Owed
  BY DEF OwedInv
<1>5. ASSUME NEW c \in Cancellers, CancelStep(c) \/ Begin(c) \/ CancellerCrash(c)
      PROVE  Reconcile \/ UNCHANGED <<rec, wal>>
  <2> USE <1>3, <1>4 DEF At, Acts, Owed, Sealing, Release, WriteAndRelease
  <2>1. CASE Begin(c)
    BY <2>1 DEF Begin
  <2>2. CASE Enter(c)
    BY <2>2 DEF Enter
  <2>3. CASE Load(c)
    BY <2>3 DEF Load
  <2>4. CASE GivesUpOnLock(c)
    BY <2>4 DEF GivesUpOnLock
  <2>5. CASE SelectStale(c)
    BY <2>5 DEF SelectStale
  <2>6. CASE SelectTerminal(c)
    BY <2>6 DEF SelectTerminal
  <2>7. CASE SelectUnpublished(c)
    BY <2>7 DEF SelectUnpublished
  <2>8. CASE Seal(c)
    BY <2>8 DEF Seal
  <2>9. CASE SelectTarget(c)
    BY <2>9 DEF SelectTarget
  <2>10. CASE MarkSettled(c)
    BY <2>10 DEF MarkSettled
  <2>11. CASE MarkSetupEnded(c)
    BY <2>11 DEF MarkSetupEnded
  <2>12. CASE MarkRetarget(c)
    BY <2>12 DEF MarkRetarget
  <2>13. CASE Mark(c)
    BY <2>13 DEF Mark
  <2>14. CASE Kill(c)
    BY <2>14 DEF Kill
  <2>15. CASE Settle(c)
    BY <2>15 DEF Settle
  <2>16. CASE UrgentRead(c) \/ UrgentRecheck(c)
    BY <2>16 DEF UrgentRead, UrgentRecheck
  <2>17. CASE LookAtRecord(c) \/ LookAtWal(c)
    BY <2>17 DEF LookAtRecord, LookAtWal, Reading
  <2>18. CASE UrgentKill(c)
    BY <2>18 DEF UrgentKill
  <2>19. CASE UrgentRecord(c)
    BY <2>19 DEF UrgentRecord
  <2>20. CASE CancellerCrash(c)
    BY <2>20 DEF CancellerCrash
  <2> QED BY <1>5, <2>1, <2>2, <2>3, <2>4, <2>5, <2>6, <2>7, <2>8, <2>9, <2>10, <2>11, <2>12, <2>13, <2>14, <2>15, <2>16, <2>17, <2>18, <2>19, <2>20 DEF CancelStep
<1>6. ASSUME \/ LauncherStep \/ SetupDeadline \/ SetupInterrupted \/ StopChild \/ PersistProgress
             \/ LauncherCrash \/ ProcessStep
             \/ OtherHolds \/ OtherReleases \/ OtherReplays \/ SealUnlaunched
      PROVE  Reconcile \/ UNCHANGED <<rec, wal>>
  <2>1. CASE CreateWorktree
    BY <2>1 DEF CreateWorktree
  <2>2. CASE SetupCheck
    BY <2>2 DEF SetupCheck
  <2>3. CASE SetupSpawn
    BY <2>3 DEF SetupSpawn
  <2>4. CASE SetupPublish
    BY <2>4 DEF SetupPublish
  <2>5. CASE SetupReap
    BY <2>5 DEF SetupReap
  <2>6. CASE SetupClear
    BY <2>6 DEF SetupClear
  <2>7. CASE SetupVerdict
    BY <2>7 DEF SetupVerdict
  <2>8. CASE Admit
    BY <2>8 DEF Admit
  <2>9. CASE AdmitTimesOut
    BY <2>9 DEF AdmitTimesOut
  <2>10. CASE Publish
    BY <2>10 DEF Publish
  <2>11. CASE PublishFails
    BY <2>11 DEF PublishFails
  <2>12. CASE RecordFailure
    BY <2>12 DEF RecordFailure
  <2>13. CASE RetryFailed
    BY <2>13 DEF RetryFailed
  <2>14. CASE Reap
    BY <2>14 DEF Reap
  <2>15. CASE TerminateGroup
    BY <2>15 DEF TerminateGroup
  <2>16. CASE Retry
    BY <2>16 DEF Retry
  <2>17. CASE ComputeOutcome
    BY <2>17 DEF ComputeOutcome
  <2>18. CASE FinalizeLocked
    BY <2>18 DEF FinalizeLocked
  <2>19. CASE FinalizeUnlocked
    BY <2>19 DEF FinalizeUnlocked
  <2>20. CASE WriteWal
    BY <2>20 DEF WriteWal
  <2>21. CASE Abort
    BY <2>21 DEF Abort
  <2>22. CASE SetWorktreeStatus
    BY <2>22 DEF SetWorktreeStatus
  <2>23. CASE SetupDeadline
    BY <2>23 DEF SetupDeadline
  <2>interrupted. CASE SetupInterrupted
    BY <2>interrupted DEF SetupInterrupted
  <2>24. CASE StopChild
    BY <2>24 DEF StopChild
  <2>25. CASE PersistProgress
    BY <2>25 DEF PersistProgress
  <2>26. CASE LauncherCrash
    BY <2>26 DEF LauncherCrash
  <2>27. CASE OtherHolds
    BY <2>27 DEF OtherHolds
  <2>28. CASE OtherReleases
    BY <2>28 DEF OtherReleases
  <2>29. CASE OtherReplays
    BY <2>29 DEF OtherReplays
  <2>30. CASE SealUnlaunched
    BY <2>30 DEF SealUnlaunched, Terminal
  <2>31. CASE ProcessStep
    BY <2>31 DEF ProcessStep, ChildExits, KidsExit, InitReaps, SetupExits
  <2> QED BY <1>6, <2>1, <2>2, <2>3, <2>4, <2>5, <2>6, <2>7, <2>8, <2>9, <2>10, <2>11, <2>12, <2>13, <2>14, <2>15, <2>16, <2>17, <2>18, <2>19, <2>20, <2>21, <2>22, <2>23, <2>interrupted, <2>24, <2>25, <2>26, <2>27, <2>28, <2>29, <2>30, <2>31 DEF LauncherStep
<1> QED BY <1>2, <1>5, <1>6 DEF Next, vars

\* What both ways to finalize report is what they make the record say, unless
\* the WAL loses to an outcome that came first.
LEMMA FinalReports ==
  ASSUME TypeInv, RecordInv, FinalizeLocked \/ WriteWal
  PROVE  /\ View'.status \in Terminal /\ reported' \in Terminal
         /\ pc' \in {"present", "done"}
         /\ FinalizeLocked => wal' = NoRecord /\ View'.status = reported'
         /\ WriteWal => via' = "wal"
<1> USE DEF TypeInv, RecordInv
<1>1. rec \in Records /\ wal \in Records /\ View \in Records /\ draft \in Records
  BY ViewType DEF TypeOK, RecordTypeOK, LauncherTypeOK
<1>2. outcome \in Terminal
  BY DEF FinalizeLocked, WriteWal, LauncherInv
<1>3. pc' \in {"present", "done"} /\ (WriteWal => via' = "wal")
  BY DEF FinalizeLocked, WriteWal, AfterFinal
<1>4. CASE FinalizeLocked
  <2>1. wal' = NoRecord /\ View' = rec' /\ reported' = FinalStatus(View)
    BY <1>4 DEF FinalizeLocked, View, Overlay
  <2>2. rec'.status = FinalStatus(View)
    <3>1. CASE AlreadyFinal(View)
      BY <1>4, <3>1 DEF FinalizeLocked, FinalStatus
    <3>2. CASE ~AlreadyFinal(View) /\ CancelSeen(View)
      BY <1>4, <3>2 DEF FinalizeLocked, FinalStatus, FinalRecord, MergeTerminal
    <3>3. CASE ~AlreadyFinal(View) /\ ~CancelSeen(View)
      <4>1. View.status \notin Terminal
        BY <3>3 DEF AlreadyFinal
      <4>2. rec' = FinalRecord(View)
        BY <1>4, <3>3 DEF FinalizeLocked
      <4> QED BY <3>3, <4>1, <4>2 DEF FinalRecord, MergeTerminal, Fresh
    <3> QED BY <3>1, <3>2, <3>3
  <2>3. FinalStatus(View) \in Terminal
    BY <1>1, <1>2, FinalTypes
  <2> QED BY <1>3, <1>4, <2>1, <2>2, <2>3 DEF FinalizeLocked, WriteWal
<1>5. CASE WriteWal
  <2>1. wal = NoRecord /\ View = rec /\ rec' = rec /\ reported' = FinalStatus(draft)
    BY <1>5 DEF WriteWal, WalInv, View, Overlay
  <2>2. FinalStatus(draft) \in Terminal
    BY <1>1, <1>2, FinalTypes
  <2>3. View'.status \in Terminal
    <3>1. CASE AlreadyFinal(draft)
      BY <1>5, <2>1, <3>1 DEF WriteWal, AlreadyFinal, DraftInv, View
    <3>2. CASE ~AlreadyFinal(draft)
      <4>1. wal' = FinalRecord(draft)
        BY <1>5, <3>2 DEF WriteWal
      <4>2. wal' \in Records /\ wal'.status \in Terminal
        BY <1>1, <1>2, <3>2, <4>1, FinalWrite
      <4> QED BY <1>1, <2>1, <4>2, MergeIsTerminal DEF View
    <3> QED BY <3>1, <3>2
  <2> QED BY <1>3, <1>5, <2>1, <2>2, <2>3 DEF FinalizeLocked, WriteWal
<1> QED BY <1>4, <1>5

\* Only an unlocked finalizer makes a WAL.
LEMMA OnlyWriteWal ==
  ASSUME \/ LauncherStep \/ SetupDeadline \/ SetupInterrupted \/ StopChild \/ PersistProgress
         \/ LauncherCrash \/ ProcessStep
         \/ OtherHolds \/ OtherReleases \/ OtherReplays \/ SealUnlaunched,
         ~WriteWal
  PROVE  wal' \in {wal, NoRecord}
<1>1. CASE CreateWorktree
  BY <1>1 DEF CreateWorktree, Reconcile
<1>2. CASE SetupCheck
  BY <1>2 DEF SetupCheck, Reconcile
<1>3. CASE SetupSpawn
  BY <1>3 DEF SetupSpawn, Reconcile
<1>4. CASE SetupPublish
  BY <1>4 DEF SetupPublish, Reconcile
<1>5. CASE SetupReap
  BY <1>5 DEF SetupReap, Reconcile
<1>6. CASE SetupClear
  BY <1>6 DEF SetupClear, Reconcile
<1>7. CASE SetupVerdict
  BY <1>7 DEF SetupVerdict, Reconcile
<1>8. CASE Admit
  BY <1>8 DEF Admit, Reconcile
<1>9. CASE AdmitTimesOut
  BY <1>9 DEF AdmitTimesOut, Reconcile
<1>10. CASE Publish
  BY <1>10 DEF Publish, Reconcile
<1>11. CASE PublishFails
  BY <1>11 DEF PublishFails, Reconcile
<1>12. CASE RecordFailure
  BY <1>12 DEF RecordFailure, Reconcile
<1>13. CASE RetryFailed
  BY <1>13 DEF RetryFailed, Reconcile
<1>14. CASE Reap
  BY <1>14 DEF Reap, Reconcile
<1>15. CASE TerminateGroup
  BY <1>15 DEF TerminateGroup, Reconcile
<1>16. CASE Retry
  BY <1>16 DEF Retry, Reconcile
<1>17. CASE ComputeOutcome
  BY <1>17 DEF ComputeOutcome, Reconcile
<1>18. CASE FinalizeLocked
  BY <1>18 DEF FinalizeLocked, Reconcile
<1>19. CASE FinalizeUnlocked
  BY <1>19 DEF FinalizeUnlocked, Reconcile
<1>20. CASE Abort
  BY <1>20 DEF Abort, Reconcile
<1>21. CASE SetWorktreeStatus
  BY <1>21 DEF SetWorktreeStatus, Reconcile
<1>22. CASE SetupDeadline
  BY <1>22 DEF SetupDeadline, Reconcile
<1>interrupted. CASE SetupInterrupted
  BY <1>interrupted DEF SetupInterrupted, Reconcile
<1>23. CASE StopChild
  BY <1>23 DEF StopChild, Reconcile
<1>24. CASE PersistProgress
  BY <1>24 DEF PersistProgress, Reconcile
<1>25. CASE LauncherCrash
  BY <1>25 DEF LauncherCrash, Reconcile
<1>26. CASE OtherHolds
  BY <1>26 DEF OtherHolds, Reconcile
<1>27. CASE OtherReleases
  BY <1>27 DEF OtherReleases, Reconcile
<1>28. CASE OtherReplays
  BY <1>28 DEF OtherReplays, Reconcile
<1>29. CASE SealUnlaunched
  BY <1>29 DEF SealUnlaunched, Reconcile
<1>30. CASE ProcessStep
  BY <1>30 DEF ProcessStep, ChildExits, KidsExit, InitReaps, SetupExits
<1> QED BY <1>1, <1>2, <1>3, <1>4, <1>5, <1>6, <1>7, <1>8, <1>9, <1>10, <1>11, <1>12, <1>13, <1>14, <1>15, <1>16, <1>17, <1>18, <1>19, <1>20, <1>21, <1>22, <1>interrupted, <1>23, <1>24, <1>25, <1>26, <1>27, <1>28, <1>29, <1>30 DEF LauncherStep

LEMMA ReplyInit == Init => ReplyInv
<1> SUFFICES ASSUME Init PROVE ReplyInv
  OBVIOUS
<1>1. View.status \notin Terminal
  BY DEF Init, View, Overlay, NoRecord, Fresh, Terminal
<1> QED BY <1>1 DEF Init, ReplyInv, OwedInv, Owed, Sealing, MarkedInv, ReportInv, CancelledReplyHolds

LEMMA ReplyStep ==
  ASSUME TypeInv, RecordInv, ReplyInv, [Next]_vars
  PROVE  ReplyInv'
<1> USE DEF ReplyInv
<1>1. Promised(View, View') /\ View \in Records /\ View' \in Records
  BY PromiseStep, RecordsAround
<1>2. MarkedInv'
  BY <1>1 DEF Promised, MarkedInv, CancelSeen
<1>3. CASE \E c \in Cancellers : CancelStep(c) \/ Begin(c) \/ CancellerCrash(c)
  <2> PICK c \in Cancellers : CancelStep(c) \/ Begin(c) \/ CancellerCrash(c)
    BY <1>3
  <2>1. /\ UNCHANGED <<pc, reported, via>>
        /\ \A d \in Cancellers \ {c} : cpc'[d] = cpc[d] /\ reply'[d] = reply[d]
        /\ reply'[c] = "cancelled" => reply[c] = "cancelled" \/ View'.status = "cancelled"
        /\ cpc'[c] \in Owed => cpc[c] \in Owed \/ CancelSeen(View')
    BY CancelAnswers DEF RecordInv
  <2>2. OwedInv'
    BY <1>1, <2>1, PromiseKeeps DEF OwedInv
  <2>3. CancelledReplyHolds'
    BY <1>1, <2>1 DEF CancelledReplyHolds, Promised, CancelSeen, Terminal
  <2>4. ASSUME via' = "lock" PROVE wal' = NoRecord /\ View'.status = reported'
    <3>1. /\ wal = NoRecord /\ View.status = reported /\ reported \in Terminal
          /\ pc \in {"present", "done", "crashed"}
      BY <2>1, <2>4 DEF ReportInv
    <3>2. CASE CancelSeen(View)
      <4>1. wal' = NoRecord
        BY <3>1, CancelWrites DEF RecordInv
      <4>2. View.status = "cancelled"
        BY <3>1, <3>2 DEF MarkedInv, CancelSeen
      <4> QED BY <1>1, <2>1, <3>1, <4>1, <4>2, PromiseKeeps
    <3>3. CASE ~CancelSeen(View)
      BY <2>1, <3>1, <3>3, SettledStays
    <3> QED BY <3>2, <3>3
  <2>5. ReportInv'
    BY <1>1, <2>1, <2>4, PromiseKeeps DEF ReportInv
  <2> QED BY <1>2, <2>2, <2>3, <2>5
<1>4. CASE \/ LauncherStep \/ SetupDeadline \/ SetupInterrupted \/ StopChild \/ PersistProgress
           \/ LauncherCrash \/ ProcessStep
           \/ OtherHolds \/ OtherReleases \/ OtherReplays \/ SealUnlaunched
  <2>1. /\ UNCHANGED <<cpc, reply>>
        /\ \/ FinalizeLocked \/ WriteWal
           \/ /\ UNCHANGED <<reported, via>>
              /\ pc \in {"present", "done", "crashed"} => pc' \in {"present", "done", "crashed"}
    BY <1>4, LauncherReports
  <2>2. OwedInv'
    BY <1>1, <2>1, PromiseKeeps DEF OwedInv
  <2>3. CancelledReplyHolds'
    BY <1>1, <2>1 DEF CancelledReplyHolds, Promised, CancelSeen, Terminal
  <2>4. CASE FinalizeLocked \/ WriteWal
    <3>1. ReportInv'
      BY <2>4, FinalReports DEF ReportInv
    <3> QED BY <1>2, <2>2, <2>3, <3>1
  <2>5. CASE /\ UNCHANGED <<reported, via>>
             /\ pc \in {"present", "done", "crashed"} => pc' \in {"present", "done", "crashed"}
             /\ ~FinalizeLocked /\ ~WriteWal
    <3>1. ASSUME via' = "lock" PROVE wal' = NoRecord /\ View'.status = reported'
      <4>1. /\ wal = NoRecord /\ View.status = reported /\ reported \in Terminal
            /\ pc \in {"present", "done", "crashed"}
        BY <2>5, <3>1 DEF ReportInv
      <4>2. CASE CancelSeen(View)
        <5>1. wal' = NoRecord
          BY <1>4, <2>5, <4>1, OnlyWriteWal
        <5>2. View.status = "cancelled"
          BY <4>1, <4>2 DEF MarkedInv, CancelSeen
        <5> QED BY <1>1, <2>5, <4>1, <5>1, <5>2, PromiseKeeps
      <4>3. CASE ~CancelSeen(View)
        BY <2>5, <4>1, <4>3, SettledStays
      <4> QED BY <4>2, <4>3
    <3>2. ReportInv'
      BY <1>1, <2>5, <3>1, PromiseKeeps DEF ReportInv
    <3> QED BY <1>2, <2>2, <2>3, <3>2
  <2> QED BY <2>1, <2>4, <2>5
<1>5. CASE UNCHANGED vars
  BY <1>5 DEF vars, OwedInv, MarkedInv, ReportInv, CancelledReplyHolds, View
<1> QED BY <1>3, <1>4, <1>5 DEF Next

LEMMA ReplyAlways == Spec => []ReplyInv
BY SpecInv, ReplyInit, ReplyStep, PTL DEF Spec

\* A report made under the lock is what readers find.
THEOREM LockedReportsAgree == Spec => []LockedReportAgrees
<1>1. ReplyInv => LockedReportAgrees
  BY DEF ReplyInv, ReportInv, LockedReportAgrees
<1> QED BY ReplyAlways, <1>1, PTL

\* A cancel that answered `cancelled` is never contradicted.
THEOREM CancelledRepliesHold == Spec => []CancelledReplyHolds
<1>1. ReplyInv => CancelledReplyHolds
  BY DEF ReplyInv
<1> QED BY ReplyAlways, <1>1, PTL

-----------------------------------------------------------------------------
(* The reader without a lock.                                               *)

Late == {"present", "done", "crashed"}

\* What a read has found so far, against what the record says meanwhile: an
\* outcome it holds is still the record's or was cancelled, a WAL it holds is
\* still there or folded, and it holds no outcome after a report only if the
\* WAL of that report was there when it began.
LookInv ==
  /\ LookTypeOK
  /\ reported # "none" <=> via # "none"
  /\ look.owed => reported # "none"
  /\ look.late > 0 => via = "wal" /\ wal = NoRecord
  /\ look.at = "wal" =>
       IF look.held.status \in Terminal THEN View.status \in {look.held.status, "cancelled"}
       ELSE look.owed => look.late = 0 /\ via = "wal"
  /\ look.at = "again" =>
       /\ look.held.status \in Terminal /\ pc \in Late
       /\ wal = look.held \/ (wal = NoRecord /\ rec.status \in Terminal)

ReaderInv == LookInv /\ ReportedIsReadable

LEMMA ReaderInitially == ReaderInit => ReaderInv
BY WrittenTypes, Bounds
   DEF ReaderInit, Init, ReaderInv, LookInv, LookTypeOK, ReportedIsReadable

\* Once the launcher reported, nothing comes after its WAL but the fold, and
\* until then every report is one of the two ways to finalize.
LEMMA AfterReport ==
  ASSUME TypeInv, RecordInv, ReplyInv, [Next]_vars
  PROVE  /\ pc \in Late => /\ pc' \in Late /\ wal' \in {wal, NoRecord}
                          /\ UNCHANGED <<reported, via>>
         /\ \/ UNCHANGED <<reported, via>>
            \/ reported' # "none" /\ via' # "none" /\ pc \notin Late
<1>1. CASE \E c \in Cancellers : CancelStep(c) \/ Begin(c) \/ CancellerCrash(c)
  BY <1>1, CancelAnswers, CancelWrites DEF RecordInv
<1>2. CASE \/ LauncherStep \/ SetupDeadline \/ SetupInterrupted \/ StopChild \/ PersistProgress
           \/ LauncherCrash \/ ProcessStep
           \/ OtherHolds \/ OtherReleases \/ OtherReplays \/ SealUnlaunched
  <2>1. CASE FinalizeLocked \/ WriteWal
    <3>1. reported' \in Terminal /\ via' # "none" /\ pc \notin Late
      BY <2>1, FinalReports DEF FinalizeLocked, WriteWal, Late
    <3> QED BY <3>1 DEF Terminal
  <2>2. CASE ~FinalizeLocked /\ ~WriteWal
    BY <1>2, <2>2, LauncherReports, OnlyWriteWal DEF Late
  <2> QED BY <2>1, <2>2
<1>3. CASE UNCHANGED vars
  BY <1>3 DEF vars, Late
<1> QED BY <1>1, <1>2, <1>3 DEF Next

\* What the run does beside a read.
LEMMA RunBesideReader ==
  ASSUME TypeInv, RecordInv, ReplyInv, ReaderInv, [Next]_vars, UNCHANGED look
  PROVE  ReaderInv'
<1> USE DEF ReaderInv
<1>1. /\ View \in Records /\ View' \in Records /\ rec \in Records /\ wal \in Records
      /\ View.status \in Terminal => View'.status \in {View.status, "cancelled"} /\ View'.status \in Terminal
  BY RecordsAround, PromiseStep, PromiseKeeps
<1>2. /\ via # "none" => pc \in Late
      /\ pc \in Late => pc' \in Late /\ wal' \in {wal, NoRecord} /\ UNCHANGED <<reported, via>>
      /\ \/ UNCHANGED <<reported, via>>
         \/ reported' # "none" /\ via' # "none" /\ pc \notin Late
  BY AfterReport DEF ReplyInv, ReportInv, Late
<1>3. wal' = NoRecord => View' = rec'
  BY DEF View, Overlay
<1>4. LookTypeOK' /\ look' = look /\ look.late \in Nat
  BY DEF LookInv, LookTypeOK
<1>5. ASSUME look.at = "again"
      PROVE  pc' \in Late /\ (wal' = look.held \/ (wal' = NoRecord /\ rec'.status \in Terminal))
  <2>1. CASE wal' = wal /\ wal = look.held
    BY <1>2, <1>5, <2>1 DEF LookInv
  <2>2. CASE wal' = NoRecord
    <3>1. View.status \in Terminal
      BY <1>1, <1>5, MergeIsTerminal DEF LookInv, View, Overlay
    <3> QED BY <1>1, <1>2, <1>3, <1>5, <2>2, <3>1 DEF LookInv
  <2> QED BY <1>2, <1>5, <2>1, <2>2 DEF LookInv
<1>6. LookInv'
  <2>1. (reported # "none" <=> via # "none")' /\ (look.owed => reported # "none")'
    BY <1>2, <1>4 DEF LookInv
  <2>2. (look.late > 0 => via = "wal" /\ wal = NoRecord)'
    BY <1>2, <1>4 DEF LookInv
  <2>3. (look.at = "wal" =>
          IF look.held.status \in Terminal THEN View.status \in {look.held.status, "cancelled"}
          ELSE look.owed => look.late = 0 /\ via = "wal")'
    BY <1>1, <1>2, <1>4 DEF LookInv, Terminal
  <2> QED BY <1>4, <1>5, <2>1, <2>2, <2>3 DEF LookInv
<1>7. ReportedIsReadable'
  BY <1>1, <1>2, <1>4 DEF LookInv, LookTypeOK, ReportedIsReadable, Terminal
<1> QED BY <1>6, <1>7

\* What a look of the reader does.
LEMMA ReaderLooks ==
  ASSUME TypeInv, RecordInv, ReplyInv, ReaderInv, ReaderStep
  PROVE  ReaderInv'
<1> USE DEF ReaderInv
<1>1. /\ rec \in Records /\ wal \in Records /\ View \in Records /\ look.held \in Records
      /\ look.late \in Nat /\ NoRecord \in Records
  BY ViewType, WrittenTypes DEF TypeInv, TypeOK, RecordTypeOK, LookInv, LookTypeOK
<1>2. UNCHANGED <<rec, wal, pc, reported, via, View>>
  BY DEF ReaderStep, vars, View
<1>3. wal = NoRecord => View = rec
  BY DEF View, Overlay
<1>4. CASE ReaderStarts
  <2>1. look' = [look EXCEPT !.at = "wal", !.held = rec, !.owed = (reported # "none")]
    BY <1>4 DEF ReaderStarts
  <2>2. LookTypeOK'
    BY <1>1, <2>1 DEF LookInv, LookTypeOK
  <2>3. /\ look'.at = "wal" /\ look'.held = rec /\ (look'.owed <=> reported # "none")
        /\ look'.told = look.told /\ look'.late = look.late
    BY <2>1 DEF LookInv, LookTypeOK
  <2>4. rec.status \in Terminal => View.status \in {rec.status, "cancelled"}
    BY <1>1, MergeKeepsTerminal DEF View
  <2>5. ASSUME rec.status \notin Terminal, reported # "none" PROVE look.late = 0 /\ via = "wal"
    <3>1. wal # NoRecord
      BY <1>3, <2>5 DEF ReplyInv, ReportInv
    <3> QED BY <1>1, <2>5, <3>1 DEF LookInv, ReplyInv, ReportInv, TypeInv, TypeOK, LauncherTypeOK
  <2> QED BY <1>2, <2>2, <2>3, <2>4, <2>5 DEF LookInv, ReportedIsReadable
<1>5. CASE ReaderFindsWal
  <2>1. /\ look.at = "wal" /\ wal # NoRecord
        /\ look' = [look EXCEPT !.at = "again", !.held = wal]
    BY <1>5 DEF ReaderFindsWal
  <2>2. LookTypeOK'
    BY <1>1, <2>1 DEF LookInv, LookTypeOK
  <2>3. /\ look'.at = "again" /\ look'.held = wal /\ look'.owed = look.owed
        /\ look'.told = look.told /\ look'.late = look.late
    BY <2>1 DEF LookInv, LookTypeOK
  <2>4. wal.status \in Terminal /\ pc \in Late
    BY <2>1 DEF RecordInv, WalInv, Late
  <2> QED BY <1>2, <2>2, <2>3, <2>4 DEF LookInv, ReportedIsReadable
<1>6. ASSUME NEW r \in Records, Tells(r),
             r.status \in Terminal => View.status \in {r.status, "cancelled"},
             r.status \notin Terminal /\ look.owed => look.late = 0 /\ via = "wal" /\ wal = NoRecord
      PROVE  ReaderInv'
  <2>1. LookTypeOK'
    BY <1>1, <1>6 DEF Tells, LookInv, LookTypeOK
  <2>2. /\ look'.at = "record" /\ look'.owed = FALSE
        /\ look'.told = IF r.status \in Terminal THEN r.status ELSE look.told
        /\ look'.late = IF look.owed /\ r.status \notin Terminal THEN look.late + 1 ELSE look.late
    BY <1>6 DEF Tells
  <2> QED BY <1>1, <1>2, <1>6, <2>1, <2>2 DEF LookInv, ReportedIsReadable
<1>7. CASE ReaderFindsNoWal
  BY <1>1, <1>6, <1>7 DEF ReaderFindsNoWal, LookInv
<1>8. CASE ReaderMerges
  <2> DEFINE r == MergeTerminal(rec, look.held)
  <2>1. r \in Records /\ r.status \in Terminal
    BY <1>1, <1>8, MergeType, MergeIsTerminal DEF ReaderMerges, LookInv
  <2>2. View.status \in {r.status, "cancelled"}
    <3>1. CASE wal = look.held
      BY <1>1, <1>8, <3>1, MergeIsTerminal DEF ReaderMerges, LookInv, View
    <3>2. CASE wal = NoRecord /\ rec.status \in Terminal
      BY <1>3, <3>2 DEF MergeTerminal, ReplyInv, MarkedInv, CancelSeen
    <3> QED BY <1>8, <3>1, <3>2 DEF ReaderMerges, LookInv
  <2> QED BY <1>6, <1>8, <2>1, <2>2 DEF ReaderMerges
<1> QED BY <1>4, <1>5, <1>7, <1>8 DEF ReaderStep

\* A run beside a reader is a run.
LEMMA ReaderRuns == ReaderSpec => Spec
<1>1. ReaderInit => Init
  BY DEF ReaderInit
<1>2. [ReaderNext]_readerVars => [Next]_vars
  BY DEF ReaderNext, ReaderStep, readerVars
<1> QED BY <1>1, <1>2, PTL DEF ReaderSpec, Spec

\* Once a launcher reported, a reader without the lock misses the outcome at
\* most once, never when the report was made under the lock, and what it got
\* is the record's outcome or was cancelled since.
THEOREM ReportsAreReadable == ReaderSpec => []ReportedIsReadable
<1>1. ASSUME TypeInv, RecordInv, ReplyInv, ReaderInv, [ReaderNext]_readerVars PROVE ReaderInv'
  <2>1. CASE ReaderStep
    BY <1>1, <2>1, ReaderLooks
  <2>2. CASE Next /\ UNCHANGED look
    BY <1>1, <2>2, RunBesideReader
  <2>3. CASE UNCHANGED readerVars
    BY <1>1, <2>3, RunBesideReader DEF readerVars
  <2> QED BY <1>1, <2>1, <2>2, <2>3 DEF ReaderNext
<1>2. ReaderInv => ReportedIsReadable
  BY DEF ReaderInv
<1> QED BY ReaderInitially, ReaderRuns, SpecInv, ReplyAlways, <1>1, <1>2, PTL DEF ReaderSpec

-----------------------------------------------------------------------------
(* The processes behind the record.                                         *)

LEMMA PlainView == wal = NoRecord => View = rec
BY DEF View, Overlay

\* What cancel writes over a record keeps the group it names, and a marker
\* alone keeps its status.
LEMMA CancelWriteKeeps ==
  ASSUME NEW v \in Records
  PROVE  /\ Stamped(v).gen = v.gen /\ Stamped(v).status = v.status
         /\ Cancelled(v).gen = v.gen
         /\ [Cancelled(v) EXCEPT !.setup = FALSE].gen = v.gen
BY DEF Stamped, Cancelled

\* A record that names a group names it as the target, whatever else it says.
LEMMA TargetOf ==
  ASSUME NEW v \in Records, NEW g \in Attempts
  PROVE  /\ v.gen = g <=> SignalTarget(v) = g
         /\ v.gen \in Attempts \cup {0}
         /\ SignalTarget(v) \in {NoTarget, SetupGroup} => v.gen = 0
         /\ g \notin {0, NoTarget, SetupGroup}
BY AttemptsAssumption DEF SignalTarget, NoTarget, SetupGroup, Attempts, Records

\* A merged record names the generation of one of the two.
LEMMA MergeGen ==
  \A r, p \in Records : MergeTerminal(r, p).gen \in {r.gen, p.gen}
BY DEF MergeTerminal

\* A signalled group has nothing left that runs, and nobody else is touched.
LEMMA SignalStops ==
  ASSUME TypeInv, NEW g \in Targets, SignalGroup(g)
  PROVE  /\ \A h \in Attempts : GroupRuns(h)' => GroupRuns(h) /\ h # g
         /\ \A h \in Attempts : leader'[h] = "live" => leader[h] = "live"
<1>1. CASE g = SetupGroup
  BY <1>1, TargetOf, WrittenTypes DEF SignalGroup, GroupRuns
<1>2. CASE g # SetupGroup
  BY <1>2 DEF SignalGroup, GroupRuns, TypeInv, TypeOK, ProcessTypeOK
<1> QED BY <1>1, <1>2

\* While a group runs no WAL was written, so what a cancel command loaded is
\* the record.
LEMMA LoadedIsRecord ==
  ASSUME TypeInv, RecordInv, RunsInv, NEW c \in Cancellers
  PROVE  /\ View \in Records /\ rec \in Records /\ view[c] \in Records
         /\ cpc[c] \in Acts => view[c] \in {rec, View}
         /\ \A g \in Attempts : GroupRuns(g) =>
              wal = NoRecord /\ View = rec /\ (cpc[c] \in Acts => view[c] = rec)
<1>1. View \in Records /\ rec \in Records /\ view[c] \in Records
  BY ViewType DEF TypeInv, TypeOK, RecordTypeOK, CancelTypeOK
<1> QED BY <1>1, PlainView DEF RunsInv, RecordInv, ViewInv

\* A cancel command stops groups and starts none, and writes over a record
\* without making it name another group.
LEMMA CancelMoves ==
  ASSUME TypeInv, RecordInv, ChildInv, NEW c \in Cancellers,
         CancelStep(c) \/ Begin(c) \/ CancellerCrash(c)
  PROVE  /\ UNCHANGED <<pc, attempt>>
         /\ \A g \in Attempts : GroupRuns(g)' => GroupRuns(g)
         /\ \A g \in Attempts : leader'[g] = "live" => leader[g] = "live"
         /\ \A d \in Cancellers \ {c} : target'[d] = target[d]
         /\ rec'.gen \in {rec.gen, View.gen}
<1> USE DEF CancelTypeOK
<1> DEFINE Still == UNCHANGED <<pc, attempt, leader, kids>>
           Others == \A d \in Cancellers \ {c} : target'[d] = target[d]
<1>1. /\ View \in Records /\ rec \in Records /\ view[c] \in Records
      /\ cpc[c] \in Acts => view[c] \in {rec, View}
      /\ CancelTypeOK
  BY LoadedIsRecord DEF ChildInv, TypeInv, TypeOK
<1>2. Still => /\ UNCHANGED <<pc, attempt>>
               /\ \A g \in Attempts : GroupRuns(g)' => GroupRuns(g)
               /\ \A g \in Attempts : leader'[g] = "live" => leader[g] = "live"
  BY DEF GroupRuns
<1> HIDE DEF CancelTypeOK
<1>3. CASE Begin(c)
  <2>1. Still
    BY <1>3 DEF Begin
  <2>2. Others
    BY <1>1, <1>3 DEF Begin, GoTo
  <2>3. rec' = rec
    BY <1>3 DEF Begin
  <2> QED BY <1>2, <2>1, <2>2, <2>3
<1>4. CASE Enter(c)
  <2>1. Still
    BY <1>4 DEF Enter
  <2>2. Others
    BY <1>1, <1>4 DEF Enter, GoTo
  <2>3. rec' = View
    BY <1>4 DEF Enter, Reconcile
  <2> QED BY <1>2, <2>1, <2>2, <2>3
<1>5. CASE Load(c)
  <2>1. Still
    BY <1>5 DEF Load
  <2>2. Others
    BY <1>1, <1>5 DEF Load, CancelTypeOK
  <2>3. rec' = rec
    BY <1>5 DEF Load
  <2> QED BY <1>2, <2>1, <2>2, <2>3
<1>6. CASE GivesUpOnLock(c)
  <2>1. Still
    BY <1>6 DEF GivesUpOnLock
  <2>2. Others
    BY <1>1, <1>6 DEF GivesUpOnLock, Answer, Stop, Onward, CancelTypeOK
  <2>3. rec' = rec
    BY <1>6 DEF GivesUpOnLock
  <2> QED BY <1>2, <2>1, <2>2, <2>3
<1>7. CASE SelectStale(c)
  <2>1. Still
    BY <1>7 DEF SelectStale
  <2>2. Others
    BY <1>1, <1>7 DEF SelectStale, Answer, Stop, CancelTypeOK
  <2>3. rec'.gen \in {rec.gen, View.gen}
    BY <1>1, <1>7, CancelWriteKeeps DEF SelectStale, At, Acts, Release, WriteAndRelease
  <2> QED BY <1>2, <2>1, <2>2, <2>3
<1>8. CASE SelectTerminal(c)
  <2>1. Still
    BY <1>8 DEF SelectTerminal
  <2>2. Others
    BY <1>1, <1>8 DEF SelectTerminal, Answer, Stop
  <2>3. rec'.gen \in {rec.gen, View.gen}
    BY <1>1, <1>8 DEF SelectTerminal, Release, WriteAndRelease
  <2> QED BY <1>2, <2>1, <2>2, <2>3
<1>9. CASE SelectUnpublished(c)
  <2>1. Still
    BY <1>9 DEF SelectUnpublished
  <2>2. Others
    BY <1>1, <1>9 DEF SelectUnpublished, Answer, Stop, GoTo, CancelTypeOK
  <2>3. rec'.gen \in {rec.gen, View.gen}
    BY <1>1, <1>9, CancelWriteKeeps DEF SelectUnpublished, At, Acts, Release, WriteAndRelease
  <2> QED BY <1>2, <2>1, <2>2, <2>3
<1>10. CASE Seal(c)
  <2>1. Still
    BY <1>10 DEF Seal
  <2>2. Others
    BY <1>1, <1>10 DEF Seal, Answer, Stop
  <2>3. rec'.gen = View.gen
    BY <1>1, <1>10, CancelWriteKeeps DEF Seal, WriteAndRelease
  <2> QED BY <1>2, <2>1, <2>2, <2>3
<1>11. CASE SelectTarget(c)
  <2>1. Still
    BY <1>11 DEF SelectTarget
  <2>2. Others
    BY <1>1, <1>11 DEF SelectTarget, Onward
  <2>3. rec'.gen \in {rec.gen, View.gen}
    BY <1>1, <1>11 DEF SelectTarget, Release, WriteAndRelease
  <2> QED BY <1>2, <2>1, <2>2, <2>3
<1>12. CASE MarkSettled(c)
  <2>1. Still
    BY <1>12 DEF MarkSettled
  <2>2. Others
    BY <1>1, <1>12 DEF MarkSettled, Answer, Stop
  <2>3. rec'.gen \in {rec.gen, View.gen}
    BY <1>1, <1>12 DEF MarkSettled, Release, WriteAndRelease
  <2> QED BY <1>2, <2>1, <2>2, <2>3
<1>13. CASE MarkSetupEnded(c)
  <2>1. Still
    BY <1>13 DEF MarkSetupEnded
  <2>2. Others
    BY <1>1, <1>13 DEF MarkSetupEnded, Onward
  <2>3. rec'.gen \in {rec.gen, View.gen}
    BY <1>1, <1>13, CancelWriteKeeps DEF MarkSetupEnded, At, Acts, WriteAndRelease
  <2> QED BY <1>2, <2>1, <2>2, <2>3
<1>14. CASE MarkRetarget(c)
  <2>1. Still
    BY <1>14 DEF MarkRetarget
  <2>2. Others
    BY <1>1, <1>14 DEF MarkRetarget, Answer, Stop, SelectAgain, CancelTypeOK
  <2>3. rec'.gen \in {rec.gen, View.gen}
    BY <1>1, <1>14 DEF MarkRetarget, Release, WriteAndRelease
  <2> QED BY <1>2, <2>1, <2>2, <2>3
<1>15. CASE Mark(c)
  <2>1. Still
    BY <1>15 DEF Mark
  <2>2. Others
    BY <1>1, <1>15 DEF Mark, Answer, Stop, Onward, CancelTypeOK
  <2>3. rec'.gen \in {rec.gen, View.gen}
    BY <1>1, <1>15, CancelWriteKeeps DEF Mark, At, Acts, Release, WriteAndRelease
  <2> QED BY <1>2, <2>1, <2>2, <2>3
<1>16. CASE Kill(c)
  <2>1. UNCHANGED <<pc, attempt, rec>> /\ SignalGroup(target[c])
    BY <1>16 DEF Kill
  <2>2. Others
    BY <1>1, <1>16 DEF Kill, Onward
  <2>3. target[c] \in Targets
    BY <1>1 DEF CancelTypeOK
  <2> QED BY <2>1, <2>2, <2>3, SignalStops
<1>17. CASE Settle(c)
  <2>1. Still
    BY <1>17 DEF Settle
  <2>2. Others
    BY <1>1, <1>17 DEF Settle, Answer, Stop, SelectAgain, CancelTypeOK
  <2>3. rec'.gen \in {rec.gen, View.gen}
    BY <1>1, <1>17, CancelWriteKeeps DEF Settle, At, Acts, Release, WriteAndRelease
  <2> QED BY <1>2, <2>1, <2>2, <2>3
<1>18. CASE UrgentRead(c) \/ UrgentRecheck(c)
  <2>1. Still /\ Others /\ rec' = rec
    BY <1>1, <1>18, ReadMoves DEF TypeInv
  <2> QED BY <1>2, <2>1
<1>19. CASE LookAtRecord(c) \/ LookAtWal(c)
  <2>1. Still /\ Others /\ rec' = rec
    BY <1>1, <1>19, LookMoves DEF TypeInv
  <2> QED BY <1>2, <2>1
<1>20. CASE UrgentKill(c)
  <2>1. UNCHANGED <<pc, attempt, rec>> /\ SignalGroup(target[c])
    BY <1>20 DEF UrgentKill
  <2>2. Others
    BY <1>1, <1>20 DEF UrgentKill, GoTo
  <2>3. target[c] \in Targets
    BY <1>1 DEF CancelTypeOK
  <2> QED BY <2>1, <2>2, <2>3, SignalStops
<1>21. CASE UrgentRecord(c)
  <2>1. Still
    BY <1>21 DEF UrgentRecord
  <2>2. Others
    BY <1>1, <1>21 DEF UrgentRecord, Answer, Stop, GoTo, CancelTypeOK
  <2>3. rec'.gen \in {rec.gen, View.gen}
    BY <1>1, <1>21, CancelWriteKeeps DEF UrgentRecord, At, Acts, Release, WriteAndRelease
  <2> QED BY <1>2, <2>1, <2>2, <2>3
<1>22. CASE CancellerCrash(c)
  <2>1. Still
    BY <1>22 DEF CancellerCrash
  <2>2. Others
    BY <1>1, <1>22 DEF CancellerCrash, Stop
  <2>3. rec' = rec
    BY <1>22 DEF CancellerCrash
  <2> QED BY <1>2, <2>1, <2>2, <2>3
<1> QED BY <1>3, <1>4, <1>5, <1>6, <1>7, <1>8, <1>9, <1>10, <1>11, <1>12, <1>13, <1>14, <1>15,
  <1>16, <1>17, <1>18, <1>19, <1>20, <1>21, <1>22 DEF CancelStep

\* What every cancel command aims at stays what it was, or is what the record
\* named when it looked.
LEMMA CancelAims ==
  ASSUME TypeInv, RecordInv, ChildInv, NEW c \in Cancellers,
         CancelStep(c) \/ Begin(c) \/ CancellerCrash(c)
  PROVE  Aims(c)'
<1> DEFINE Free == {"select", "mark", "urgentRead", "done", "crashed"}
<1>1. /\ View \in Records /\ rec \in Records /\ view[c] \in Records
      /\ cpc[c] \in Acts => view[c] \in {rec, View}
      /\ \A g \in Attempts : GroupRuns(g) =>
           wal = NoRecord /\ View = rec /\ (cpc[c] \in Acts => view[c] = rec)
      /\ CancelTypeOK /\ target[c] \in Targets /\ Aims(c) /\ ReachedInv
  BY LoadedIsRecord DEF ChildInv, AimInv, TypeInv, TypeOK, CancelTypeOK
<1>2. /\ UNCHANGED <<pc, attempt>>
      /\ \A g \in Attempts : GroupRuns(g)' => GroupRuns(g)
  BY CancelMoves
<1>3. ASSUME cpc'[c] \in Free PROVE Aims(c)'
  BY <1>3 DEF Aims, Urgent, WalReads, Rereads
<1>4. \A g \in Attempts : Reached(g) => Reached(g)'
  BY <1>2 DEF Reached
<1>5. CASE Begin(c)
  <2>1. cpc'[c] \in Free
    BY <1>1, <1>5 DEF Begin, GoTo, CancelTypeOK
  <2> QED BY <1>3, <2>1
<1>6. CASE Enter(c)
  <2>1. /\ cpc[c] \in Waits /\ cpc'[c] = LoadOf[cpc[c]] /\ target' = target
        /\ rec' = View
    BY <1>1, <1>6 DEF Enter, GoTo, Reconcile, CancelTypeOK
  <2>2. \A g \in Attempts : GroupRuns(g)' => GroupRuns(g) /\ rec' = rec
    BY <1>1, <1>2, <2>1
  <2>3. CASE cpc[c] \in {"select", "mark"}
    BY <2>1, <2>3 DEF Aims, Urgent, WalReads, Rereads, LoadOf
  <2>4. CASE cpc[c] = "settle"
    <3>1. cpc'[c] = "settleLoad"
      BY <2>1, <2>4 DEF LoadOf, Waits
    <3> QED BY <1>1, <2>1, <2>2, <2>4, <3>1 DEF Aims, Urgent, WalReads, Rereads
  <2>5. CASE cpc[c] = "record"
    <3>1. cpc'[c] = "recordLoad"
      BY <2>1, <2>5 DEF LoadOf, Waits
    <3> QED BY <1>1, <1>2, <1>4, <2>1, <2>5, <3>1 DEF Aims, Urgent, WalReads, Rereads
  <2> QED BY <2>1, <2>3, <2>4, <2>5 DEF Waits
<1>7. CASE Load(c)
  <2>1. /\ cpc[c] \in Loads /\ cpc'[c] = ActOf[cpc[c]] /\ target' = target
        /\ rec' = rec
    BY <1>1, <1>7 DEF Load, CancelTypeOK
  <2>2. CASE cpc[c] \in {"selectLoad", "markLoad"}
    BY <2>1, <2>2 DEF Aims, Urgent, WalReads, Rereads, ActOf
  <2>3. CASE cpc[c] = "settleLoad"
    <3>1. cpc'[c] = "settleAct"
      BY <2>1, <2>3 DEF ActOf, Loads
    <3> QED BY <1>1, <1>2, <2>1, <2>3, <3>1 DEF Aims, Urgent, WalReads, Rereads
  <2>4. CASE cpc[c] = "recordLoad"
    <3>1. cpc'[c] = "recordAct"
      BY <2>1, <2>4 DEF ActOf, Loads
    <3> QED BY <1>1, <1>2, <1>4, <2>1, <2>4, <3>1 DEF Aims, Urgent, WalReads, Rereads
  <2> QED BY <2>1, <2>2, <2>3, <2>4 DEF Loads
<1>8. CASE GivesUpOnLock(c)
  <2>1. cpc'[c] \in Free
    BY <1>1, <1>8 DEF GivesUpOnLock, Answer, Stop, Onward, CancelTypeOK
  <2> QED BY <1>3, <2>1
<1>9. CASE SelectStale(c)
  <2>1. cpc'[c] \in Free
    BY <1>1, <1>9 DEF SelectStale, Answer, Stop, CancelTypeOK
  <2> QED BY <1>3, <2>1
<1>10. CASE SelectTerminal(c)
  <2>1. cpc'[c] \in Free
    BY <1>1, <1>10 DEF SelectTerminal, Answer, Stop, CancelTypeOK
  <2> QED BY <1>3, <2>1
<1>11. CASE SelectUnpublished(c)
  <2>1. \/ cpc'[c] = "done"
        \/ cpc'[c] = "selectSeal" /\ rec' = Stamped(view[c]) /\ SignalTarget(view[c]) = NoTarget
    BY <1>1, <1>11 DEF SelectUnpublished, Answer, Stop, GoTo, CancelTypeOK
  <2>2. CASE cpc'[c] = "selectSeal" /\ rec' = Stamped(view[c]) /\ SignalTarget(view[c]) = NoTarget
    <3>1. rec'.gen = 0
      BY <1>1, <2>2, CancelWriteKeeps, TargetOf, Bounds
    <3> QED BY <2>2, <3>1 DEF Aims, Urgent, WalReads, Rereads
  <2> QED BY <1>3, <2>1, <2>2
<1>12. CASE Seal(c)
  <2>1. cpc'[c] \in Free
    BY <1>1, <1>12 DEF Seal, Answer, Stop, CancelTypeOK
  <2> QED BY <1>3, <2>1
<1>13. CASE SelectTarget(c)
  <2>1. cpc'[c] \in Free
    BY <1>1, <1>13 DEF SelectTarget, Onward, CancelTypeOK
  <2> QED BY <1>3, <2>1
<1>14. CASE MarkSettled(c)
  <2>1. cpc'[c] \in Free
    BY <1>1, <1>14 DEF MarkSettled, Answer, Stop, CancelTypeOK
  <2> QED BY <1>3, <2>1
<1>15. CASE MarkSetupEnded(c)
  <2>1. /\ cpc'[c] = "settle" /\ rec' = Stamped(view[c])
        /\ SignalTarget(view[c]) = NoTarget
    BY <1>1, <1>15 DEF MarkSetupEnded, Onward, WriteAndRelease, CancelTypeOK
  <2>2. rec'.gen = 0
    BY <1>1, <2>1, CancelWriteKeeps, TargetOf, Bounds
  <2> QED BY <2>1, <2>2, Bounds DEF Aims, Urgent, WalReads, Rereads
<1>16. CASE MarkRetarget(c)
  <2>1. cpc'[c] \in Free
    BY <1>1, <1>16 DEF MarkRetarget, Answer, Stop, SelectAgain, CancelTypeOK
  <2> QED BY <1>3, <2>1
<1>17. CASE Mark(c)
  <2>1. \/ cpc'[c] = "done"
        \/ /\ cpc'[c] = "kill" /\ rec' = Stamped(view[c]) /\ target'[c] = target[c]
           /\ SignalTarget(view[c]) = target[c]
    BY <1>1, <1>17 DEF Mark, Answer, Stop, Onward, WriteAndRelease, CancelTypeOK
  <2>2. CASE /\ cpc'[c] = "kill" /\ rec' = Stamped(view[c]) /\ target'[c] = target[c]
             /\ SignalTarget(view[c]) = target[c]
    <3>1. \A g \in Attempts : rec'.gen = g => target'[c] = g
      BY <1>1, <2>2, CancelWriteKeeps, TargetOf
    <3> QED BY <2>2, <3>1 DEF Aims, Urgent, WalReads, Rereads
  <2> QED BY <1>3, <2>1, <2>2
<1>18. CASE Kill(c)
  <2>1. cpc[c] = "kill" /\ cpc'[c] = "settle" /\ rec' = rec /\ SignalGroup(target[c])
    BY <1>1, <1>18 DEF Kill, At, Onward, CancelTypeOK
  <2>2. \A h \in Attempts : GroupRuns(h)' => GroupRuns(h) /\ h # target[c]
    BY <1>1, <2>1, SignalStops
  <2> QED BY <1>1, <2>1, <2>2 DEF Aims, Urgent, WalReads, Rereads
<1>19. CASE Settle(c)
  <2>1. cpc'[c] \in Free
    BY <1>1, <1>19 DEF Settle, Answer, Stop, SelectAgain, CancelTypeOK
  <2> QED BY <1>3, <2>1
<1>20. CASE UrgentRead(c)
  <2>1. \/ cpc'[c] = "done"
        \/ cpc'[c] = "urgentRecheck" /\ target'[c] = Got(c).gen /\ Got(c).gen # 0
    BY <1>1, <1>20 DEF UrgentRead, Answer, Stop, Onward, CancelTypeOK
  <2>2. CASE cpc'[c] = "urgentRecheck" /\ target'[c] = Got(c).gen /\ Got(c).gen # 0
    <3>1. Got(c).gen \in Attempts
      BY <1>1, <2>2, GotType, TargetOf, Bounds DEF TypeInv
    <3>2. Got(c).gen \in {rec.gen, view[c].gen} /\ Reached(view[c].gen)
      BY <1>1, <1>20, MergeGen, ReadMoves DEF Got, Aims, TypeInv
    <3>3. Reached(Got(c).gen)
      BY <1>1, <3>2 DEF ReachedInv
    <3> QED BY <1>4, <2>2, <3>1, <3>3 DEF Aims, Reached, WalReads, Rereads
  <2> QED BY <1>3, <2>1, <2>2
<1>21. CASE UrgentRecheck(c)
  <2>1. cpc[c] \in {"urgentRecheckWal", "urgentRecheckAgain"}
    BY <1>21 DEF UrgentRecheck, ReadEnds, At
  <2>2. \/ cpc'[c] = "done"
        \/ cpc'[c] = "urgentKill" /\ target'[c] = target[c]
    BY <1>1, <1>21 DEF UrgentRecheck, Answer, Stop, Onward, CancelTypeOK
  <2>3. CASE cpc'[c] = "urgentKill" /\ target'[c] = target[c]
    BY <1>1, <1>2, <2>1, <2>3 DEF Aims, Urgent, WalReads, Rereads, Reached
  <2> QED BY <1>3, <2>2, <2>3
<1>look. CASE LookAtRecord(c)
  <2>1. /\ cpc[c] \in Reads /\ cpc'[c] = ReadOn[cpc[c]] /\ view'[c] = rec
        /\ target' = target
    BY <1>1, <1>look, LookMoves DEF LookAtRecord, Reading, TypeInv, TypeOK, CancelTypeOK
  <2>2. \/ cpc[c] = "urgentRead" /\ cpc'[c] = "urgentReadWal"
        \/ cpc[c] = "urgentRecheck" /\ cpc'[c] = "urgentRecheckWal"
    BY <2>1 DEF ReadOn, Reads, WalReads
  <2>3. Reached(rec.gen)
    BY <1>1 DEF ReachedInv
  <2> QED BY <1>1, <1>2, <2>1, <2>2, <2>3 DEF Aims, Urgent, WalReads, Rereads, Reached
<1>lookWal. CASE LookAtWal(c)
  <2>1. /\ cpc[c] \in WalReads /\ cpc'[c] = ReadOn[cpc[c]] /\ wal # NoRecord
        /\ target' = target /\ pc' = pc
    BY <1>1, <1>lookWal, LookMoves DEF LookAtWal, Reading, TypeInv, TypeOK, CancelTypeOK
  <2>2. \/ cpc[c] = "urgentReadWal" /\ cpc'[c] = "urgentReadAgain"
        \/ cpc[c] = "urgentRecheckWal" /\ cpc'[c] = "urgentRecheckAgain"
    BY <2>1 DEF ReadOn, Reads, WalReads
  <2>3. pc \in {"present", "done", "crashed"}
    BY <2>1 DEF RecordInv, WalInv
  <2> QED BY <1>1, <1>2, <2>1, <2>2, <2>3 DEF Aims, Urgent, WalReads, Rereads, Reached, Launching, Capturing
<1>22. CASE UrgentKill(c)
  <2>1. /\ cpc[c] = "urgentKill" /\ cpc'[c] = "record" /\ target'[c] = target[c]
        /\ SignalGroup(target[c])
    BY <1>1, <1>22 DEF UrgentKill, At, GoTo, CancelTypeOK
  <2>2. \A h \in Attempts : GroupRuns(h)' => GroupRuns(h) /\ h # target[c]
    BY <1>1, <2>1, SignalStops
  <2>3. target[c] \in Attempts /\ Reached(target[c])
    BY <1>1, <2>1 DEF Aims, Urgent, WalReads, Rereads
  <2>4. ~(leader'[target'[c]] = "live" \/ target'[c] \in kids')
    BY <2>1, <2>2, <2>3 DEF GroupRuns
  <2> QED BY <1>2, <2>1, <2>3, <2>4 DEF Aims, Urgent, WalReads, Rereads, Reached, GroupRuns
<1>23. CASE UrgentRecord(c)
  <2>1. \/ cpc'[c] = "done"
        \/ /\ cpc[c] = "recordAct" /\ cpc'[c] = "recordSeal" /\ target'[c] = target[c]
           /\ rec' = Stamped(view[c]) /\ SignalTarget(view[c]) = target[c]
    BY <1>1, <1>23 DEF UrgentRecord, At, Answer, Stop, GoTo, CancelTypeOK
  <2>2. CASE /\ cpc[c] = "recordAct" /\ cpc'[c] = "recordSeal" /\ target'[c] = target[c]
             /\ rec' = Stamped(view[c]) /\ SignalTarget(view[c]) = target[c]
    <3>1. target[c] \in Attempts /\ Reached(target[c]) /\ ~GroupRuns(target[c])
      BY <1>1, <2>2 DEF Aims, Urgent, WalReads, Rereads
    <3>2. rec'.gen = target[c]
      BY <1>1, <2>2, <3>1, CancelWriteKeeps, TargetOf
    <3> QED BY <1>2, <2>2, <3>1, <3>2 DEF Aims, Urgent, WalReads, Rereads, Reached, GroupRuns
  <2> QED BY <1>3, <2>1, <2>2
<1>24. CASE CancellerCrash(c)
  <2>1. cpc'[c] \in Free
    BY <1>1, <1>24 DEF CancellerCrash, Stop, CancelTypeOK
  <2> QED BY <1>3, <2>1
<1> QED BY <1>5, <1>6, <1>7, <1>8, <1>9, <1>10, <1>11, <1>12, <1>13, <1>14, <1>15, <1>16, <1>17,
  <1>18, <1>19, <1>20, <1>21, <1>look, <1>lookWal, <1>22, <1>23, <1>24 DEF CancelStep

\* A cancel command writes an outcome only over a group that it knows is gone,
\* or that the record does not name.
LEMMA CancelSpares ==
  ASSUME TypeInv, RecordInv, ChildInv, NEW c \in Cancellers, NEW g \in Attempts,
         CancelStep(c) \/ Begin(c) \/ CancellerCrash(c),
         GroupRuns(g), rec'.status \in Terminal
  PROVE  rec.status \in Terminal \/ rec.gen # g
<1>1. /\ rec \in Records /\ wal = NoRecord /\ View = rec
      /\ cpc[c] \in Acts => view[c] = rec
      /\ Aims(c) /\ target[c] \in Targets
  BY LoadedIsRecord DEF ChildInv, AimInv, TypeInv, TypeOK, CancelTypeOK
<1>2. /\ Stamped(rec).status = rec.status
      /\ rec.gen = g <=> SignalTarget(rec) = g
      /\ g \notin {0, NoTarget, SetupGroup}
  BY <1>1, CancelWriteKeeps, TargetOf
<1>3. CASE Begin(c)
  BY <1>3 DEF Begin
<1>4. CASE Enter(c)
  BY <1>1, <1>4 DEF Enter, Reconcile
<1>5. CASE Load(c)
  BY <1>5 DEF Load
<1>6. CASE GivesUpOnLock(c)
  BY <1>6 DEF GivesUpOnLock
<1>7. CASE SelectStale(c)
  BY <1>1, <1>7 DEF SelectStale, At, Acts, Release, WriteAndRelease, GroupAlive, AlivePids,
    GroupRuns
<1>8. CASE SelectTerminal(c)
  BY <1>8 DEF SelectTerminal, Release, WriteAndRelease
<1>9. CASE SelectUnpublished(c)
  BY <1>1, <1>2, <1>9 DEF SelectUnpublished, At, Acts
<1>10. CASE Seal(c)
  BY <1>1, <1>2, <1>10 DEF Seal, Sealing, Aims
<1>11. CASE SelectTarget(c)
  BY <1>11 DEF SelectTarget, Release, WriteAndRelease
<1>12. CASE MarkSettled(c)
  BY <1>12 DEF MarkSettled, Release, WriteAndRelease
<1>13. CASE MarkSetupEnded(c)
  BY <1>1, <1>2, <1>13 DEF MarkSetupEnded, At, Acts
<1>14. CASE MarkRetarget(c)
  BY <1>14 DEF MarkRetarget, Release, WriteAndRelease
<1>15. CASE Mark(c)
  BY <1>1, <1>2, <1>15 DEF Mark, At, Acts, WriteAndRelease
<1>16. CASE Kill(c)
  BY <1>16 DEF Kill
<1>17. CASE Settle(c)
  BY <1>1, <1>17 DEF Settle, At, Aims
<1>18. CASE UrgentRead(c) \/ UrgentRecheck(c)
  BY <1>18 DEF UrgentRead, UrgentRecheck
<1>19. CASE LookAtRecord(c) \/ LookAtWal(c)
  BY <1>19 DEF LookAtRecord, LookAtWal, Reading
<1>20. CASE UrgentKill(c)
  BY <1>20 DEF UrgentKill
<1>21. CASE UrgentRecord(c)
  BY <1>1, <1>2, <1>21 DEF UrgentRecord, At, Acts, Release, WriteAndRelease
<1>22. CASE CancellerCrash(c)
  BY <1>22 DEF CancellerCrash
<1> QED BY <1>3, <1>4, <1>5, <1>6, <1>7, <1>8, <1>9, <1>10, <1>11, <1>12, <1>13, <1>14, <1>15,
  <1>16, <1>17, <1>18, <1>19, <1>20, <1>21, <1>22 DEF CancelStep

\* What every step but a cancel command's does to the attempts' groups: the
\* launcher alone starts one, the one of an attempt no record has named yet
\* and over a record nobody cancelled; and it is gone before its outcome.
LEMMA LauncherSpares ==
  ASSUME TypeInv, RecordInv, ChildInv,
         \/ LauncherStep \/ SetupDeadline \/ SetupInterrupted \/ StopChild \/ PersistProgress
         \/ LauncherCrash \/ ProcessStep
         \/ OtherHolds \/ OtherReleases \/ OtherReplays \/ SealUnlaunched
  PROVE  /\ \A g \in Nat : Reached(g) => Reached(g)'
         /\ \A g \in Attempts : GroupRuns(g)' =>
              GroupRuns(g) \/ (g = attempt /\ pc = "admit" /\ ~LaunchRefused(View))
         /\ \A g \in Attempts : GroupRuns(g) /\ rec'.gen = g /\ LaunchRefused(View) => rec.gen = g
         /\ RunsInv' /\ ReachedInv' /\ TerminalLeavesNoChild'
<1> DEFINE
      Reaching == \A g \in Nat : Reached(g) => Reached(g)'
      Births == \A g \in Attempts : GroupRuns(g)' =>
                  GroupRuns(g) \/ (g = attempt /\ pc = "admit" /\ ~LaunchRefused(View))
      Naming == \A g \in Attempts :
                  GroupRuns(g) /\ rec'.gen = g /\ LaunchRefused(View) => rec.gen = g
      Goal == /\ Reaching /\ Births /\ Naming
              /\ RunsInv' /\ ReachedInv' /\ TerminalLeavesNoChild'
<1>1. /\ View \in Records /\ rec \in Records /\ rec.gen \in Nat /\ View.gen \in Nat
      /\ attempt \in Attempts /\ attempt \in Nat /\ attempt # 0
      /\ RunsInv /\ ReachedInv /\ TerminalLeavesNoChild
      /\ leader \in [Attempts -> {"unborn", "live", "zombie", "dead"}] /\ kids \in SUBSET Attempts
      /\ \A g \in Attempts : g \in Nat /\ g # 0
  <2>1. View \in Records /\ rec \in Records /\ attempt \in Attempts
    BY ViewType DEF TypeInv, TypeOK, RecordTypeOK, LauncherTypeOK
  <2>2. \A r \in Records : r.gen \in Nat
    BY Bounds DEF Records
  <2> QED BY <2>1, <2>2, Bounds DEF ChildInv, TypeInv, TypeOK, ProcessTypeOK
<1>2. /\ \A g \in Attempts : GroupRuns(g) => g = attempt /\ pc \in Tending /\ wal = NoRecord /\ View = rec
      /\ pc \in Launching \cup Capturing => wal = NoRecord /\ View = rec
  BY <1>1, PlainView DEF RunsInv, RecordInv, WalInv, Launching, Capturing
\* A launcher that tends no group leaves none, ...
<1>3. ASSUME pc \notin Tending, pc' # "reaped", UNCHANGED <<leader, kids>>
      PROVE  Births /\ Naming /\ RunsInv' /\ TerminalLeavesNoChild'
  BY <1>2, <1>3 DEF RunsInv, TerminalLeavesNoChild, GroupRuns
\* ... and what is published stays behind the attempt being launched.
<1>4. ASSUME attempt' = attempt, rec'.gen = rec.gen, pc \in Launching,
             pc' \in Launching
      PROVE  Reaching /\ ReachedInv'
  BY <1>1, <1>4 DEF ReachedInv, Reached, Launching
<1>5. ASSUME pc' \notin Launching \cup Capturing
      PROVE  Reaching /\ ReachedInv'
  BY <1>5 DEF ReachedInv, Reached, Capturing
\* Steps that leave the launcher where it is and name no other group.
<1>0. ASSUME UNCHANGED <<pc, attempt>>,
             \A g \in Attempts : /\ GroupRuns(g)' => GroupRuns(g)
                                 /\ leader'[g] = "live" => leader[g] = "live",
             pc \in Launching \cup Capturing =>
               rec'.gen = rec.gen /\ (rec'.status \in Terminal => rec.status \in Terminal),
             \A g \in Attempts : GroupRuns(g) => wal' = NoRecord /\ rec'.gen = rec.gen,
             \A g \in Attempts : GroupRuns(g) =>
               (rec'.status \in Terminal => rec.status \in Terminal \/ rec.gen # g)
      PROVE  Goal
  <2>1. Reaching
    BY <1>0 DEF Reached
  <2>2. Births /\ Naming
    BY <1>0
  <2>3. RunsInv'
    BY <1>0, <1>1 DEF RunsInv
  <2>4. ReachedInv'
    BY <1>0, <1>1 DEF ReachedInv, Reached, Capturing
  <2>5. TerminalLeavesNoChild'
    <3> SUFFICES ASSUME View'.status \in Terminal, NEW g \in Attempts, GroupRuns(g)'
                 PROVE  Unpublished(g)'
      BY DEF TerminalLeavesNoChild
    <3>1. GroupRuns(g) /\ wal' = NoRecord /\ rec'.gen = rec.gen /\ View = rec
      BY <1>0, <1>2
    <3>2. View' = rec'
      BY <3>1 DEF View, Overlay
    <3>3. CASE rec.status \in Terminal
      BY <1>0, <1>1, <3>1, <3>2, <3>3 DEF TerminalLeavesNoChild, Unpublished
    <3>4. CASE rec.status \notin Terminal
      <4>1. rec.gen # g
        BY <1>0, <3>1, <3>2, <3>4
      <4>2. pc = "crashed"
        BY <1>0, <1>1, <3>1, <3>2, <3>4 DEF RunsInv, Launching, Capturing, Tending
      <4> QED BY <1>0, <3>1, <3>2, <4>1, <4>2 DEF Unpublished
    <3> QED BY <3>3, <3>4
  <2> QED BY <2>1, <2>2, <2>3, <2>4, <2>5
<1>6. CASE CreateWorktree
  <2>1. pc \notin Tending /\ pc' # "reaped" /\ UNCHANGED <<leader, kids>>
    BY <1>6 DEF CreateWorktree, Tending
  <2>2. pc \in Launching
    BY <1>6 DEF CreateWorktree, Launching
  <2>3. attempt' = attempt /\ rec'.gen = rec.gen
    BY <1>1, <1>2, <1>6, <2>2 DEF CreateWorktree
  <2>4. pc' \in Launching \/ pc' \notin Launching \cup Capturing
    BY <1>6 DEF CreateWorktree, Capturing
  <2>5. Reaching /\ ReachedInv'
    BY <1>4, <1>5, <2>2, <2>3, <2>4
  <2> QED BY <1>3, <2>1, <2>5
<1>7. CASE SetupCheck
  <2>1. pc \notin Tending /\ pc' # "reaped" /\ UNCHANGED <<leader, kids>>
    BY <1>7 DEF SetupCheck, Tending
  <2>2. pc \in Launching
    BY <1>7 DEF SetupCheck, Launching
  <2>3. attempt' = attempt /\ rec'.gen = rec.gen
    BY <1>1, <1>2, <1>7, <2>2 DEF SetupCheck, Reconcile
  <2>4. pc' \in Launching \/ pc' \notin Launching \cup Capturing
    BY <1>7 DEF SetupCheck, Capturing
  <2>5. Reaching /\ ReachedInv'
    BY <1>4, <1>5, <2>2, <2>3, <2>4
  <2> QED BY <1>3, <2>1, <2>5
<1>8. CASE SetupSpawn
  <2>1. pc \notin Tending /\ pc' # "reaped" /\ UNCHANGED <<leader, kids>>
    BY <1>8 DEF SetupSpawn, Tending
  <2>2. pc \in Launching
    BY <1>8 DEF SetupSpawn, Launching
  <2>3. attempt' = attempt /\ rec'.gen = rec.gen
    BY <1>1, <1>2, <1>8, <2>2 DEF SetupSpawn
  <2>4. pc' \in Launching \/ pc' \notin Launching \cup Capturing
    BY <1>8 DEF SetupSpawn, Capturing
  <2>5. Reaching /\ ReachedInv'
    BY <1>4, <1>5, <2>2, <2>3, <2>4
  <2> QED BY <1>3, <2>1, <2>5
<1>9. CASE SetupPublish
  <2>1. pc \notin Tending /\ pc' # "reaped" /\ UNCHANGED <<leader, kids>>
    BY <1>9 DEF SetupPublish, Tending
  <2>2. pc \in Launching
    BY <1>9 DEF SetupPublish, Launching
  <2>3. attempt' = attempt /\ rec'.gen = rec.gen
    BY <1>1, <1>2, <1>9, <2>2 DEF SetupPublish, Records
  <2>4. pc' \in Launching \/ pc' \notin Launching \cup Capturing
    BY <1>9 DEF SetupPublish, Capturing
  <2>5. Reaching /\ ReachedInv'
    BY <1>4, <1>5, <2>2, <2>3, <2>4
  <2> QED BY <1>3, <2>1, <2>5
<1>10. CASE SetupReap
  <2>1. pc \notin Tending /\ pc' # "reaped" /\ UNCHANGED <<leader, kids>>
    BY <1>10 DEF SetupReap, Tending
  <2>2. pc \in Launching
    BY <1>10 DEF SetupReap, Launching
  <2>3. attempt' = attempt /\ rec'.gen = rec.gen
    BY <1>1, <1>2, <1>10, <2>2 DEF SetupReap
  <2>4. pc' \in Launching \/ pc' \notin Launching \cup Capturing
    BY <1>10 DEF SetupReap, Capturing
  <2>5. Reaching /\ ReachedInv'
    BY <1>4, <1>5, <2>2, <2>3, <2>4
  <2> QED BY <1>3, <2>1, <2>5
<1>11. CASE SetupClear
  <2>1. pc \notin Tending /\ pc' # "reaped" /\ UNCHANGED <<leader, kids>>
    BY <1>11 DEF SetupClear, Tending
  <2>2. pc \in Launching
    BY <1>11 DEF SetupClear, Launching
  <2>3. attempt' = attempt /\ rec'.gen = rec.gen
    BY <1>1, <1>2, <1>11, <2>2 DEF SetupClear, Records
  <2>4. pc' \in Launching \/ pc' \notin Launching \cup Capturing
    BY <1>11 DEF SetupClear, Capturing
  <2>5. Reaching /\ ReachedInv'
    BY <1>4, <1>5, <2>2, <2>3, <2>4
  <2> QED BY <1>3, <2>1, <2>5
<1>12. CASE SetupVerdict
  <2>1. pc \notin Tending /\ pc' # "reaped" /\ UNCHANGED <<leader, kids>>
    BY <1>12 DEF SetupVerdict, Tending
  <2>2. Reaching /\ ReachedInv'
    BY <1>5, <1>12 DEF SetupVerdict, Launching, Capturing
  <2> QED BY <1>3, <2>1, <2>2
<1>13. CASE AdmitTimesOut
  <2>1. pc \notin Tending /\ pc' # "reaped" /\ UNCHANGED <<leader, kids>>
    BY <1>13 DEF AdmitTimesOut, LaunchLost, Tending
  <2>2. Reaching /\ ReachedInv'
    BY <1>5, <1>13 DEF AdmitTimesOut, LaunchLost, Launching, Capturing
  <2> QED BY <1>3, <2>1, <2>2
<1>14. CASE RecordFailure
  <2>1. pc \notin Tending /\ pc' # "reaped" /\ UNCHANGED <<leader, kids>>
    BY <1>14 DEF RecordFailure, LaunchLost, Tending
  <2>2. Reaching /\ ReachedInv'
    BY <1>5, <1>14 DEF RecordFailure, LaunchLost, Launching, Capturing
  <2> QED BY <1>3, <2>1, <2>2
<1>15. CASE RetryFailed
  <2>1. pc \notin Tending /\ pc' # "reaped" /\ UNCHANGED <<leader, kids>>
    BY <1>15 DEF RetryFailed, Tending
  <2>2. Reaching /\ ReachedInv'
    BY <1>5, <1>15 DEF RetryFailed, Launching, Capturing
  <2> QED BY <1>3, <2>1, <2>2
<1>16. CASE Retry
  <2>1. pc \notin Tending /\ pc' # "reaped" /\ UNCHANGED <<leader, kids>>
    BY <1>16 DEF Retry, Tending
  <2>2. Reaching /\ ReachedInv'
    BY <1>1, <1>16 DEF Retry, ReachedInv, Reached, Capturing
  <2> QED BY <1>3, <2>1, <2>2
<1>17. CASE ComputeOutcome
  <2>1. pc \notin Tending /\ pc' # "reaped" /\ UNCHANGED <<leader, kids>>
    BY <1>17 DEF ComputeOutcome, Tending
  <2>2. Reaching /\ ReachedInv'
    BY <1>5, <1>17 DEF ComputeOutcome, Launching, Capturing
  <2> QED BY <1>3, <2>1, <2>2
<1>18. CASE FinalizeLocked
  <2>1. pc \notin Tending /\ pc' # "reaped" /\ UNCHANGED <<leader, kids>>
    BY <1>18 DEF FinalizeLocked, AfterFinal, Tending
  <2>2. Reaching /\ ReachedInv'
    BY <1>5, <1>18 DEF FinalizeLocked, AfterFinal, Launching, Capturing
  <2> QED BY <1>3, <2>1, <2>2
<1>19. CASE FinalizeUnlocked
  <2>1. pc \notin Tending /\ pc' # "reaped" /\ UNCHANGED <<leader, kids>>
    BY <1>19 DEF FinalizeUnlocked, Tending
  <2>2. Reaching /\ ReachedInv'
    BY <1>5, <1>19 DEF FinalizeUnlocked, Launching, Capturing
  <2> QED BY <1>3, <2>1, <2>2
<1>20. CASE WriteWal
  <2>1. pc \notin Tending /\ pc' # "reaped" /\ UNCHANGED <<leader, kids>>
    BY <1>20 DEF WriteWal, AfterFinal, Tending
  <2>2. Reaching /\ ReachedInv'
    BY <1>5, <1>20 DEF WriteWal, AfterFinal, Launching, Capturing
  <2> QED BY <1>3, <2>1, <2>2
<1>21. CASE Abort
  <2>1. pc \notin Tending /\ pc' # "reaped" /\ UNCHANGED <<leader, kids>>
    BY <1>21 DEF Abort, Tending
  <2>2. Reaching /\ ReachedInv'
    BY <1>5, <1>21 DEF Abort, Launching, Capturing
  <2> QED BY <1>3, <2>1, <2>2
<1>22. CASE SetWorktreeStatus
  <2>1. pc \notin Tending /\ pc' # "reaped" /\ UNCHANGED <<leader, kids>>
    BY <1>22 DEF SetWorktreeStatus, Tending
  <2>2. Reaching /\ ReachedInv'
    BY <1>5, <1>22 DEF SetWorktreeStatus, Launching, Capturing
  <2> QED BY <1>3, <2>1, <2>2
<1>23. CASE SetupDeadline
  <2>1. pc \notin Tending /\ pc' # "reaped" /\ UNCHANGED <<leader, kids>>
    BY <1>23 DEF SetupDeadline, Tending
  <2>2. pc \in Launching
    BY <1>23 DEF SetupDeadline, Launching
  <2>3. attempt' = attempt /\ rec'.gen = rec.gen
    BY <1>1, <1>2, <1>23, <2>2 DEF SetupDeadline
  <2>4. pc' \in Launching \/ pc' \notin Launching \cup Capturing
    BY <1>23 DEF SetupDeadline, Capturing
  <2>5. Reaching /\ ReachedInv'
    BY <1>4, <1>5, <2>2, <2>3, <2>4
  <2> QED BY <1>3, <2>1, <2>5
<1>24. CASE SetupInterrupted
  <2>1. pc \notin Tending /\ pc' # "reaped" /\ UNCHANGED <<leader, kids>>
    BY <1>24 DEF SetupInterrupted, Tending
  <2>2. pc \in Launching
    BY <1>24 DEF SetupInterrupted, Launching
  <2>3. attempt' = attempt /\ rec'.gen = rec.gen
    BY <1>1, <1>2, <1>24, <2>2 DEF SetupInterrupted
  <2>4. pc' \in Launching \/ pc' \notin Launching \cup Capturing
    BY <1>24 DEF SetupInterrupted, Capturing
  <2>5. Reaching /\ ReachedInv'
    BY <1>4, <1>5, <2>2, <2>3, <2>4
  <2> QED BY <1>3, <2>1, <2>5
<1>25. CASE Admit
  <2>1. pc = "admit" /\ rec' = rec /\ attempt' = attempt /\ wal' = NoRecord /\ kids' = kids
    BY <1>2, <1>25 DEF Admit, Reconcile, Launching
  <2>2. CASE leader' = leader /\ pc' \in {"retryFailed", "abort", "recordFailure"}
    <3>1. Reaching /\ ReachedInv'
      BY <1>5, <2>2 DEF Launching, Capturing
    <3> QED BY <1>3, <2>1, <2>2, <3>1 DEF Tending
  <2>3. CASE leader' = [leader EXCEPT ![attempt] = "live"] /\ pc' = "publish" /\ ~LaunchRefused(View)
    <3>1. \A g \in Attempts : GroupRuns(g)' => g = attempt
      BY <1>1, <1>2, <2>1, <2>3 DEF GroupRuns, Tending
    <3>2. Births /\ Naming
      BY <2>1, <2>3, <3>1
    <3>3. Reaching /\ ReachedInv'
      BY <1>4, <2>1, <2>3 DEF Launching
    <3>4. RunsInv'
      BY <2>1, <2>3, <3>1 DEF RunsInv, Tending
    <3>5. View' = rec
      BY <2>1 DEF View, Overlay
    <3>6. View = rec
      BY <1>2, <2>1 DEF Launching
    <3>7. TerminalLeavesNoChild'
      BY <2>3, <3>5, <3>6 DEF TerminalLeavesNoChild, LaunchRefused
    <3> QED BY <3>2, <3>3, <3>4, <3>7
  <2> QED BY <1>25, <2>2, <2>3 DEF Admit, LaunchLost
<1>26. CASE Publish
  <2>1. pc = "publish" /\ attempt' = attempt /\ wal' = wal /\ ~LaunchRefused(View)
    BY <1>26 DEF Publish, RecordInv, PublishInv
  <2>2. /\ rec' = Fresh("running", attempt) /\ pc' = "capture" /\ UNCHANGED <<leader, kids>>
    BY <1>26, <2>1 DEF Publish
  <2>3. rec'.gen = attempt /\ rec'.status = "running" /\ wal' = NoRecord /\ View' = rec'
    BY <1>2, <2>1, <2>2 DEF Fresh, View, Overlay, Launching
  <2>4. Reaching /\ ReachedInv'
    BY <1>1, <2>1, <2>2, <2>3 DEF ReachedInv, Reached, Launching
  <2>5. Births /\ Naming
    BY <2>1, <2>2 DEF GroupRuns
  <2>6. RunsInv'
    BY <1>2, <2>1, <2>2, <2>3 DEF RunsInv, GroupRuns, Tending
  <2>7. TerminalLeavesNoChild'
    BY <2>3 DEF TerminalLeavesNoChild, Terminal
  <2> QED BY <2>4, <2>5, <2>6, <2>7
<1>27. CASE PublishFails
  <2>1. /\ pc = "publish" /\ pc' = "abort" /\ ~LaunchRefused(View)
        /\ leader' = [leader EXCEPT ![attempt] = "dead"] /\ kids' = kids \ {attempt}
    BY <1>27 DEF PublishFails, RecordInv, PublishInv
  <2>2. \A g \in Attempts : ~GroupRuns(g)'
    BY <1>1, <1>2, <2>1 DEF GroupRuns
  <2>3. Reaching /\ ReachedInv'
    BY <1>5, <2>1 DEF Launching, Capturing
  <2>4. Births /\ Naming /\ RunsInv' /\ TerminalLeavesNoChild'
    BY <2>1, <2>2 DEF RunsInv, TerminalLeavesNoChild
  <2> QED BY <2>3, <2>4
<1>28. CASE StopChild
  <2>1. /\ pc = "capture" /\ pc' = "decide" /\ attempt' = attempt /\ rec' = rec
        /\ leader' = [leader EXCEPT ![attempt] = "dead"] /\ kids' = kids \ {attempt}
    BY <1>28 DEF StopChild
  <2>2. \A g \in Attempts : ~GroupRuns(g)'
    BY <1>1, <1>2, <2>1 DEF GroupRuns
  <2>3. Reaching /\ ReachedInv'
    BY <1>1, <2>1 DEF ReachedInv, Reached, Launching, Capturing
  <2>4. Births /\ Naming /\ RunsInv' /\ TerminalLeavesNoChild'
    BY <2>1, <2>2 DEF RunsInv, TerminalLeavesNoChild
  <2> QED BY <2>3, <2>4
<1>29. CASE Reap
  <2>1. /\ pc = "capture" /\ pc' = "reaped" /\ attempt' = attempt /\ UNCHANGED <<rec, wal, kids>>
        /\ leader' = [leader EXCEPT ![attempt] = "dead"]
    BY <1>29 DEF Reap
  <2>2. \A g \in Attempts : /\ GroupRuns(g)' => GroupRuns(g)
                            /\ leader'[g] # "live"
    BY <1>1, <1>2, <2>1 DEF GroupRuns
  <2>3. Reaching /\ ReachedInv'
    BY <1>1, <2>1 DEF ReachedInv, Reached, Launching, Capturing
  <2>4. Births /\ Naming /\ RunsInv'
    BY <1>1, <1>2, <2>1, <2>2 DEF RunsInv, Tending
  <2>5. View' = View
    BY <2>1 DEF View
  <2>6. TerminalLeavesNoChild'
    BY <1>1, <2>1, <2>2, <2>5 DEF TerminalLeavesNoChild, Unpublished
  <2> QED BY <2>3, <2>4, <2>6
<1>30. CASE TerminateGroup
  <2>1. /\ pc = "reaped" /\ pc' = "decide" /\ attempt' = attempt /\ UNCHANGED <<rec, leader>>
        /\ kids' = kids \ {attempt}
    BY <1>30 DEF TerminateGroup
  <2>2. \A g \in Attempts : ~GroupRuns(g)'
    BY <1>1, <1>2, <2>1 DEF GroupRuns, RunsInv
  <2>3. Reaching /\ ReachedInv'
    BY <1>1, <2>1 DEF ReachedInv, Reached, Launching, Capturing
  <2>4. Births /\ Naming /\ RunsInv' /\ TerminalLeavesNoChild'
    BY <2>1, <2>2 DEF RunsInv, TerminalLeavesNoChild
  <2> QED BY <2>3, <2>4
<1>31. CASE PersistProgress
  <2>1. /\ pc = "capture" /\ View = rec /\ wal' = NoRecord
        /\ UNCHANGED <<pc, attempt, leader, kids>>
    BY <1>2, <1>31 DEF PersistProgress, Capturing
  <2>2. rec'.gen = rec.gen /\ (rec'.status \in Terminal => rec.status \in Terminal)
    BY <1>1, <1>31, <2>1 DEF PersistProgress, Fresh, ReachedInv, Terminal
  <2> QED BY <1>0, <2>1, <2>2 DEF GroupRuns
<1>32. CASE LauncherCrash
  <2>1. /\ pc' = "crashed" /\ UNCHANGED <<attempt, rec, wal, leader, kids>> /\ pc # "crashed"
    BY <1>32 DEF LauncherCrash, LauncherGone
  <2>2. View' = View /\ \A g \in Attempts : GroupRuns(g)' => GroupRuns(g)
    BY <2>1 DEF View, GroupRuns
  <2>3. Reaching /\ ReachedInv'
    BY <1>5, <2>1 DEF Launching, Capturing
  <2>4. Births /\ Naming /\ RunsInv'
    BY <1>2, <2>1, <2>2 DEF RunsInv, Tending
  <2>5. TerminalLeavesNoChild'
    BY <1>1, <2>1, <2>2 DEF TerminalLeavesNoChild, Unpublished
  <2> QED BY <2>3, <2>4, <2>5
<1>33. CASE ProcessStep
  <2>1. UNCHANGED <<pc, attempt, rec, wal>>
    BY <1>33 DEF ProcessStep, ChildExits, KidsExit, InitReaps, SetupExits
  <2> DEFINE Calm == \A g \in Attempts : /\ GroupRuns(g)' => GroupRuns(g)
                                         /\ leader'[g] = "live" => leader[g] = "live"
  <2>2. Calm
    <3>1. ASSUME NEW h \in Attempts, ChildExits(h) PROVE Calm
      BY <1>1, <3>1 DEF ChildExits, GroupRuns
    <3>2. ASSUME NEW h \in Attempts, KidsExit(h) PROVE Calm
      BY <1>1, <3>2 DEF KidsExit, GroupRuns
    <3>3. ASSUME NEW h \in Attempts, InitReaps(h) PROVE Calm
      BY <1>1, <3>3 DEF InitReaps, GroupRuns
    <3>4. CASE SetupExits
      BY <3>4 DEF SetupExits, GroupRuns
    <3> QED BY <1>33, <3>1, <3>2, <3>3, <3>4 DEF ProcessStep
  <2>3. \A g \in Attempts : GroupRuns(g) => wal' = NoRecord
    BY <1>2, <2>1
  <2> QED BY <1>0, <2>1, <2>2, <2>3
<1>34. CASE OtherHolds
  <2>1. UNCHANGED <<pc, attempt, rec, wal, leader, kids>>
    BY <1>34 DEF OtherHolds
  <2> QED BY <1>0, <1>2, <2>1 DEF GroupRuns
<1>35. CASE OtherReleases
  <2>1. UNCHANGED <<pc, attempt, rec, wal, leader, kids>>
    BY <1>35 DEF OtherReleases
  <2> QED BY <1>0, <1>2, <2>1 DEF GroupRuns
<1>36. CASE OtherReplays
  <2>1. UNCHANGED <<pc, attempt, leader, kids>> /\ rec' = View /\ wal' = NoRecord
    BY <1>36 DEF OtherReplays, Reconcile
  <2>2. wal = NoRecord => rec' = rec
    BY <2>1, PlainView
  <2>3. pc \in Launching \cup Capturing => rec' = rec
    BY <1>2, <2>1
  <2> QED BY <1>0, <1>2, <2>1, <2>2, <2>3 DEF GroupRuns
<1>37. CASE SealUnlaunched
  <2>1. /\ UNCHANGED <<pc, attempt, leader, kids>> /\ rec' = Cancelled(Stamped(View))
        /\ wal' = NoRecord /\ View.gen = 0 /\ pc \in {"done", "crashed"}
    BY <1>37 DEF SealUnlaunched, LauncherGone
  <2>2. rec'.gen = 0
    BY <1>1, <2>1, CancelWriteKeeps, WrittenTypes
  <2>3. \A g \in Attempts : GroupRuns(g)' => GroupRuns(g) /\ rec.gen = 0
    BY <1>1, <1>2, <2>1 DEF GroupRuns
  <2>4. pc \notin Launching \cup Capturing
    BY <2>1 DEF Launching, Capturing
  <2>5. \A g \in Attempts : /\ GroupRuns(g)' => GroupRuns(g)
                            /\ leader'[g] = "live" => leader[g] = "live"
    BY <2>1 DEF GroupRuns
  <2>6. \A g \in Attempts : GroupRuns(g) => rec.gen = 0 /\ rec.gen # g
    BY <1>1, <1>2, <2>1
  <2> QED BY <1>0, <2>1, <2>2, <2>4, <2>5, <2>6
<1> QED BY <1>6, <1>7, <1>8, <1>9, <1>10, <1>11, <1>12, <1>13, <1>14, <1>15, <1>16, <1>17, <1>18,
  <1>19, <1>20, <1>21, <1>22, <1>23, <1>24, <1>25, <1>26, <1>27, <1>28, <1>29, <1>30, <1>31, <1>32,
  <1>33, <1>34, <1>35, <1>36, <1>37 DEF LauncherStep

LEMMA ChildInit == Init => ChildInv
<1> SUFFICES ASSUME Init PROVE ChildInv
  OBVIOUS
<1>1. \A g \in Attempts : ~GroupRuns(g)
  BY DEF Init, GroupRuns
<1>2. RunsInv /\ TerminalLeavesNoChild
  BY <1>1 DEF RunsInv, TerminalLeavesNoChild, Init
<1>3. ReachedInv
  BY DEF Init, ReachedInv, Reached, NoRecord, Fresh
<1>4. AimInv
  BY DEF Init, AimInv, Aims, Urgent, WalReads, Rereads
<1> QED BY <1>2, <1>3, <1>4 DEF ChildInv

LEMMA ChildStepCancel ==
  ASSUME TypeInv, RecordInv, ChildInv, NEW c \in Cancellers,
         CancelStep(c) \/ Begin(c) \/ CancellerCrash(c)
  PROVE  ChildInv'
<1>1. /\ UNCHANGED <<pc, attempt>>
      /\ \A g \in Attempts : GroupRuns(g)' => GroupRuns(g)
      /\ \A g \in Attempts : leader'[g] = "live" => leader[g] = "live"
      /\ \A d \in Cancellers \ {c} : target'[d] = target[d]
      /\ rec'.gen \in {rec.gen, View.gen}
  BY CancelMoves
<1>2. /\ wal' \in {wal, NoRecord}
      /\ lock \in {"free", c} \/ UNCHANGED <<rec, wal>>
      /\ \A d \in Cancellers \ {c} : cpc'[d] = cpc[d] /\ view'[d] = view[d]
  BY CancelWrites DEF RecordInv
<1>3. /\ \A g \in Attempts : GroupRuns(g) =>
           /\ wal = NoRecord /\ View = rec /\ g = attempt
           /\ pc \in Tending
      /\ pc \in Launching \cup Capturing => wal = NoRecord /\ View = rec
  BY PlainView DEF ChildInv, RunsInv, RecordInv, WalInv, Launching, Capturing
<1>4. RunsInv'
  BY <1>1, <1>2, <1>3 DEF ChildInv, RunsInv
<1>5. ReachedInv'
  BY <1>1, <1>3 DEF ChildInv, ReachedInv, Reached, Capturing
<1>6. TerminalLeavesNoChild'
  <2> SUFFICES ASSUME View'.status \in Terminal, NEW g \in Attempts, GroupRuns(g)'
               PROVE  Unpublished(g)'
    BY DEF TerminalLeavesNoChild
  <2>1. GroupRuns(g) /\ View = rec /\ wal' = NoRecord /\ rec'.gen = rec.gen
    BY <1>1, <1>2, <1>3
  <2>2. View' = rec'
    BY <2>1 DEF View, Overlay
  <2>3. CASE rec.status \in Terminal
    BY <1>1, <2>1, <2>2, <2>3 DEF ChildInv, TerminalLeavesNoChild, Unpublished
  <2>4. CASE rec.status \notin Terminal
    <3>1. rec.gen # g
      BY <2>1, <2>2, <2>4, CancelSpares
    <3>2. pc # "publish"
      BY <1>2, <2>2, <2>4, Bounds DEF RecordInv, LockInv
    <3>3. pc = "crashed"
      BY <1>3, <2>1, <3>1, <3>2 DEF ChildInv, ReachedInv, Tending
    <3> QED BY <1>1, <2>1, <2>2, <3>1, <3>3 DEF Unpublished
  <2> QED BY <2>3, <2>4
<1>7. AimInv'
  <2> SUFFICES ASSUME NEW d \in Cancellers PROVE Aims(d)'
    BY DEF AimInv
  <2>1. CASE d = c
    BY <2>1, CancelAims
  <2>2. CASE d # c
    <3>1. cpc'[d] = cpc[d] /\ target'[d] = target[d] /\ Aims(d)
      BY <1>1, <1>2, <2>2 DEF ChildInv, AimInv
    <3>2. cpc[d] \in Sealing => rec' = rec
      BY <1>2, <2>2, Bounds DEF RecordInv, LockInv, Holding
    <3>4. \A g \in Attempts : GroupRuns(g)' /\ rec'.gen = g => GroupRuns(g) /\ rec.gen = g
      BY <1>1, <1>3
    <3>3. cpc[d] \in WalReads \cup Rereads => Reached(view[d].gen)'
      BY <1>1, <1>2, <2>2, <3>1 DEF Aims, Reached
    <3>5. cpc[d] \in Urgent => target[d] \in Attempts /\ target[d] \in Nat /\ Reached(target[d])
      BY <3>1, Bounds DEF Aims
    <3>6. CASE cpc[d] \in Urgent
      <4>1. Reached(target[d])'
        BY <1>1, <3>1, <3>5, <3>6 DEF Reached
      <4>2. ~GroupRuns(target[d]) => ~GroupRuns(target[d])'
        BY <1>1, <3>1, <3>5, <3>6 DEF GroupRuns
      <4> QED BY <3>1, <3>2, <3>3, <3>5, <3>6, <4>1, <4>2 DEF Aims, Urgent, Sealing
    <3>7. CASE cpc[d] \notin Urgent
      BY <3>1, <3>2, <3>3, <3>4, <3>7 DEF Aims, Urgent, Sealing
    <3> QED BY <3>6, <3>7
  <2> QED BY <2>1, <2>2
<1> QED BY <1>4, <1>5, <1>6, <1>7 DEF ChildInv

LEMMA ChildStepLauncher ==
  ASSUME TypeInv, RecordInv, ReplyInv, ChildInv,
         \/ LauncherStep \/ SetupDeadline \/ SetupInterrupted \/ StopChild \/ PersistProgress
         \/ LauncherCrash \/ ProcessStep
         \/ OtherHolds \/ OtherReleases \/ OtherReplays \/ SealUnlaunched
  PROVE  ChildInv'
<1>1. /\ \A g \in Nat : Reached(g) => Reached(g)'
      /\ \A g \in Attempts : GroupRuns(g)' =>
           GroupRuns(g) \/ (g = attempt /\ pc = "admit" /\ ~LaunchRefused(View))
      /\ \A g \in Attempts : GroupRuns(g) /\ rec'.gen = g /\ LaunchRefused(View) => rec.gen = g
      /\ RunsInv' /\ ReachedInv' /\ TerminalLeavesNoChild'
  BY LauncherSpares
<1>2. /\ UNCHANGED <<cpc, target, view>>
      /\ \/ lock = "free" \/ pc = "publish"
         \/ UNCHANGED <<rec, wal>> \/ (wal = NoRecord /\ rec' = rec)
  <2>1. UNCHANGED <<target, view>>
    BY DEF LauncherStep, CreateWorktree, SetupCheck, SetupSpawn, SetupPublish, SetupReap,
      SetupClear, SetupVerdict, Admit, AdmitTimesOut, Publish, PublishFails, RecordFailure,
      RetryFailed, Reap, TerminateGroup, Retry, ComputeOutcome, FinalizeLocked, FinalizeUnlocked,
      WriteWal, Abort, SetWorktreeStatus, SetupDeadline, SetupInterrupted, StopChild,
      PersistProgress, LauncherCrash, OtherHolds, OtherReleases, OtherReplays, SealUnlaunched,
           ProcessStep, ChildExits, KidsExit, InitReaps, SetupExits
  <2> QED BY <2>1, LauncherWrites
<1>3. AimInv'
  <2> SUFFICES ASSUME NEW c \in Cancellers PROVE Aims(c)'
    BY DEF AimInv
  <2>1. Aims(c)
    BY DEF ChildInv, AimInv
  <2>2. cpc[c] \in Sealing => rec' = rec
    BY <1>2, Bounds DEF RecordInv, LockInv, Holding
  <2>6. cpc[c] \in WalReads \cup Rereads => Reached(view[c].gen)'
    BY <1>1, <1>2, <2>1 DEF Aims, TypeInv, TypeOK, CancelTypeOK, Records
  <2>3. CASE cpc[c] \in Urgent
    <3>1. target[c] \in Attempts /\ target[c] \in Nat /\ Reached(target[c])
      BY <2>1, <2>3, Bounds DEF Aims
    <3>2. Reached(target[c])'
      BY <1>1, <1>2, <3>1 DEF Reached
    <3>3. target[c] = attempt => pc # "admit"
      BY <3>1 DEF Reached, Launching
    <3>4. ~GroupRuns(target[c]) => ~GroupRuns(target[c])'
      BY <1>1, <1>2, <3>1, <3>3 DEF GroupRuns
    <3> QED BY <1>2, <2>1, <2>2, <2>3, <2>6, <3>1, <3>2, <3>4 DEF Aims, Urgent, Sealing
  <2>4. CASE cpc[c] = "selectSeal"
    BY <1>2, <2>1, <2>2, <2>4 DEF Aims, Urgent, WalReads, Rereads, Sealing
  <2>5. CASE cpc[c] \in {"kill", "settle", "settleLoad", "settleAct"}
    <3>1. LaunchRefused(View)
      BY <2>5 DEF ReplyInv, OwedInv, Owed, CancelSeen, LaunchRefused, Terminal
    <3>2. \A g \in Attempts : GroupRuns(g)' /\ rec'.gen = g => GroupRuns(g) /\ rec.gen = g
      BY <1>1, <3>1
    <3> QED BY <1>2, <2>1, <2>5, <3>2 DEF Aims, Urgent, WalReads, Rereads
  <2> QED BY <1>2, <2>3, <2>4, <2>5, <2>6 DEF Aims, Urgent
<1> QED BY <1>1, <1>3 DEF ChildInv

LEMMA ChildStep ==
  TypeInv /\ RecordInv /\ ReplyInv /\ ChildInv /\ [Next]_vars => ChildInv'
<1> SUFFICES ASSUME TypeInv, RecordInv, ReplyInv, ChildInv, [Next]_vars PROVE ChildInv'
  OBVIOUS
<1>1. CASE \E c \in Cancellers : CancelStep(c) \/ Begin(c) \/ CancellerCrash(c)
  BY <1>1, ChildStepCancel
<1>2. CASE \/ LauncherStep \/ SetupDeadline \/ SetupInterrupted \/ StopChild \/ PersistProgress
           \/ LauncherCrash \/ ProcessStep
           \/ OtherHolds \/ OtherReleases \/ OtherReplays \/ SealUnlaunched
  BY <1>2, ChildStepLauncher
<1>3. CASE UNCHANGED vars
  BY <1>3 DEF vars, ChildInv, RunsInv, ReachedInv, Reached, AimInv, Aims, TerminalLeavesNoChild,
              Unpublished, GroupRuns, View
<1> QED BY <1>1, <1>2, <1>3 DEF Next

LEMMA ChildAlways == Spec => []ChildInv
BY SpecInv, ReplyAlways, ChildInit, ChildStep, PTL DEF Spec

\* No outcome is ever on the record while the group it speaks of still runs,
\* but for the child of a launcher killed before it published it.
THEOREM OutcomesLeaveNoChild == Spec => []TerminalLeavesNoChild
<1>1. ChildInv => TerminalLeavesNoChild
  BY DEF ChildInv
<1> QED BY ChildAlways, <1>1, PTL

\* A retry never starts while anything of an earlier attempt runs.
THEOREM OneGenerationRuns == Spec => []OneLiveGeneration
<1>1. ChildInv => OneLiveGeneration
  BY DEF ChildInv, RunsInv, OneLiveGeneration
<1> QED BY ChildAlways, <1>1, PTL
=============================================================================
