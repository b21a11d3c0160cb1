----------------------- MODULE RunLifecycleRecordProofs -----------------------
(***************************************************************************)
(* What the functions on run records preserve, for every record; the typing  *)
(* of RunLifecycle for any number of cancel commands, attempts and           *)
(* selections, and for every combination of the failures it models; and      *)
(* what it does to the record readers get: one writer inside the lock at a   *)
(* time, at most one WAL, and every step a step of RunOutcome.               *)
(***************************************************************************)
EXTENDS RunLifecycleInv, TLAPS

-----------------------------------------------------------------------------
(* The functions on run records.                                            *)

\* An outcome a finalizer may publish: terminal, and cancelled if marked.
IsOutcome(r) == r.status \in Terminal /\ (r.marker => r.status = "cancelled")

\* Fresh records, stamped ones and cancelled ones are records.
LEMMA RecordTypes ==
  ASSUME NEW r \in Records, NEW s \in Statuses, NEW g \in 0..MaxAttempts
  PROVE  /\ Fresh(s, g) \in Records
         /\ NoRecord \in Records
         /\ Stamped(r) \in Records
         /\ Cancelled(r) \in Records
         /\ SignalTarget(r) \in Targets
<1>1. MaxAttempts \in Nat \ {0}
  BY AttemptsAssumption
<1>2. Fresh(s, g) \in Records
  BY DEF Records, Fresh
<1>3. NoRecord \in Records
  BY <1>1 DEF Records, Fresh, NoRecord, Statuses
<1>4. Stamped(r) \in Records
  BY DEF Records, Stamped
<1>5. Cancelled(r) \in Records
  BY DEF Records, Cancelled, Statuses, Terminal
<1>6. SignalTarget(r) \in Targets
  BY <1>1 DEF Records, SignalTarget, Targets, SetupGroup, NoTarget
<1> QED BY <1>2, <1>3, <1>4, <1>5, <1>6

\* _merge_terminal_record and the overlay every reader applies give a record.
LEMMA MergeType ==
  ASSUME NEW r \in Records, NEW p \in Records
  PROVE  MergeTerminal(r, p) \in Records /\ Overlay(r, p) \in Records
<1>1. MergeTerminal(r, p) \in Records
  BY AttemptsAssumption DEF MergeTerminal, Records, Statuses, Terminal, CancelSeen
<1> QED BY <1>1 DEF Overlay

\* A record that says cancelled, or is marked, says cancelled under any
\* outcome: a late success never survives a cancellation.
LEMMA MergeKeepsCancel ==
  ASSUME NEW r \in Records, NEW p \in Records, CancelSeen(r)
  PROVE  /\ CancelSeen(MergeTerminal(r, p))
         /\ MergeTerminal(r, p).status = "cancelled"
         /\ CancelSeen(Overlay(r, p))
BY DEF MergeTerminal, Overlay, CancelSeen, Records

\* A terminal record keeps its status under any outcome.
LEMMA MergeKeepsTerminal ==
  ASSUME NEW r \in Records, NEW p \in Records, r.status \in Terminal
  PROVE  /\ Overlay(r, p).status \in Terminal
         /\ Overlay(r, p).status \in {r.status, "cancelled"}
BY DEF MergeTerminal, Overlay, CancelSeen, Records, Terminal

\* Over a record that is not terminal, an outcome makes it terminal.
LEMMA MergeIsTerminal ==
  ASSUME NEW r \in Records, NEW p \in Records, p.status \in Terminal
  PROVE  /\ MergeTerminal(r, p).status \in Terminal
         /\ Overlay(r, p) = MergeTerminal(r, p)
BY DEF MergeTerminal, Overlay, CancelSeen, Records, Terminal, NoRecord, Fresh

\* Folding a WAL twice is folding it once: a lock holder killed between
\* publishing the merged record and unlinking the WAL harms nobody, which is
\* why the model's Reconcile may be one step.
THEOREM FoldTwice ==
  ASSUME NEW r \in Records, NEW p \in Records, IsOutcome(p)
  PROVE  Overlay(Overlay(r, p), p) = Overlay(r, p)
<1>1. CASE p = NoRecord
  BY <1>1 DEF Overlay
<1>2. CASE p # NoRecord
  <2> DEFINE m == MergeTerminal(r, p)
  <2>1. Overlay(r, p) = m /\ Overlay(m, p) = MergeTerminal(m, p)
    BY <1>2 DEF Overlay
  <2>2. CASE CancelSeen(r)
    <3>1. m = [status |-> "cancelled", marker |-> r.marker \/ p.marker,
               gen |-> IF p.gen # 0 THEN p.gen ELSE r.gen,
               setup |-> r.setup \/ p.setup]
      BY <2>2 DEF MergeTerminal
    <3>2. CancelSeen(m)
      BY <3>1 DEF CancelSeen
    <3>3. /\ m.marker \/ p.marker <=> m.marker
          /\ m.setup \/ p.setup <=> m.setup
          /\ (IF p.gen # 0 THEN p.gen ELSE m.gen) = m.gen
          /\ {m.marker, m.setup, r.marker, r.setup, p.marker, p.setup} \subseteq BOOLEAN
      BY <3>1 DEF Records
    <3>4. MergeTerminal(m, p) = [status |-> "cancelled", marker |-> m.marker,
                                 gen |-> m.gen, setup |-> m.setup]
      BY <3>2, <3>3, Zenon DEF MergeTerminal
    <3>5. m = [status |-> "cancelled", marker |-> m.marker,
               gen |-> m.gen, setup |-> m.setup]
      BY <3>1
    <3> QED BY <2>1, <3>4, <3>5
  <2>3. CASE ~CancelSeen(r) /\ r.status \in Terminal
    BY <2>1, <2>3 DEF MergeTerminal
  <2>4. CASE ~CancelSeen(r) /\ r.status \notin Terminal
    <3>1. m = p
      BY <2>4 DEF MergeTerminal
    <3>2. CASE CancelSeen(p)
      <4>1. p.status = "cancelled"
        BY <3>2 DEF IsOutcome, CancelSeen
      <4>2. MergeTerminal(p, p) = p
        BY <3>2, <4>1 DEF MergeTerminal, Records
      <4> QED BY <2>1, <3>1, <4>2
    <3>3. CASE ~CancelSeen(p)
      BY <2>1, <3>1, <3>3 DEF MergeTerminal, IsOutcome
    <3> QED BY <3>2, <3>3
  <2> QED BY <2>2, <2>3, <2>4
<1> QED BY <1>1, <1>2

USE DEF record, launcher, processes, cancelling

-----------------------------------------------------------------------------
(* Typing.                                                                  *)

\* What readers see is a record.
LEMMA ViewType == TypeOK => View \in Records
BY MergeType DEF TypeOK, RecordTypeOK, View

\* The records the actions write are records.
LEMMA WrittenTypes ==
  /\ NoRecord \in Records
  /\ \A s \in Statuses, g \in 0..MaxAttempts : Fresh(s, g) \in Records
  /\ \A r \in Records : /\ Stamped(r) \in Records
                        /\ Cancelled(r) \in Records
                        /\ SignalTarget(r) \in Targets
                        /\ \A b \in BOOLEAN : /\ [r EXCEPT !.setup = b] \in Records
                                              /\ [r EXCEPT !.marker = b] \in Records
<1>1. 0 \in 0..MaxAttempts /\ "none" \in Statuses
  BY AttemptsAssumption DEF Statuses
<1>2. \A r \in Records, b \in BOOLEAN : /\ [r EXCEPT !.setup = b] \in Records
                                        /\ [r EXCEPT !.marker = b] \in Records
  BY DEF Records
<1>3. \A r \in Records, s \in Statuses, g \in 0..MaxAttempts :
         Fresh(s, g) \in Records /\ Stamped(r) \in Records
         /\ Cancelled(r) \in Records /\ SignalTarget(r) \in Targets
  BY RecordTypes
<1>4. NoRecord \in Records /\ \A s \in Statuses, g \in 0..MaxAttempts : Fresh(s, g) \in Records
  BY <1>1, AttemptsAssumption DEF NoRecord, Records, Fresh, Statuses
<1> QED BY <1>1, <1>2, <1>3, <1>4

\* Constants the typing rests on.
LEMMA Bounds ==
  /\ MaxAttempts \in Nat /\ 1 \in Attempts /\ Attempts \subseteq Nat \ {0}
  /\ Attempts = 1..MaxAttempts
  /\ MaxSelections \in Nat \ {0}
  /\ Kinds \subseteq LaunchKinds
  /\ \A c \in Cancellers : c \notin {"free", "launcher", "other"}
  /\ NoTarget \in Targets /\ Attempts \subseteq Targets
  /\ SetupGroup \in Targets
BY AttemptsAssumption, ConstantsAssumption
   DEF Attempts, LaunchKinds, NoTarget, Targets, SetupGroup

\* The status a finalizer reports is terminal.
LEMMA FinalTypes ==
  ASSUME TypeOK, NEW r \in Records, outcome \in Terminal
  PROVE  FinalStatus(r) \in Terminal /\ FinalRecord(r) \in Records
<1>1. FinalStatus(r) \in Terminal
  BY DEF FinalStatus, AlreadyFinal, Terminal
<1>2. (IF pc \in {"finalize", "finalizeWal"} THEN attempt ELSE 0) \in 0..MaxAttempts
  BY Bounds DEF TypeOK, LauncherTypeOK
<1>3. Fresh(FinalStatus(r), IF pc \in {"finalize", "finalizeWal"}
                            THEN attempt ELSE 0) \in Records
  BY <1>1, <1>2, WrittenTypes DEF Statuses
<1> QED BY <1>1, <1>3, MergeType DEF FinalRecord

\* Every phase of cancel that waits for the lock goes on to load and to act.
LEMMA PhaseTypes == LoadOf \in [Waits -> Loads] /\ ActOf \in [Loads -> Acts]
BY DEF LoadOf, ActOf, Waits, Loads, Acts

\* The ways a cancel command moves on keep its variables typed.
LEMMA MotionTypes ==
  ASSUME CancelTypeOK, NEW c \in Cancellers, NEW w \in CancelPCs,
         NEW g \in Targets, NEW a \in Replies
  PROVE  /\ GoTo(c, w) => CancelTypeOK'
         /\ Onward(c, w, g) => CancelTypeOK'
         /\ Stop(c, w, a) => CancelTypeOK'
         /\ SelectAgain(c, g) => CancelTypeOK'
<1> USE DEF CancelTypeOK
<1>1. GoTo(c, w) => CancelTypeOK'
  BY DEF GoTo
<1>2. NoRecord \in Records /\ "none" \in Statuses
  BY WrittenTypes DEF Statuses
<1>3. Onward(c, w, g) => CancelTypeOK'
  BY <1>2 DEF Onward
<1>4. MaxSelections \in 1..MaxSelections /\ NoTarget \in Targets
  BY Bounds
<1>5. Stop(c, w, a) => CancelTypeOK'
  BY <1>2, <1>4 DEF Stop
<1>6. SelectAgain(c, g) => CancelTypeOK'
  <2>1. CASE selections[c] = 1
    BY <1>2, <1>4, <2>1 DEF SelectAgain, Answer, Stop, CancelPCs, Replies
  <2>2. CASE selections[c] # 1
    <3>1. selections[c] - 1 \in 1..MaxSelections /\ "mark" \in CancelPCs
      BY <2>2, Bounds DEF CancelPCs, Waits
    <3> QED BY <1>2, <2>2, <3>1 DEF SelectAgain
  <2> QED BY <2>1, <2>2
<1> QED BY <1>1, <1>3, <1>5, <1>6

\* A look of a read without the lock moves that read on, and nothing else.
LEMMA LookMoves ==
  ASSUME TypeOK, NEW c \in Cancellers, LookAtRecord(c) \/ LookAtWal(c)
  PROVE  /\ CancelTypeOK'
         /\ UNCHANGED <<record, kind, launcher, processes, target, selections, seen, reply>>
         /\ cpc[c] \in Reads \cup WalReads
         /\ cpc'[c] = ReadOn[cpc[c]] /\ cpc'[c] \in WalReads \cup Rereads
         /\ \A d \in Cancellers \ {c} : cpc'[d] = cpc[d] /\ view'[d] = view[d]
<1>1. ReadOn \in [Reads \cup WalReads -> WalReads \cup Rereads]
  BY DEF ReadOn, Reads, WalReads, Rereads
<1>2. cpc[c] \in Reads \cup WalReads /\ ReadOn[cpc[c]] \in WalReads \cup Rereads
  BY <1>1 DEF LookAtRecord, LookAtWal, Reading
<1>3. /\ UNCHANGED <<record, kind, launcher, processes, target, selections, seen, reply>>
      /\ cpc' = [cpc EXCEPT ![c] = ReadOn[cpc[c]]]
      /\ \E file \in Records : view' = [view EXCEPT ![c] = file]
  BY DEF LookAtRecord, LookAtWal, Reading, TypeOK, RecordTypeOK
<1> QED BY <1>2, <1>3 DEF TypeOK, CancelTypeOK, CancelPCs

\* What a read without the lock comes back with is a record.
LEMMA GotType ==
  ASSUME TypeOK, NEW c \in Cancellers
  PROVE  Got(c) \in Records /\ Got(c).gen \in Targets
<1>1. Got(c) \in Records
  BY MergeType DEF Got, TypeOK, RecordTypeOK, CancelTypeOK
<1> QED BY <1>1, Bounds DEF Records, Targets

\* The end of such a read decides where its command goes, and nothing else.
LEMMA ReadMoves ==
  ASSUME TypeOK, NEW c \in Cancellers, UrgentRead(c) \/ UrgentRecheck(c)
  PROVE  /\ cpc[c] \in WalReads \cup Rereads
         /\ cpc'[c] \in {"done", "urgentRecheck", "urgentKill"}
         /\ reply'[c] # "cancelled" \/ reply' = reply
         /\ UNCHANGED <<record, kind, launcher, processes>>
         /\ \A d \in Cancellers \ {c} : /\ cpc'[d] = cpc[d] /\ view'[d] = view[d]
                                       /\ seen'[d] = seen[d] /\ reply'[d] = reply[d]
                                       /\ target'[d] = target[d]
<1>1. /\ cpc[c] \in WalReads \cup Rereads
      /\ UNCHANGED <<record, kind, launcher, processes>>
  BY DEF UrgentRead, UrgentRecheck, ReadEnds, At, WalReads, Rereads
<1>2. \/ \E a \in {"alreadyTerminal", "lockBusy", "targetChanged"} : Stop(c, "done", a)
      \/ \E w \in {"urgentRecheck", "urgentKill"}, g \in Targets : Onward(c, w, g)
  BY GotType DEF UrgentRead, UrgentRecheck, Answer, TypeOK, CancelTypeOK
<1> QED BY <1>1, <1>2 DEF Stop, Onward, TypeOK, CancelTypeOK

\* Every step of a cancel command keeps its variables typed.
LEMMA CancelTypes ==
  ASSUME TypeOK, NEW c \in Cancellers, CancelStep(c) \/ Begin(c) \/ CancellerCrash(c)
  PROVE  CancelTypeOK'
<1>1. CancelTypeOK /\ "none" \in Replies
  BY DEF TypeOK, Replies
<1>2. ASSUME NEW w \in CancelPCs, NEW g \in Targets, NEW a \in Replies,
             \/ GoTo(c, w) \/ Onward(c, w, g) \/ Stop(c, w, a) \/ SelectAgain(c, g)
      PROVE  CancelTypeOK'
  BY <1>1, <1>2, MotionTypes
<1>3. /\ SignalTarget(view[c]) \in Targets /\ target[c] \in Targets
      /\ Got(c).gen \in Targets /\ NoTarget \in Targets
  BY <1>1, GotType, WrittenTypes, Bounds DEF CancelTypeOK, Records, Targets
<1>4. CASE Begin(c)
  BY <1>1, <1>2, <1>3, <1>4 DEF Begin, Answer, At, CancelPCs, Waits, Loads, Acts, Sealing, Reads, Replies
<1>5. CASE Enter(c)
  <2>1. LoadOf[cpc[c]] \in CancelPCs
    BY <1>5, PhaseTypes DEF Enter, CancelPCs
  <2> QED BY <1>1, <1>2, <1>3, <1>5, <2>1 DEF Enter
<1>6. CASE Load(c)
  <2>1. ActOf[cpc[c]] \in CancelPCs
    BY <1>6, PhaseTypes DEF Load, CancelPCs
  <2>2. Effective(View, AlivePids) \in Statuses \cup {"stale"}
    BY ViewType DEF Effective, Records
  <2> QED BY <1>1, <1>6, <2>1, <2>2, ViewType DEF Load, CancelTypeOK
<1>7. CASE GivesUpOnLock(c)
  BY <1>1, <1>2, <1>3, <1>7 DEF GivesUpOnLock, Answer, At, CancelPCs, Waits, Loads, Acts, Sealing, Reads, Replies
<1>8. CASE SelectStale(c)
  BY <1>1, <1>2, <1>3, <1>8 DEF SelectStale, Answer, At, CancelPCs, Waits, Loads, Acts, Sealing, Reads, Replies
<1>9. CASE SelectTerminal(c)
  BY <1>1, <1>2, <1>3, <1>9 DEF SelectTerminal, Answer, At, CancelPCs, Waits, Loads, Acts, Sealing, Reads, Replies
<1>10. CASE SelectUnpublished(c)
  BY <1>1, <1>2, <1>3, <1>10 DEF SelectUnpublished, Answer, At, CancelPCs, Waits, Loads, Acts, Sealing, Reads, Replies
<1>11. CASE Seal(c)
  BY <1>1, <1>2, <1>3, <1>11 DEF Seal, Answer, At, CancelPCs, Waits, Loads, Acts, Sealing, Reads, Replies
<1>12. CASE SelectTarget(c)
  BY <1>1, <1>2, <1>3, <1>12 DEF SelectTarget, Answer, At, CancelPCs, Waits, Loads, Acts, Sealing, Reads, Replies
<1>13. CASE MarkSettled(c)
  BY <1>1, <1>2, <1>3, <1>13 DEF MarkSettled, Answer, At, CancelPCs, Waits, Loads, Acts, Sealing, Reads, Replies
<1>14. CASE MarkSetupEnded(c)
  BY <1>1, <1>2, <1>3, <1>14 DEF MarkSetupEnded, Answer, At, CancelPCs, Waits, Loads, Acts, Sealing, Reads, Replies
<1>15. CASE MarkRetarget(c)
  BY <1>1, <1>2, <1>3, <1>15 DEF MarkRetarget, Answer, At, CancelPCs, Waits, Loads, Acts, Sealing, Reads, Replies
<1>16. CASE Mark(c)
  BY <1>1, <1>2, <1>3, <1>16 DEF Mark, Answer, At, CancelPCs, Waits, Loads, Acts, Sealing, Reads, Replies
<1>17. CASE Kill(c)
  BY <1>1, <1>2, <1>3, <1>17 DEF Kill, Answer, At, CancelPCs, Waits, Loads, Acts, Sealing, Reads, Replies
<1>18. CASE Settle(c)
  BY <1>1, <1>2, <1>3, <1>18 DEF Settle, Answer, At, CancelPCs, Waits, Loads, Acts, Sealing, Reads, Replies
<1>19. CASE UrgentRead(c)
  BY <1>1, <1>2, <1>3, <1>19 DEF UrgentRead, Answer, At, CancelPCs, Waits, Loads, Acts, Sealing, Reads, Replies
<1>20. CASE UrgentRecheck(c)
  BY <1>1, <1>2, <1>3, <1>20 DEF UrgentRecheck, Answer, At, CancelPCs, Waits, Loads, Acts, Sealing, Reads, Replies
<1>21. CASE UrgentKill(c)
  BY <1>1, <1>2, <1>3, <1>21 DEF UrgentKill, Answer, At, CancelPCs, Waits, Loads, Acts, Sealing, Reads, Replies
<1>22. CASE UrgentRecord(c)
  BY <1>1, <1>2, <1>3, <1>22 DEF UrgentRecord, Answer, At, CancelPCs, Waits, Loads, Acts, Sealing, Reads, Replies
<1>23. CASE CancellerCrash(c)
  BY <1>1, <1>2, <1>3, <1>23 DEF CancellerCrash, Answer, At, CancelPCs, Waits, Loads, Acts, Sealing, Reads, Replies
<1>24. CASE LookAtRecord(c) \/ LookAtWal(c)
  BY <1>24, LookMoves
<1> QED BY <1>24, <1>4, <1>5, <1>6, <1>7, <1>8, <1>9, <1>10, <1>11, <1>12, <1>13, <1>14, <1>15, <1>16, <1>17, <1>18, <1>19, <1>20, <1>21, <1>22, <1>23 DEF CancelStep

\* ... and the record typed, and everybody else's variables as they are.
LEMMA CancelRecordTypes ==
  ASSUME TypeOK, NEW c \in Cancellers, CancelStep(c) \/ Begin(c) \/ CancellerCrash(c)
  PROVE  /\ RecordTypeOK'
         /\ UNCHANGED <<kind, launcher>>
         /\ ProcessTypeOK'
<1> USE DEF TypeOK, RecordTypeOK, ProcessTypeOK
<1>1. View \in Records /\ view[c] \in Records
  BY ViewType DEF CancelTypeOK
<1>2. CASE Begin(c)
  BY <1>1, <1>2, WrittenTypes DEF Begin, Reconcile, WriteAndRelease, Release
<1>3. CASE Enter(c)
  BY <1>1, <1>3, WrittenTypes DEF Enter, Reconcile, WriteAndRelease, Release
<1>4. CASE Load(c)
  BY <1>1, <1>4, WrittenTypes DEF Load, Reconcile, WriteAndRelease, Release
<1>5. CASE GivesUpOnLock(c)
  BY <1>1, <1>5, WrittenTypes DEF GivesUpOnLock, Reconcile, WriteAndRelease, Release
<1>6. CASE SelectStale(c)
  BY <1>1, <1>6, WrittenTypes DEF SelectStale, Reconcile, WriteAndRelease, Release
<1>7. CASE SelectTerminal(c)
  BY <1>1, <1>7, WrittenTypes DEF SelectTerminal, Reconcile, WriteAndRelease, Release
<1>8. CASE SelectUnpublished(c)
  BY <1>1, <1>8, WrittenTypes DEF SelectUnpublished, Reconcile, WriteAndRelease, Release
<1>9. CASE Seal(c)
  BY <1>1, <1>9, WrittenTypes DEF Seal, Reconcile, WriteAndRelease, Release
<1>10. CASE SelectTarget(c)
  BY <1>1, <1>10, WrittenTypes DEF SelectTarget, Reconcile, WriteAndRelease, Release
<1>11. CASE MarkSettled(c)
  BY <1>1, <1>11, WrittenTypes DEF MarkSettled, Reconcile, WriteAndRelease, Release
<1>12. CASE MarkSetupEnded(c)
  BY <1>1, <1>12, WrittenTypes DEF MarkSetupEnded, Reconcile, WriteAndRelease, Release
<1>13. CASE MarkRetarget(c)
  BY <1>1, <1>13, WrittenTypes DEF MarkRetarget, Reconcile, WriteAndRelease, Release
<1>14. CASE Mark(c)
  BY <1>1, <1>14, WrittenTypes DEF Mark, Reconcile, WriteAndRelease, Release
<1>15. CASE Kill(c)
  BY <1>1, <1>15, WrittenTypes DEF Kill, Reconcile, WriteAndRelease, Release, SignalGroup, Attempts
<1>16. CASE Settle(c)
  BY <1>1, <1>16, WrittenTypes DEF Settle, Reconcile, WriteAndRelease, Release
<1>17. CASE UrgentRead(c)
  BY <1>1, <1>17, WrittenTypes DEF UrgentRead, Reconcile, WriteAndRelease, Release
<1>18. CASE UrgentRecheck(c)
  BY <1>1, <1>18, WrittenTypes DEF UrgentRecheck, Reconcile, WriteAndRelease, Release
<1>19. CASE UrgentKill(c)
  BY <1>1, <1>19, WrittenTypes DEF UrgentKill, Reconcile, WriteAndRelease, Release, SignalGroup, Attempts
<1>20. CASE UrgentRecord(c)
  BY <1>1, <1>20, WrittenTypes DEF UrgentRecord, Reconcile, WriteAndRelease, Release
<1>21. CASE CancellerCrash(c)
  BY <1>1, <1>21, WrittenTypes DEF CancellerCrash, Reconcile, WriteAndRelease, Release
<1>22. CASE LookAtRecord(c) \/ LookAtWal(c)
  BY <1>22, LookMoves
<1> QED BY <1>22, <1>2, <1>3, <1>4, <1>5, <1>6, <1>7, <1>8, <1>9, <1>10, <1>11, <1>12, <1>13, <1>14, <1>15, <1>16, <1>17, <1>18, <1>19, <1>20, <1>21 DEF CancelStep
\* Every step of the launcher, of its processes and of the rest of the
\* workspace keeps everything but the cancel commands typed.
LEMMA LauncherTypes ==
  ASSUME TypeOK, LauncherInv,
         \/ LauncherStep \/ SetupDeadline \/ SetupInterrupted \/ StopChild \/ PersistProgress \/ LauncherCrash
         \/ ProcessStep
         \/ OtherHolds \/ OtherReleases \/ OtherReplays \/ SealUnlaunched
  PROVE  /\ RecordTypeOK' /\ LauncherTypeOK' /\ ProcessTypeOK' /\ LauncherInv'
         /\ UNCHANGED cancelling
<1> USE DEF TypeOK, RecordTypeOK, LauncherTypeOK, ProcessTypeOK, LauncherInv, LauncherPCs
<1>0. attempt \in 0..MaxAttempts /\ Fresh("running", attempt) \in Records
  <2>1. attempt \in 0..MaxAttempts
    BY Bounds
  <2> QED BY <2>1, WrittenTypes DEF Statuses
<1> USE ViewType, WrittenTypes, Bounds
<1>1. CASE CreateWorktree
  BY <1>1 DEF CreateWorktree, Terminal
<1>2. CASE SetupCheck
  BY <1>2 DEF SetupCheck, Hold, Reconcile, LockTimesOut
<1>3. CASE SetupSpawn
  BY <1>3 DEF SetupSpawn
<1>4. CASE SetupPublish
  BY <1>4 DEF SetupPublish, Hold, LockTimesOut
<1>5. CASE SetupReap
  BY <1>5 DEF SetupReap
<1>6. CASE SetupClear
  BY <1>6 DEF SetupClear, Hold, LockTimesOut
<1>7. CASE SetupVerdict
  BY <1>7 DEF SetupVerdict, Hold, Reconcile, LockTimesOut, Terminal
<1>8. CASE Admit
  BY <1>8 DEF Admit, Reconcile, LaunchLost
<1>9. CASE AdmitTimesOut
  BY <1>9 DEF AdmitTimesOut, LaunchLost
<1>10. CASE Publish
  BY <1>0, <1>10 DEF Publish, LaunchLost
<1>11. CASE PublishFails
  BY <1>0, <1>11 DEF PublishFails
<1>12. CASE RecordFailure
  BY <1>12 DEF RecordFailure, Hold, LaunchLost, Statuses, Terminal
<1>13. CASE RetryFailed
  <2>1. attempt - 1 \in Attempts
    BY <1>13 DEF RetryFailed
  <2> QED BY <1>13, <2>1 DEF RetryFailed, Terminal
<1>14. CASE Reap
  BY <1>14 DEF Reap
<1>15. CASE TerminateGroup
  BY <1>15 DEF TerminateGroup
<1>16. CASE Retry
  BY <1>16 DEF Retry
<1>17. CASE ComputeOutcome
  BY <1>17 DEF ComputeOutcome, Terminal
<1>18. CASE FinalizeLocked
  BY <1>18, FinalTypes DEF FinalizeLocked, Hold, AfterFinal
<1>19. CASE FinalizeUnlocked
  BY <1>19 DEF FinalizeUnlocked
<1>20. CASE WriteWal
  BY <1>20, FinalTypes DEF WriteWal, AfterFinal
<1>21. CASE Abort
  BY <1>21 DEF Abort, Terminal
<1>22. CASE SetWorktreeStatus
  BY <1>22 DEF SetWorktreeStatus, Hold, Reconcile
<1>23. CASE SetupDeadline
  BY <1>23 DEF SetupDeadline
<1>interrupted. CASE SetupInterrupted
  BY <1>interrupted DEF SetupInterrupted
<1>24. CASE StopChild
  BY <1>24 DEF StopChild
<1>25. CASE PersistProgress
  <2>1. Fresh("running", attempt) \in Records /\ View.marker \in BOOLEAN
    BY <1>0 DEF Records
  <2>2. [Fresh("running", attempt) EXCEPT !.marker = View.marker] \in Records
    BY <2>1
  <2> QED BY <1>25, <2>2 DEF PersistProgress, Hold
<1>26. CASE LauncherCrash
  BY <1>26 DEF LauncherCrash
<1>27. CASE ProcessStep
  BY <1>27 DEF ProcessStep, ChildExits, KidsExit, InitReaps, SetupExits
<1>28. CASE OtherHolds
  BY <1>28 DEF OtherHolds
<1>29. CASE OtherReleases
  BY <1>29 DEF OtherReleases
<1>30. CASE OtherReplays
  BY <1>30 DEF OtherReplays, Hold, Reconcile
<1>31. CASE SealUnlaunched
  BY <1>31 DEF SealUnlaunched, Hold
<1> QED BY <1>1, <1>2, <1>3, <1>4, <1>5, <1>6, <1>7, <1>8, <1>9, <1>10, <1>11, <1>12, <1>13, <1>14, <1>15, <1>16, <1>17, <1>18, <1>19, <1>20, <1>21, <1>22, <1>23, <1>interrupted, <1>24, <1>25, <1>26, <1>27, <1>28, <1>29, <1>30, <1>31 DEF LauncherStep

TypeInv == TypeOK /\ LauncherInv

LEMMA TypeInit == Init => TypeInv
<1> SUFFICES ASSUME Init PROVE TypeInv
  OBVIOUS
<1> USE WrittenTypes, Bounds DEF Init
<1>1. RecordTypeOK
  BY DEF RecordTypeOK, Statuses
<1>2. LauncherTypeOK /\ LauncherInv
  BY DEF LauncherTypeOK, LauncherInv, LauncherPCs
<1>3. ProcessTypeOK
  BY DEF ProcessTypeOK
<1>4. CancelTypeOK
  BY DEF CancelTypeOK, CancelPCs, Statuses, Replies
<1> QED BY <1>1, <1>2, <1>3, <1>4 DEF TypeInv, TypeOK

LEMMA TypeStep == TypeInv /\ [Next]_vars => TypeInv'
<1> SUFFICES ASSUME TypeInv, [Next]_vars PROVE TypeInv'
  OBVIOUS
<1> USE DEF TypeInv
<1>1. CASE \E c \in Cancellers : CancelStep(c) \/ Begin(c) \/ CancellerCrash(c)
  <2>1. CancelTypeOK' /\ RecordTypeOK' /\ ProcessTypeOK' /\ UNCHANGED <<kind, launcher>>
    BY <1>1, CancelTypes, CancelRecordTypes
  <2> QED BY <2>1 DEF TypeOK, LauncherTypeOK, LauncherInv
<1>2. CASE \/ LauncherStep \/ SetupDeadline \/ SetupInterrupted \/ StopChild \/ PersistProgress
           \/ LauncherCrash \/ ProcessStep
           \/ OtherHolds \/ OtherReleases \/ OtherReplays \/ SealUnlaunched
  <2>1. /\ RecordTypeOK' /\ LauncherTypeOK' /\ ProcessTypeOK' /\ LauncherInv'
        /\ UNCHANGED cancelling
    BY <1>2, LauncherTypes
  <2> QED BY <2>1 DEF TypeOK, CancelTypeOK
<1>3. CASE UNCHANGED vars
  BY <1>3 DEF vars, TypeOK, RecordTypeOK, LauncherTypeOK, ProcessTypeOK,
              CancelTypeOK, LauncherInv
<1> QED BY <1>1, <1>2, <1>3 DEF Next

\* Every variable keeps its type in every behaviour.
THEOREM TypeCorrect == Spec => []TypeOK
<1>1. TypeInv => TypeOK
  BY DEF TypeInv
<1> QED BY TypeInit, TypeStep, <1>1, PTL DEF Spec

-----------------------------------------------------------------------------
(* Mutual exclusion.                                                        *)

\* Moving on changes only where this cancel command is.
LEMMA LockStepCancel ==
  ASSUME TypeInv, LockInv, NEW c \in Cancellers,
         CancelStep(c) \/ Begin(c) \/ CancellerCrash(c)
  PROVE  LockInv'
<1> USE Bounds DEF LockInv, Holding, TypeInv, TypeOK, RecordTypeOK, CancelTypeOK
<1> DEFINE Inside == Loads \cup Acts \cup Sealing
<1>21. ASSUME cpc[c] \in Inside, lock' = "free", UNCHANGED pc,
              \E w \in {"done", "mark", "settle", "kill"} : cpc' = [cpc EXCEPT ![c] = w]
       PROVE  LockInv'
  BY <1>21 DEF Loads, Acts, Sealing
<1>22. ASSUME cpc[c] \in Inside, lock' = lock, UNCHANGED pc,
              \E w \in Inside : cpc' = [cpc EXCEPT ![c] = w]
       PROVE  LockInv'
  BY <1>22
<1>1. CASE Begin(c)
  BY <1>1 DEF Begin, At, GoTo, Onward, Stop, Answer, SelectAgain, Release, WriteAndRelease, Waits, Loads, Acts, Sealing
<1>2. CASE Enter(c)
  BY <1>2, PhaseTypes DEF Enter, At, GoTo, Onward, Stop, Answer, SelectAgain, Release, WriteAndRelease, Waits, Loads, Acts, Sealing
<1>3. CASE Load(c)
  BY <1>3, PhaseTypes DEF Load, At, GoTo, Onward, Stop, Answer, SelectAgain, Release, WriteAndRelease, Waits, Loads, Acts, Sealing
<1>4. CASE GivesUpOnLock(c)
  BY <1>4 DEF GivesUpOnLock, At, GoTo, Onward, Stop, Answer, SelectAgain, Release, WriteAndRelease, Waits, Loads, Acts, Sealing
<1>5. CASE SelectStale(c)
  <2>1. cpc[c] \in Inside /\ lock' = "free" /\ UNCHANGED pc
    BY <1>5 DEF SelectStale, At, Acts, Release, WriteAndRelease
  <2>2. \E w \in {"done", "mark", "settle", "kill"} : cpc' = [cpc EXCEPT ![c] = w]
    BY <1>5 DEF SelectStale, Answer, Stop, Onward, SelectAgain
  <2> QED BY <1>21, <2>1, <2>2
<1>6. CASE SelectTerminal(c)
  BY <1>6 DEF SelectTerminal, At, GoTo, Onward, Stop, Answer, SelectAgain, Release, WriteAndRelease, Waits, Loads, Acts, Sealing
<1>7. CASE SelectUnpublished(c)
  <2>1. cpc[c] \in Inside /\ UNCHANGED pc
    BY <1>7 DEF SelectUnpublished, At, Acts
  <2>2. \/ lock' = "free" /\ cpc' = [cpc EXCEPT ![c] = "done"]
        \/ lock' = lock /\ cpc' = [cpc EXCEPT ![c] = "selectSeal"]
    BY <1>7 DEF SelectUnpublished, Answer, Stop, GoTo, Release, WriteAndRelease
  <2>3. "selectSeal" \in Inside
    BY DEF Sealing
  <2> QED BY <1>21, <1>22, <2>1, <2>2, <2>3
<1>8. CASE Seal(c)
  BY <1>8 DEF Seal, At, GoTo, Onward, Stop, Answer, SelectAgain, Release, WriteAndRelease, Waits, Loads, Acts, Sealing
<1>9. CASE SelectTarget(c)
  BY <1>9 DEF SelectTarget, At, GoTo, Onward, Stop, Answer, SelectAgain, Release, WriteAndRelease, Waits, Loads, Acts, Sealing
<1>10. CASE MarkSettled(c)
  BY <1>10 DEF MarkSettled, At, GoTo, Onward, Stop, Answer, SelectAgain, Release, WriteAndRelease, Waits, Loads, Acts, Sealing
<1>11. CASE MarkSetupEnded(c)
  BY <1>11 DEF MarkSetupEnded, At, GoTo, Onward, Stop, Answer, SelectAgain, Release, WriteAndRelease, Waits, Loads, Acts, Sealing
<1>12. CASE MarkRetarget(c)
  <2>1. cpc[c] \in Inside /\ lock' = "free" /\ UNCHANGED pc
    BY <1>12 DEF MarkRetarget, At, Acts, Release, WriteAndRelease
  <2>2. \E w \in {"done", "mark", "settle", "kill"} : cpc' = [cpc EXCEPT ![c] = w]
    BY <1>12 DEF MarkRetarget, Answer, Stop, Onward, SelectAgain
  <2> QED BY <1>21, <2>1, <2>2
<1>13. CASE Mark(c)
  <2>1. cpc[c] \in Inside /\ lock' = "free" /\ UNCHANGED pc
    BY <1>13 DEF Mark, At, Acts, Release, WriteAndRelease
  <2>2. \E w \in {"done", "mark", "settle", "kill"} : cpc' = [cpc EXCEPT ![c] = w]
    BY <1>13 DEF Mark, Answer, Stop, Onward, SelectAgain
  <2> QED BY <1>21, <2>1, <2>2
<1>14. CASE Kill(c)
  BY <1>14 DEF Kill, At, GoTo, Onward, Stop, Answer, SelectAgain, Release, WriteAndRelease, Waits, Loads, Acts, Sealing
<1>15. CASE Settle(c)
  <2>1. cpc[c] \in Inside /\ lock' = "free" /\ UNCHANGED pc
    BY <1>15 DEF Settle, At, Acts, Release, WriteAndRelease
  <2>2. \E w \in {"done", "mark", "settle", "kill"} : cpc' = [cpc EXCEPT ![c] = w]
    BY <1>15 DEF Settle, Answer, Stop, Onward, SelectAgain
  <2> QED BY <1>21, <2>1, <2>2
<1>23. ASSUME lock' = lock, UNCHANGED pc, cpc[c] \notin Inside, cpc'[c] \notin Inside,
              \A d \in Cancellers \ {c} : cpc'[d] = cpc[d]
       PROVE  LockInv'
  BY <1>23
<1>16. CASE UrgentRead(c) \/ UrgentRecheck(c)
  BY <1>16, <1>23, ReadMoves DEF Loads, Acts, Sealing, WalReads, Rereads
<1>17. CASE LookAtRecord(c) \/ LookAtWal(c)
  BY <1>17, <1>23, LookMoves DEF Loads, Acts, Sealing, Reads, WalReads, Rereads
<1>18. CASE UrgentKill(c)
  BY <1>18 DEF UrgentKill, At, GoTo, Onward, Stop, Answer, SelectAgain, Release, WriteAndRelease, Waits, Loads, Acts, Sealing
<1>19. CASE UrgentRecord(c)
  <2>1. cpc[c] \in Inside /\ UNCHANGED pc
    BY <1>19 DEF UrgentRecord, At, Acts
  <2>2. \/ lock' = "free" /\ cpc' = [cpc EXCEPT ![c] = "done"]
        \/ lock' = lock /\ cpc' = [cpc EXCEPT ![c] = "recordSeal"]
    BY <1>19 DEF UrgentRecord, Answer, Stop, GoTo, Release, WriteAndRelease
  <2>3. "recordSeal" \in Inside
    BY DEF Sealing
  <2> QED BY <1>21, <1>22, <2>1, <2>2, <2>3
<1>20. CASE CancellerCrash(c)
  BY <1>20 DEF CancellerCrash, At, GoTo, Onward, Stop, Answer, SelectAgain, Release, WriteAndRelease, Waits, Loads, Acts, Sealing
<1> QED BY <1>1, <1>2, <1>3, <1>4, <1>5, <1>6, <1>7, <1>8, <1>9, <1>10, <1>11, <1>12, <1>13, <1>14, <1>15, <1>16, <1>17, <1>18, <1>19, <1>20 DEF CancelStep

LEMMA LockStep == TypeInv /\ LockInv /\ [Next]_vars => LockInv'
<1> SUFFICES ASSUME TypeInv, LockInv, [Next]_vars PROVE LockInv'
  OBVIOUS
<1>1. CASE \E c \in Cancellers : CancelStep(c) \/ Begin(c) \/ CancellerCrash(c)
  BY <1>1, LockStepCancel
<1> USE Bounds DEF LockInv, Holding
<1>2. CASE CreateWorktree
  BY <1>2 DEF CreateWorktree
<1>3. CASE SetupCheck
  BY <1>3 DEF SetupCheck, Hold
<1>4. CASE SetupSpawn
  BY <1>4 DEF SetupSpawn
<1>5. CASE SetupPublish
  BY <1>5 DEF SetupPublish, Hold
<1>6. CASE SetupReap
  BY <1>6 DEF SetupReap
<1>7. CASE SetupClear
  BY <1>7 DEF SetupClear, Hold
<1>8. CASE SetupVerdict
  BY <1>8 DEF SetupVerdict, Hold
<1>9. CASE Admit
  BY <1>9 DEF Admit, LaunchLost
<1>10. CASE AdmitTimesOut
  BY <1>10 DEF AdmitTimesOut, LaunchLost
<1>11. CASE Publish
  BY <1>11 DEF Publish, LaunchLost
<1>12. CASE PublishFails
  BY <1>12 DEF PublishFails
<1>13. CASE RecordFailure
  BY <1>13 DEF RecordFailure, Hold, LaunchLost
<1>14. CASE RetryFailed
  BY <1>14 DEF RetryFailed
<1>15. CASE Reap
  BY <1>15 DEF Reap
<1>16. CASE TerminateGroup
  BY <1>16 DEF TerminateGroup
<1>17. CASE Retry
  BY <1>17 DEF Retry
<1>18. CASE ComputeOutcome
  BY <1>18 DEF ComputeOutcome
<1>19. CASE FinalizeLocked
  BY <1>19 DEF FinalizeLocked, Hold, AfterFinal
<1>20. CASE FinalizeUnlocked
  BY <1>20 DEF FinalizeUnlocked
<1>21. CASE WriteWal
  BY <1>21 DEF WriteWal, AfterFinal
<1>22. CASE Abort
  BY <1>22 DEF Abort
<1>23. CASE SetWorktreeStatus
  BY <1>23 DEF SetWorktreeStatus, Hold
<1>24. CASE SetupDeadline
  BY <1>24 DEF SetupDeadline
<1>interrupted. CASE SetupInterrupted
  BY <1>interrupted DEF SetupInterrupted
<1>25. CASE StopChild
  BY <1>25 DEF StopChild
<1>26. CASE PersistProgress
  BY <1>26 DEF PersistProgress, Hold
<1>27. CASE LauncherCrash
  BY <1>27 DEF LauncherCrash, LauncherGone
<1>28. CASE ProcessStep
  BY <1>28 DEF ProcessStep, ChildExits, KidsExit, InitReaps, SetupExits
<1>29. CASE OtherHolds
  BY <1>29 DEF OtherHolds
<1>30. CASE OtherReleases
  BY <1>30 DEF OtherReleases
<1>31. CASE OtherReplays
  BY <1>31 DEF OtherReplays, Hold
<1>32. CASE SealUnlaunched
  BY <1>32 DEF SealUnlaunched, Hold
<1>33. CASE UNCHANGED vars
  BY <1>33 DEF vars
<1> QED BY <1>1, <1>2, <1>3, <1>4, <1>5, <1>6, <1>7, <1>8, <1>9, <1>10, <1>11, <1>12, <1>13, <1>14, <1>15, <1>16, <1>17, <1>18, <1>19, <1>20, <1>21, <1>22, <1>23, <1>24, <1>interrupted, <1>25, <1>26, <1>27, <1>28, <1>29, <1>30, <1>31, <1>32, <1>33 DEF Next, LauncherStep

-----------------------------------------------------------------------------
(* What each write does to the record readers get.                          *)

\* A lock holder's write over what it loaded, whether or not a WAL came
\* between the load and the write.
LEMMA HolderWrites ==
  ASSUME NEW r \in Records, NEW w \in Records, NEW v \in {r, Overlay(r, w)},
         w # NoRecord => w.status \in Terminal
  PROVE  /\ v.status \notin Terminal => Promised(Overlay(r, w), Overlay(Stamped(v), w))
         /\ Promised(Overlay(r, w), Overlay(Cancelled(v), w))
         /\ Promised(Overlay(r, w), Overlay([Cancelled(v) EXCEPT !.setup = FALSE], w))
<1>1. v \in Records /\ v.status \in Statuses
  BY MergeType DEF Records
<1>2. ASSUME NEW x \in Records, x.status = "cancelled"
      PROVE  Overlay(x, w).status = "cancelled"
  BY <1>2, MergeKeepsCancel DEF Overlay, CancelSeen
<1>3. /\ Cancelled(v) \in Records /\ Cancelled(v).status = "cancelled"
      /\ [Cancelled(v) EXCEPT !.setup = FALSE] \in Records
      /\ [Cancelled(v) EXCEPT !.setup = FALSE].status = "cancelled"
  BY <1>1 DEF Cancelled, Records, Statuses, Terminal
<1>4. ASSUME v.status \notin Terminal
      PROVE  Promised(Overlay(r, w), Overlay(Stamped(v), w))
  <2>1. Stamped(v) \in Records /\ Stamped(v).marker /\ Stamped(v).status = v.status
    BY <1>1, WrittenTypes DEF Stamped, Records
  <2>2. CASE w = NoRecord
    BY <1>4, <2>1, <2>2 DEF Overlay, Promised, CancelSeen
  <2>3. CASE w # NoRecord
    <3>1. Overlay(Stamped(v), w) = MergeTerminal(Stamped(v), w)
      BY <2>3 DEF Overlay
    <3>2. Overlay(Stamped(v), w).status = "cancelled"
      BY <2>1, <3>1, MergeKeepsCancel DEF CancelSeen
    <3> QED BY <3>2 DEF Promised
  <2> QED BY <2>2, <2>3
<1> QED BY <1>2, <1>3, <1>4 DEF Promised

\* A finalizer's record over the record it decided from.
LEMMA FinalWrite ==
  ASSUME TypeOK, NEW r \in Records, outcome \in Terminal, ~AlreadyFinal(r)
  PROVE  /\ FinalRecord(r) \in Records
         /\ FinalRecord(r).status \in Terminal
         /\ CancelSeen(r) => FinalRecord(r).status = "cancelled"
         /\ ~CancelSeen(r) => /\ r.status \notin Terminal
                              /\ ~FinalRecord(r).marker
         /\ Promised(r, FinalRecord(r))
<1>1. FinalRecord(r) \in Records
  BY FinalTypes
<1> DEFINE pending == Fresh(FinalStatus(r), IF pc \in {"finalize", "finalizeWal"}
                                            THEN attempt ELSE 0)
<1>2. FinalRecord(r) = MergeTerminal(r, pending)
  BY DEF FinalRecord
<1>3. pending.status = FinalStatus(r) /\ pending.marker = FALSE
  BY DEF Fresh
<1>4. CASE CancelSeen(r)
  <2>1. FinalRecord(r).status = "cancelled"
    BY <1>2, <1>4 DEF MergeTerminal
  <2> QED BY <1>1, <1>4, <2>1 DEF Promised, Terminal
<1>5. CASE ~CancelSeen(r)
  <2>1. r.status \notin Terminal
    BY <1>5 DEF AlreadyFinal
  <2>2. FinalRecord(r) = pending
    BY <1>2, <1>5, <2>1 DEF MergeTerminal
  <2>3. pending.status \in Terminal
    BY <1>3, FinalTypes
  <2> QED BY <1>1, <1>3, <1>5, <2>1, <2>2, <2>3 DEF Promised
<1> QED BY <1>4, <1>5

\* Every step does to what readers get what RunOutcome allows.
LEMMA PromiseStep ==
  ASSUME TypeInv, RecordInv, [Next]_vars
  PROVE  Promised(View, View')
<1> USE DEF TypeInv, RecordInv
<1>1. rec \in Records /\ wal \in Records /\ View \in Records /\ View = Overlay(rec, wal)
  BY ViewType DEF TypeOK, RecordTypeOK, View
<1>2. ASSUME UNCHANGED <<rec, wal>> PROVE Promised(View, View')
  BY <1>2 DEF Promised, View
<1>3. ASSUME wal' = NoRecord, Promised(View, rec') PROVE Promised(View, View')
  BY <1>3 DEF View, Overlay
<1>4. ASSUME Reconcile PROVE Promised(View, View')
  BY <1>3, <1>4 DEF Reconcile, Promised
<1>5. ASSUME NEW b \in BOOLEAN, rec' = [View EXCEPT !.setup = b], wal' = NoRecord
      PROVE  Promised(View, View')
  BY <1>1, <1>3, <1>5 DEF Promised, CancelSeen, Records
<1>6. Cancelled(View).status = "cancelled" /\ Cancelled(Stamped(View)).status = "cancelled"
  BY <1>1 DEF Cancelled, Stamped, Records
<1>7. ASSUME NEW c \in Cancellers, cpc[c] \in Acts, UNCHANGED wal,
             \/ rec' = Stamped(view[c]) /\ view[c].status \notin Terminal
             \/ rec' = Cancelled(view[c])
             \/ rec' = [Cancelled(view[c]) EXCEPT !.setup = FALSE]
      PROVE  Promised(View, View')
  <2>1. view[c] \in {rec, View} /\ (wal # NoRecord => wal.status \in Terminal)
    BY <1>7 DEF ViewInv, WalInv
  <2>2. View' = Overlay(rec', wal)
    BY <1>7 DEF View
  <2> QED BY <1>1, <1>7, <2>1, <2>2, HolderWrites
<1>8. ASSUME NEW c \in Cancellers, cpc[c] \in Acts,
             ~Settled(seen[c]) \/ seen[c] \notin Terminal
      PROVE  view[c].status \notin Terminal
  BY <1>8 DEF ViewInv, Settled, Terminal
<1>9. CASE CreateWorktree
  BY <1>2, <1>9 DEF CreateWorktree
<1>10. CASE SetupCheck
  BY <1>2, <1>4, <1>10 DEF SetupCheck
<1>11. CASE SetupSpawn
  BY <1>2, <1>11 DEF SetupSpawn
<1>12. CASE SetupPublish
  BY <1>2, <1>5, <1>12 DEF SetupPublish
<1>13. CASE SetupReap
  BY <1>2, <1>13 DEF SetupReap
<1>14. CASE SetupClear
  BY <1>2, <1>5, <1>14 DEF SetupClear
<1>15. CASE SetupVerdict
  BY <1>2, <1>4, <1>15 DEF SetupVerdict
<1>16. CASE Admit
  BY <1>2, <1>4, <1>16 DEF Admit
<1>17. CASE AdmitTimesOut
  BY <1>2, <1>17 DEF AdmitTimesOut
<1>18. CASE Publish
  <2>1. pc = "publish" /\ wal = NoRecord /\ UNCHANGED wal /\ ~LaunchRefused(View)
    BY <1>18 DEF Publish, WalInv, PublishInv
  <2>2. rec' \in {rec, Fresh("running", attempt)}
    BY <1>18 DEF Publish
  <2>3. Promised(View, Fresh("running", attempt))
    BY <2>1 DEF Promised, LaunchRefused, CancelSeen, Fresh, Terminal
  <2> QED BY <1>2, <1>3, <2>1, <2>2, <2>3
<1>19. CASE PublishFails
  <2>1. pc = "publish" /\ wal = NoRecord /\ UNCHANGED wal /\ ~LaunchRefused(View)
    BY <1>19 DEF PublishFails, WalInv, PublishInv
  <2>2. rec' \in {rec, Fresh("running", attempt)}
    BY <1>19 DEF PublishFails
  <2>3. Promised(View, Fresh("running", attempt))
    BY <2>1 DEF Promised, LaunchRefused, CancelSeen, Fresh, Terminal
  <2> QED BY <1>2, <1>3, <2>1, <2>2, <2>3
<1>20. CASE RecordFailure
  <2>1. ASSUME ~LaunchRefused(View) PROVE Promised(View, Fresh("failed", 0))
    BY <2>1 DEF Promised, LaunchRefused, CancelSeen, Fresh, Terminal
  <2>2. Promised(View, View)
    BY DEF Promised
  <2> QED BY <1>2, <1>3, <1>20, <2>1, <2>2 DEF RecordFailure
<1>21. CASE RetryFailed
  BY <1>2, <1>21 DEF RetryFailed
<1>22. CASE Reap
  BY <1>2, <1>22 DEF Reap
<1>23. CASE TerminateGroup
  BY <1>2, <1>23 DEF TerminateGroup
<1>24. CASE Retry
  BY <1>2, <1>24 DEF Retry
<1>25. CASE ComputeOutcome
  BY <1>2, <1>25 DEF ComputeOutcome
<1>26. CASE FinalizeLocked
  <2>1. outcome \in Terminal
    BY <1>26 DEF FinalizeLocked, LauncherInv
  <2>2. Promised(View, View)
    BY DEF Promised
  <2>3. CASE AlreadyFinal(View)
    BY <1>3, <1>26, <2>2, <2>3 DEF FinalizeLocked
  <2>4. CASE ~AlreadyFinal(View)
    BY <1>1, <1>3, <1>26, <2>1, <2>4, FinalWrite DEF FinalizeLocked
  <2> QED BY <2>3, <2>4
<1>27. CASE FinalizeUnlocked
  BY <1>2, <1>27 DEF FinalizeUnlocked
<1>28. CASE WriteWal
  <2>1. wal = NoRecord /\ View = rec /\ UNCHANGED rec
    BY <1>28 DEF WriteWal, WalInv, View, Overlay
  <2>2. outcome \in Terminal /\ draft \in Records
    BY <1>28 DEF WriteWal, LauncherInv, TypeOK, LauncherTypeOK
  <2>3. CASE AlreadyFinal(draft)
    BY <1>2, <1>28, <2>1, <2>3 DEF WriteWal
  <2>4. CASE ~AlreadyFinal(draft)
    <3> DEFINE p == FinalRecord(draft)
    <3>1. wal' = p
      BY <1>28, <2>4 DEF WriteWal
    <3>2. /\ p \in Records /\ p.status \in Terminal
          /\ ~CancelSeen(draft) => ~p.marker
      BY <2>2, <2>4, FinalWrite
    <3>3. View' = MergeTerminal(View, p)
      BY <1>1, <2>1, <3>1, <3>2, MergeIsTerminal DEF View
    <3>4. CancelSeen(draft) => CancelSeen(View)
      BY <1>28 DEF WriteWal, DraftInv
    <3>5. CASE CancelSeen(View)
      BY <1>1, <3>2, <3>3, <3>5, MergeKeepsCancel DEF Promised
    <3>6. CASE ~CancelSeen(View) /\ View.status \in Terminal
      BY <3>3, <3>6 DEF MergeTerminal, Promised
    <3>7. CASE ~CancelSeen(View) /\ View.status \notin Terminal
      <4>1. View' = p
        BY <3>3, <3>7 DEF MergeTerminal
      <4> QED BY <3>2, <3>4, <3>7, <4>1 DEF Promised
    <3> QED BY <3>5, <3>6, <3>7
  <2> QED BY <2>3, <2>4
<1>29. CASE Abort
  BY <1>2, <1>29 DEF Abort
<1>30. CASE SetWorktreeStatus
  BY <1>2, <1>4, <1>30 DEF SetWorktreeStatus
<1>31. CASE SetupDeadline
  BY <1>2, <1>31 DEF SetupDeadline
<1>interrupted. CASE SetupInterrupted
  BY <1>2, <1>interrupted DEF SetupInterrupted
<1>32. CASE StopChild
  BY <1>2, <1>32 DEF StopChild
<1>33. CASE PersistProgress
  <2> DEFINE r == [Fresh("running", attempt) EXCEPT !.marker = View.marker]
  <2>1. r.status = "running" /\ r.marker = View.marker
    BY DEF Fresh
  <2>2. ASSUME View.status \notin Terminal PROVE View.status = "running"
    BY <1>33, <2>2 DEF PersistProgress, CaptureInv
  <2>3. ASSUME View.status \notin Terminal PROVE Promised(View, r)
    BY <2>1, <2>2, <2>3 DEF Promised, CancelSeen
  <2>4. Promised(View, View)
    BY DEF Promised
  <2> QED BY <1>3, <1>33, <2>3, <2>4 DEF PersistProgress
<1>34. CASE LauncherCrash
  BY <1>2, <1>34 DEF LauncherCrash
<1>35. CASE ProcessStep
  BY <1>2, <1>35 DEF ProcessStep, ChildExits, KidsExit, InitReaps, SetupExits
<1>36. CASE OtherHolds
  BY <1>2, <1>36 DEF OtherHolds
<1>37. CASE OtherReleases
  BY <1>2, <1>37 DEF OtherReleases
<1>38. CASE OtherReplays
  BY <1>2, <1>4, <1>38 DEF OtherReplays
<1>39. CASE SealUnlaunched
  BY <1>3, <1>6, <1>39 DEF SealUnlaunched, Promised
<1>40. CASE UNCHANGED vars
  BY <1>2, <1>40 DEF vars
<1>41. ASSUME NEW c \in Cancellers, CancelStep(c) \/ Begin(c) \/ CancellerCrash(c)
       PROVE  Promised(View, View')
  <2> USE DEF At, Acts
  <2>1. CASE Begin(c)
    BY <1>2, <2>1 DEF Begin, Release, WriteAndRelease
  <2>2. CASE Enter(c)
    BY <1>4, <2>2 DEF Enter
  <2>3. CASE Load(c)
    BY <1>2, <2>3 DEF Load, Release, WriteAndRelease
  <2>4. CASE GivesUpOnLock(c)
    BY <1>2, <2>4 DEF GivesUpOnLock, Release, WriteAndRelease
  <2>5. CASE SelectStale(c)
    BY <1>2, <1>7, <1>8, <2>5 DEF SelectStale, Release, WriteAndRelease
  <2>6. CASE SelectTerminal(c)
    BY <1>2, <2>6 DEF SelectTerminal, Release, WriteAndRelease
  <2>7. CASE SelectUnpublished(c)
    BY <1>2, <1>7, <1>8, <2>7 DEF SelectUnpublished, Release, WriteAndRelease
  <2>8. CASE Seal(c)
    <3>1. UNCHANGED wal /\ rec' = Cancelled(View)
      BY <2>8 DEF Seal, WriteAndRelease
    <3>2. wal # NoRecord => wal.status \in Terminal
      BY DEF WalInv
    <3>3. View' = Overlay(rec', wal)
      BY <3>1 DEF View
    <3> QED BY <1>1, <3>1, <3>2, <3>3, HolderWrites
  <2>9. CASE SelectTarget(c)
    BY <1>2, <2>9 DEF SelectTarget, Release, WriteAndRelease
  <2>10. CASE MarkSettled(c)
    BY <1>2, <2>10 DEF MarkSettled, Release, WriteAndRelease
  <2>11. CASE MarkSetupEnded(c)
    BY <1>2, <1>7, <1>8, <2>11 DEF MarkSetupEnded, Release, WriteAndRelease
  <2>12. CASE MarkRetarget(c)
    BY <1>2, <2>12 DEF MarkRetarget, Release, WriteAndRelease
  <2>13. CASE Mark(c)
    BY <1>2, <1>7, <1>8, <2>13 DEF Mark, Release, WriteAndRelease
  <2>14. CASE Kill(c)
    BY <1>2, <2>14 DEF Kill, Release, WriteAndRelease
  <2>15. CASE Settle(c)
    BY <1>2, <1>7, <1>8, <2>15 DEF Settle, Release, WriteAndRelease
  <2>16. CASE UrgentRead(c) \/ UrgentRecheck(c)
    BY <1>2, <2>16 DEF UrgentRead, UrgentRecheck
  <2>17. CASE LookAtRecord(c) \/ LookAtWal(c)
    BY <1>2, <2>17 DEF LookAtRecord, LookAtWal, Reading
  <2>18. CASE UrgentKill(c)
    BY <1>2, <2>18 DEF UrgentKill, Release, WriteAndRelease
  <2>19. CASE UrgentRecord(c)
    BY <1>2, <1>7, <1>8, <2>19 DEF UrgentRecord, Release, WriteAndRelease
  <2>20. CASE CancellerCrash(c)
    BY <1>2, <2>20 DEF CancellerCrash, Release, WriteAndRelease
  <2> QED BY <1>41, <2>1, <2>2, <2>3, <2>4, <2>5, <2>6, <2>7, <2>8, <2>9, <2>10, <2>11, <2>12, <2>13, <2>14, <2>15, <2>16, <2>17, <2>18, <2>19, <2>20 DEF CancelStep
<1> QED BY <1>9, <1>10, <1>11, <1>12, <1>13, <1>14, <1>15, <1>16, <1>17, <1>18, <1>19, <1>20, <1>21, <1>22, <1>23, <1>24, <1>25, <1>26, <1>27, <1>28, <1>29, <1>30, <1>31, <1>interrupted, <1>32, <1>33, <1>34, <1>35, <1>36, <1>37, <1>38, <1>39, <1>40, <1>41 DEF Next, LauncherStep

-----------------------------------------------------------------------------
(* The record invariant is inductive.                                       *)

\* What a promised step keeps.
LEMMA PromiseKeeps ==
  ASSUME NEW r \in Records, NEW s \in Records, Promised(r, s)
  PROVE  /\ CancelSeen(r) => CancelSeen(s)
         /\ r.status \in Terminal => s.status \in {r.status, "cancelled"}
         /\ r.status \in {"running"} \cup Terminal => s.status \in {"running"} \cup Terminal
         /\ r.status \in Terminal => s.status \in Terminal
BY DEF Promised, CancelSeen, Terminal

\* A cancel command writes only inside the lock, and enters the phase in which
\* it acts only by loading the record.
LEMMA CancelWrites ==
  ASSUME TypeInv, LockInv, NEW c \in Cancellers,
         CancelStep(c) \/ Begin(c) \/ CancellerCrash(c)
  PROVE  /\ UNCHANGED <<pc, draft>>
         /\ wal' \in {wal, NoRecord}
         /\ lock \in {"free", c} \/ UNCHANGED <<rec, wal>>
         /\ \A d \in Cancellers \ {c} :
              cpc'[d] = cpc[d] /\ view'[d] = view[d] /\ seen'[d] = seen[d]
         /\ cpc'[c] \in Acts => /\ view'[c] = View /\ seen'[c] = Effective(View, AlivePids)
                                /\ UNCHANGED <<rec, wal>>
<1> USE DEF TypeInv, TypeOK, CancelTypeOK, LockInv, Holding
<1> DEFINE
      Quiet == UNCHANGED <<rec, wal>>
      Held == lock = c /\ UNCHANGED wal
      Others == \A d \in Cancellers \ {c} :
                  cpc'[d] = cpc[d] /\ view'[d] = view[d] /\ seen'[d] = seen[d]
      NotActing == cpc'[c] \notin Acts
<1>1. CASE Begin(c)
  <2>1. Others /\ NotActing
    BY <1>1 DEF Begin, GoTo, Acts
  <2>2. Quiet
    BY <1>1 DEF Begin
  <2> QED BY <1>1, <2>1, <2>2 DEF Begin
<1>2. CASE Enter(c)
  <2>1. Others /\ NotActing
    BY <1>2, PhaseTypes DEF Enter, GoTo, Loads, Acts
  <2> QED BY <1>2, <2>1 DEF Enter, Reconcile
<1>3. CASE Load(c)
  BY <1>3 DEF Load
<1>4. CASE GivesUpOnLock(c)
  <2>1. Others /\ NotActing
    BY <1>4 DEF GivesUpOnLock, Answer, Stop, Onward, Acts
  <2>2. Quiet
    BY <1>4 DEF GivesUpOnLock
  <2> QED BY <1>4, <2>1, <2>2 DEF GivesUpOnLock
<1>5. CASE SelectStale(c)
  <2>1. Others /\ NotActing
    BY <1>5 DEF SelectStale, Answer, Stop, Acts
  <2>2. Held
    BY <1>5 DEF SelectStale, At, Acts, Sealing, WriteAndRelease, Release
  <2> QED BY <1>5, <2>1, <2>2 DEF SelectStale
<1>6. CASE SelectTerminal(c)
  <2>1. Others /\ NotActing
    BY <1>6 DEF SelectTerminal, Answer, Stop, Acts
  <2>2. Held
    BY <1>6 DEF SelectTerminal, At, Acts, Sealing, WriteAndRelease, Release
  <2> QED BY <1>6, <2>1, <2>2 DEF SelectTerminal
<1>7. CASE SelectUnpublished(c)
  <2>1. Others /\ NotActing
    BY <1>7 DEF SelectUnpublished, Answer, Stop, GoTo, Acts
  <2>2. Held
    BY <1>7 DEF SelectUnpublished, At, Acts, Sealing, WriteAndRelease, Release
  <2> QED BY <1>7, <2>1, <2>2 DEF SelectUnpublished
<1>8. CASE Seal(c)
  <2>1. Others /\ NotActing
    BY <1>8 DEF Seal, Answer, Stop, Acts
  <2>2. Held
    BY <1>8 DEF Seal, At, Acts, Sealing, WriteAndRelease, Release
  <2> QED BY <1>8, <2>1, <2>2 DEF Seal
<1>9. CASE SelectTarget(c)
  <2>1. Others /\ NotActing
    BY <1>9 DEF SelectTarget, Onward, Acts
  <2>2. Held
    BY <1>9 DEF SelectTarget, At, Acts, Sealing, WriteAndRelease, Release
  <2> QED BY <1>9, <2>1, <2>2 DEF SelectTarget
<1>10. CASE MarkSettled(c)
  <2>1. Others /\ NotActing
    BY <1>10 DEF MarkSettled, Answer, Stop, Acts
  <2>2. Held
    BY <1>10 DEF MarkSettled, At, Acts, Sealing, WriteAndRelease, Release
  <2> QED BY <1>10, <2>1, <2>2 DEF MarkSettled
<1>11. CASE MarkSetupEnded(c)
  <2>1. Others /\ NotActing
    BY <1>11 DEF MarkSetupEnded, Onward, Acts
  <2>2. Held
    BY <1>11 DEF MarkSetupEnded, At, Acts, Sealing, WriteAndRelease, Release
  <2> QED BY <1>11, <2>1, <2>2 DEF MarkSetupEnded
<1>12. CASE MarkRetarget(c)
  <2>1. Others /\ NotActing
    BY <1>12 DEF MarkRetarget, Answer, Stop, SelectAgain, Acts
  <2>2. Held
    BY <1>12 DEF MarkRetarget, At, Acts, Sealing, WriteAndRelease, Release
  <2> QED BY <1>12, <2>1, <2>2 DEF MarkRetarget
<1>13. CASE Mark(c)
  <2>1. Others /\ NotActing
    BY <1>13 DEF Mark, Answer, Stop, Onward, Acts
  <2>2. Held
    BY <1>13 DEF Mark, At, Acts, Sealing, WriteAndRelease, Release
  <2> QED BY <1>13, <2>1, <2>2 DEF Mark
<1>14. CASE Kill(c)
  <2>1. Others /\ NotActing
    BY <1>14 DEF Kill, Onward, Acts
  <2>2. Quiet
    BY <1>14 DEF Kill
  <2> QED BY <1>14, <2>1, <2>2 DEF Kill
<1>15. CASE Settle(c)
  <2>1. Others /\ NotActing
    BY <1>15 DEF Settle, Answer, Stop, SelectAgain, Acts
  <2>2. Held
    BY <1>15 DEF Settle, At, Acts, Sealing, WriteAndRelease, Release
  <2> QED BY <1>15, <2>1, <2>2 DEF Settle
<1>16. CASE UrgentRead(c) \/ UrgentRecheck(c)
  <2>1. Others /\ NotActing
    BY <1>16, ReadMoves DEF Acts
  <2>2. Quiet
    BY <1>16, ReadMoves DEF WalReads, Rereads
  <2> QED BY <1>16, <2>1, <2>2, ReadMoves
<1>17. CASE LookAtRecord(c) \/ LookAtWal(c)
  <2>1. Others /\ NotActing
    BY <1>17, LookMoves DEF Acts, WalReads, Rereads
  <2>2. Quiet
    BY <1>17, LookMoves
  <2> QED BY <1>17, <2>1, <2>2, LookMoves
<1>18. CASE UrgentKill(c)
  <2>1. Others /\ NotActing
    BY <1>18 DEF UrgentKill, GoTo, Acts
  <2>2. Quiet
    BY <1>18 DEF UrgentKill
  <2> QED BY <1>18, <2>1, <2>2 DEF UrgentKill
<1>19. CASE UrgentRecord(c)
  <2>1. Others /\ NotActing
    BY <1>19 DEF UrgentRecord, Answer, Stop, GoTo, Acts
  <2>2. Held
    BY <1>19 DEF UrgentRecord, At, Acts, Sealing, WriteAndRelease, Release
  <2> QED BY <1>19, <2>1, <2>2 DEF UrgentRecord
<1>20. CASE CancellerCrash(c)
  <2>1. Others /\ NotActing
    BY <1>20 DEF CancellerCrash, Stop, Acts
  <2>2. Quiet
    BY <1>20 DEF CancellerCrash
  <2> QED BY <1>20, <2>1, <2>2 DEF CancellerCrash
<1> QED BY <1>1, <1>2, <1>3, <1>4, <1>5, <1>6, <1>7, <1>8, <1>9, <1>10, <1>11, <1>12, <1>13, <1>14, <1>15, <1>16, <1>17, <1>18, <1>19, <1>20 DEF CancelStep

LEMMA RecordStepCancel ==
  ASSUME TypeInv, RecordInv, NEW c \in Cancellers,
         CancelStep(c) \/ Begin(c) \/ CancellerCrash(c), Promised(View, View')
  PROVE  WalInv' /\ ViewInv' /\ PublishInv' /\ DraftInv' /\ CaptureInv'
<1> USE DEF RecordInv
<1>1. /\ UNCHANGED <<pc, draft>>
      /\ wal' \in {wal, NoRecord}
      /\ lock \in {"free", c} \/ UNCHANGED <<rec, wal>>
      /\ \A d \in Cancellers \ {c} :
           cpc'[d] = cpc[d] /\ view'[d] = view[d] /\ seen'[d] = seen[d]
      /\ cpc'[c] \in Acts => /\ view'[c] = View /\ seen'[c] = Effective(View, AlivePids)
                             /\ UNCHANGED <<rec, wal>>
  BY CancelWrites
<1>2. TypeInv' /\ View \in Records /\ View' \in Records
  <2>1. TypeInv'
    BY TypeStep DEF Next
  <2>2. rec \in Records /\ wal \in Records /\ rec' \in Records /\ wal' \in Records
    BY <2>1 DEF TypeInv, TypeOK, RecordTypeOK
  <2> QED BY <2>1, <2>2, MergeType DEF View
<1>3. WalInv'
  BY <1>1 DEF WalInv
<1>4. ViewInv'
  <2> SUFFICES ASSUME NEW d \in Cancellers, cpc'[d] \in Acts
               PROVE  /\ view'[d] \in {rec', View'}
                      /\ \/ seen'[d] = view'[d].status
                         \/ seen'[d] = "stale" /\ view'[d].status = "running"
    BY DEF ViewInv
  <2>1. CASE d = c
    BY <1>1, <2>1 DEF View, Effective
  <2>2. CASE d # c
    <3>1. cpc[d] \in Acts /\ lock = d
      BY <1>1, <2>2 DEF LockInv, Holding
    <3>2. UNCHANGED <<rec, wal>>
      BY <1>1, <2>2, <3>1, Bounds
    <3> QED BY <1>1, <2>2, <3>1, <3>2 DEF ViewInv, View
  <2> QED BY <2>1, <2>2
<1>5. PublishInv'
  <2>1. pc = "publish" => UNCHANGED <<rec, wal>>
    BY <1>1, Bounds DEF LockInv
  <2> QED BY <1>1, <2>1 DEF PublishInv, View
<1>6. DraftInv'
  BY <1>1, <1>2, PromiseKeeps DEF DraftInv
<1>7. CaptureInv'
  BY <1>1, <1>2, PromiseKeeps DEF CaptureInv
<1> QED BY <1>3, <1>4, <1>5, <1>6, <1>7

\* The steps that are not a cancel command's write inside the lock, except for
\* the launcher's one WAL, and enter a phase only with what it relies on.
LEMMA LauncherWrites ==
  ASSUME TypeInv, RecordInv,
         \/ LauncherStep \/ SetupDeadline \/ SetupInterrupted \/ StopChild \/ PersistProgress
         \/ LauncherCrash \/ ProcessStep
         \/ OtherHolds \/ OtherReleases \/ OtherReplays \/ SealUnlaunched
  PROVE  /\ UNCHANGED <<cpc, view, seen>>
         /\ \/ lock = "free" \/ pc = "publish"
            \/ UNCHANGED <<rec, wal>> \/ (wal = NoRecord /\ rec' = rec)
         /\ wal' \in {wal, NoRecord} \/ (wal'.status \in Terminal /\ pc' \in {"present", "done"})
         /\ pc \in {"present", "done", "crashed"} => pc' \in {"present", "done", "crashed"}
         /\ pc' = "publish" => (pc = "publish" /\ View' = View) \/ ~LaunchRefused(View')
         /\ pc' \in {"finalizeWal", "failWal"} =>
              (pc' = pc /\ draft' = draft) \/ (draft' = View /\ View' = View)
         /\ pc' = "capture" => pc = "capture" \/ View'.status \in {"running"} \cup Terminal
<1> USE DEF TypeInv, RecordInv
<1>1. rec \in Records /\ wal \in Records /\ View \in Records
  BY ViewType DEF TypeOK, RecordTypeOK
<1>2. UNCHANGED <<rec, wal>> => View' = View
  BY DEF View
<1>3. wal' = NoRecord => View' = rec'
  BY DEF View, Overlay
<1>4. CASE CreateWorktree
  BY <1>1, <1>2, <1>4 DEF CreateWorktree
<1>5. CASE SetupCheck
  BY <1>1, <1>2, <1>5 DEF SetupCheck, Hold, Reconcile
<1>6. CASE SetupSpawn
  BY <1>1, <1>2, <1>6 DEF SetupSpawn
<1>7. CASE SetupPublish
  BY <1>1, <1>2, <1>7 DEF SetupPublish, Hold
<1>8. CASE SetupReap
  BY <1>1, <1>2, <1>8 DEF SetupReap
<1>9. CASE SetupClear
  BY <1>1, <1>2, <1>9 DEF SetupClear, Hold
<1>10. CASE SetupVerdict
  BY <1>1, <1>2, <1>10 DEF SetupVerdict, Hold, Reconcile
<1>11. CASE Admit
  <2>1. rec' = View /\ View' = View /\ wal' = NoRecord
    BY <1>3, <1>11 DEF Admit, Reconcile
  <2> QED BY <1>11, <2>1 DEF Admit, LaunchLost
<1>12. CASE AdmitTimesOut
  BY <1>1, <1>2, <1>12 DEF AdmitTimesOut, LaunchLost
<1>13. CASE Publish
  <2>1. pc = "publish" /\ wal' = wal /\ wal = NoRecord
    BY <1>13 DEF Publish, WalInv
  <2>2. pc' = "capture" => View'.status = "running"
    BY <1>3, <1>13, <2>1 DEF Publish, LaunchLost, Fresh
  <2> QED BY <1>13, <2>1, <2>2 DEF Publish, LaunchLost
<1>14. CASE PublishFails
  BY <1>14 DEF PublishFails
<1>15. CASE RecordFailure
  BY <1>1, <1>2, <1>15 DEF RecordFailure, Hold, LaunchLost
<1>16. CASE RetryFailed
  BY <1>1, <1>2, <1>16 DEF RetryFailed
<1>17. CASE Reap
  BY <1>1, <1>2, <1>17 DEF Reap
<1>18. CASE TerminateGroup
  BY <1>1, <1>2, <1>18 DEF TerminateGroup
<1>19. CASE Retry
  BY <1>1, <1>2, <1>19 DEF Retry
<1>20. CASE ComputeOutcome
  BY <1>1, <1>2, <1>20 DEF ComputeOutcome
<1>21. CASE FinalizeLocked
  BY <1>1, <1>2, <1>21 DEF FinalizeLocked, Hold, AfterFinal
<1>22. CASE FinalizeUnlocked
  BY <1>1, <1>2, <1>22 DEF FinalizeUnlocked
<1>23. CASE WriteWal
  <2>1. wal = NoRecord /\ pc' \in {"present", "done"}
    BY <1>23 DEF WriteWal, WalInv, AfterFinal
  <2>2. outcome \in Terminal /\ draft \in Records
    BY <1>23 DEF WriteWal, LauncherInv, TypeOK, LauncherTypeOK
  <2>3. wal' = wal \/ wal'.status \in Terminal
    BY <1>23, <2>2, FinalWrite DEF WriteWal
  <2> QED BY <1>23, <2>1, <2>3 DEF WriteWal
<1>24. CASE Abort
  BY <1>1, <1>2, <1>24 DEF Abort
<1>25. CASE SetWorktreeStatus
  BY <1>1, <1>2, <1>25 DEF SetWorktreeStatus, Hold, Reconcile
<1>26. CASE SetupDeadline
  BY <1>1, <1>2, <1>26 DEF SetupDeadline
<1>interrupted. CASE SetupInterrupted
  BY <1>1, <1>2, <1>interrupted DEF SetupInterrupted
<1>27. CASE StopChild
  BY <1>1, <1>2, <1>27 DEF StopChild
<1>28. CASE PersistProgress
  BY <1>28 DEF PersistProgress, Hold
<1>29. CASE LauncherCrash
  BY <1>1, <1>2, <1>29 DEF LauncherCrash, LauncherGone
<1>30. CASE ProcessStep
  BY <1>1, <1>2, <1>30 DEF ProcessStep, ChildExits, KidsExit, InitReaps, SetupExits
<1>31. CASE OtherHolds
  BY <1>1, <1>2, <1>31 DEF OtherHolds
<1>32. CASE OtherReleases
  BY <1>1, <1>2, <1>32 DEF OtherReleases
<1>33. CASE OtherReplays
  BY <1>1, <1>2, <1>3, <1>33 DEF OtherReplays, Hold, Reconcile
<1>34. CASE SealUnlaunched
  BY <1>34 DEF SealUnlaunched, Hold, LauncherGone
<1> QED BY <1>4, <1>5, <1>6, <1>7, <1>8, <1>9, <1>10, <1>11, <1>12, <1>13, <1>14, <1>15, <1>16, <1>17, <1>18, <1>19, <1>20, <1>21, <1>22, <1>23, <1>24, <1>25, <1>26, <1>interrupted, <1>27, <1>28, <1>29, <1>30, <1>31, <1>32, <1>33, <1>34 DEF LauncherStep

LEMMA RecordStepLauncher ==
  ASSUME TypeInv, RecordInv, Promised(View, View'), [Next]_vars,
         \/ LauncherStep \/ SetupDeadline \/ SetupInterrupted \/ StopChild \/ PersistProgress
         \/ LauncherCrash \/ ProcessStep
         \/ OtherHolds \/ OtherReleases \/ OtherReplays \/ SealUnlaunched
  PROVE  WalInv' /\ ViewInv' /\ PublishInv' /\ DraftInv' /\ CaptureInv'
<1> USE DEF RecordInv
<1>1. /\ UNCHANGED <<cpc, view, seen>>
      /\ \/ lock = "free" \/ pc = "publish"
         \/ UNCHANGED <<rec, wal>> \/ (wal = NoRecord /\ rec' = rec)
      /\ wal' \in {wal, NoRecord} \/ (wal'.status \in Terminal /\ pc' \in {"present", "done"})
      /\ pc \in {"present", "done", "crashed"} => pc' \in {"present", "done", "crashed"}
      /\ pc' = "publish" => (pc = "publish" /\ View' = View) \/ ~LaunchRefused(View')
      /\ pc' \in {"finalizeWal", "failWal"} =>
           (pc' = pc /\ draft' = draft) \/ (draft' = View /\ View' = View)
      /\ pc' = "capture" => pc = "capture" \/ View'.status \in {"running"} \cup Terminal
  BY LauncherWrites
<1>2. View \in Records /\ View' \in Records
  <2>1. TypeInv'
    BY TypeStep
  <2>2. rec \in Records /\ wal \in Records /\ rec' \in Records /\ wal' \in Records
    BY <2>1 DEF TypeInv, TypeOK, RecordTypeOK
  <2> QED BY <2>2, MergeType DEF View
<1>3. WalInv'
  BY <1>1 DEF WalInv
<1>4. ViewInv'
  <2> SUFFICES ASSUME NEW c \in Cancellers, cpc[c] \in Acts
               PROVE  /\ view[c] \in {rec', View'}
                      /\ \/ seen[c] = view[c].status
                         \/ seen[c] = "stale" /\ view[c].status = "running"
    BY <1>1 DEF ViewInv
  <2>1. lock = c /\ lock # "free" /\ pc # "publish"
    BY Bounds DEF LockInv, Holding
  <2>2. UNCHANGED <<rec, wal>> \/ (wal = NoRecord /\ rec' = rec)
    BY <1>1, <2>1
  <2>3. view[c] \in {rec', View'}
    BY <2>2 DEF ViewInv, View, Overlay
  <2> QED BY <2>3 DEF ViewInv
<1>5. PublishInv'
  BY <1>1 DEF PublishInv
<1>6. DraftInv'
  BY <1>1, <1>2, PromiseKeeps DEF DraftInv
<1>7. CaptureInv'
  BY <1>1, <1>2, PromiseKeeps DEF CaptureInv
<1> QED BY <1>3, <1>4, <1>5, <1>6, <1>7

LEMMA RecordInit == Init => RecordInv
<1> SUFFICES ASSUME Init PROVE RecordInv
  OBVIOUS
<1>1. View = rec /\ rec.marker = FALSE /\ rec.status \in {"none", "creating"}
  BY DEF Init, View, Overlay, NoRecord, Fresh
<1>2. LockInv
  BY Bounds DEF Init, LockInv, Holding, Loads, Acts, Sealing
<1> QED BY <1>1, <1>2 DEF Init, RecordInv, WalInv, ViewInv, PublishInv, DraftInv, CaptureInv, Acts

LEMMA RecordStep == TypeInv /\ RecordInv /\ [Next]_vars => RecordInv'
<1> SUFFICES ASSUME TypeInv, RecordInv, [Next]_vars PROVE RecordInv'
  OBVIOUS
<1>1. LockInv' /\ Promised(View, View')
  BY LockStep, PromiseStep DEF RecordInv
<1>2. CASE \E c \in Cancellers : CancelStep(c) \/ Begin(c) \/ CancellerCrash(c)
  BY <1>1, <1>2, RecordStepCancel DEF RecordInv
<1>3. CASE \/ LauncherStep \/ SetupDeadline \/ SetupInterrupted \/ StopChild \/ PersistProgress
           \/ LauncherCrash \/ ProcessStep
           \/ OtherHolds \/ OtherReleases \/ OtherReplays \/ SealUnlaunched
  BY <1>1, <1>3, RecordStepLauncher DEF RecordInv
<1>4. CASE UNCHANGED vars
  BY <1>4 DEF vars, RecordInv, LockInv, Holding, WalInv, ViewInv, PublishInv, DraftInv, CaptureInv, View
<1> QED BY <1>2, <1>3, <1>4 DEF Next

LEMMA SpecInv == Spec => [](TypeInv /\ RecordInv)
BY TypeInit, TypeStep, RecordInit, RecordStep, PTL DEF Spec

-----------------------------------------------------------------------------
(* The theorems.                                                           *)

LEMMA RecordsAround ==
  ASSUME TypeInv, [Next]_vars
  PROVE  /\ rec \in Records /\ wal \in Records /\ View \in Records
         /\ rec' \in Records /\ wal' \in Records /\ View' \in Records
<1>1. TypeInv'
  BY TypeStep
<1>2. rec \in Records /\ wal \in Records /\ rec' \in Records /\ wal' \in Records
  BY <1>1 DEF TypeInv, TypeOK, RecordTypeOK
<1> QED BY <1>2, MergeType DEF View

\* No cancelled record and no marker is ever lost.
THEOREM CancellationIsFinal == Spec => CancelIsFinal
<1>1. TypeInv /\ RecordInv /\ [Next]_vars => [CancelSeen(View) => CancelSeen(View')]_vars
  BY PromiseStep, PromiseKeeps, RecordsAround
<1> QED BY SpecInv, <1>1, PTL DEF Spec, CancelIsFinal

\* The first terminal record stands, unless a cancellation overtakes it.
THEOREM FirstOutcomeStands == Spec => TerminalIsStable
<1>1. TypeInv /\ RecordInv /\ [Next]_vars =>
        [View.status \in Terminal => View'.status \in {View.status, "cancelled"}]_vars
  BY PromiseStep, PromiseKeeps, RecordsAround
<1> QED BY SpecInv, <1>1, PTL DEF Spec, TerminalIsStable

\* The run record implements the outcome it promises to its readers.
THEOREM RunImplementsOutcome == Spec => ImplementsRunOutcome
<1>1. Init => Outcome!Init
  BY DEF Init, Outcome!Init, View, Overlay, NoRecord, Fresh, CancelSeen
<1>2. ASSUME TypeInv, RecordInv, [Next]_vars
      PROVE  [Outcome!Next]_<<View.status, CancelSeen(View)>>
  <2>1. Promised(View, View')
    BY <1>2, PromiseStep
  <2>2. Terminal = {"succeeded", "failed", "cancelled"} /\ Outcome!Outcomes = Terminal
    BY DEF Terminal, Outcome!Outcomes
  <2>3. CASE View'.status = View.status /\ (CancelSeen(View') <=> CancelSeen(View))
    BY <2>3, RecordsAround, <1>2 DEF CancelSeen, Records
  <2>4. CASE View'.status = "cancelled"
    BY <2>4 DEF Outcome!Next, Outcome!Cancel, CancelSeen
  <2>5. CASE View.status \notin Terminal /\ ~CancelSeen(View) /\ View'.status = "running"
             /\ ~CancelSeen(View')
    <3>1. CancelSeen(View') = CancelSeen(View)
      BY <2>5, RecordsAround, <1>2 DEF CancelSeen, Records
    <3> QED BY <2>2, <2>5, <3>1 DEF Outcome!Next, Outcome!Launch, Outcome!Unfinished
  <2>6. CASE View.status \notin Terminal /\ View'.status = View.status /\ CancelSeen(View')
    BY <2>2, <2>6 DEF Outcome!Next, Outcome!Want, Outcome!Unfinished
  <2>7. CASE View.status \notin Terminal /\ ~CancelSeen(View) /\ View'.status \in Terminal
             /\ ~View'.marker
    <3>1. CancelSeen(View') = (View'.status = "cancelled")
      BY <2>7 DEF CancelSeen
    <3>2. Outcome!Finish
      BY <2>2, <2>7, <3>1 DEF Outcome!Finish, Outcome!Unfinished
    <3> QED BY <3>2 DEF Outcome!Next
  <2> QED BY <2>1, <2>3, <2>4, <2>5, <2>6, <2>7 DEF Promised
<1> QED BY SpecInv, <1>1, <1>2, PTL DEF Spec, ImplementsRunOutcome, Outcome!Spec
=============================================================================
