---------------------------- MODULE StoreProofs ----------------------------
(* Proofs about the lane slice, the retention of raw logs, the lane         *)
(* markers, the worktree lease and the run registry, for any set of lanes,  *)
(* logs, launches and runs and any number of failures; and, with those of   *)
(* the mailbox and the watchdog, about the specification that holds all.    *)
EXTENDS MCStores, MailboxProofs, StallWatchdogProofs

(* A lane between acquire and release holds the lock shared, a lane that    *)
(* may stop the slice holds it exclusively, and flock admits no other       *)
(* holder beside an exclusive one.                                          *)
UsersHold ==
  \A l \in SliceLanes :
     /\ place[l] \in {"locked", "running", "release"} => flock[l] = "shared"
     /\ place[l] \in {"exclusive", "empty"} => flock[l] = "exclusive"
ExclusiveIsAlone ==
  \A k, l \in SliceLanes : k # l /\ flock[l] = "exclusive" => flock[k] = "none"
SliceInv == SliceTypeOK /\ UsersHold /\ ExclusiveIsAlone /\ SliceSparesLanes

LEMMA SliceInvInit == SliceInit => SliceInv
<1> SUFFICES ASSUME SliceInit PROVE SliceInv
    OBVIOUS
<1>1. SliceTypeOK
  <2>1. trouble \in 0..SliceTrouble
      BY SliceAssumption DEF SliceInit
  <2>2. struck \subseteq SliceLanes /\ sliceUp \in BOOLEAN
      BY DEF SliceInit
  <2>3. /\ place \in [SliceLanes -> SlicePlaces] /\ flock \in [SliceLanes -> {"none", "shared", "exclusive"}]
        /\ scope \in [SliceLanes -> {"none", "coming", "up"}]
      BY DEF SliceInit, SlicePlaces
  <2> QED
      BY <2>1, <2>2, <2>3 DEF SliceTypeOK
<1>2. UsersHold /\ ExclusiveIsAlone /\ SliceSparesLanes
    BY DEF SliceInit, UsersHold, ExclusiveIsAlone, SliceSparesLanes
<1> QED
    BY <1>1, <1>2 DEF SliceInv

LEMMA SliceInvStep == SliceInv /\ [SliceNext]_sliceVars => SliceInv'
<1> SUFFICES ASSUME SliceInv, [SliceNext]_sliceVars PROVE SliceInv'
    OBVIOUS
<1> USE DEF SliceInv, SliceTypeOK, SlicePlaces, UsersHold, ExclusiveIsAlone, SliceSparesLanes
<1>1. CASE UNCHANGED sliceVars
    BY <1>1 DEF sliceVars
<1>2. CASE SliceNext
  <2> PICK l \in SliceLanes :
        \/ SliceAcquires(l) \/ SliceGivesUp(l) \/ SliceLaunches(l) \/ SliceLaunchFails(l)
        \/ ScopeStarts(l) \/ ScopeEmpties(l) \/ SliceStopsScope(l) \/ SliceStopFails(l)
        \/ SliceUnlocks(l) \/ SliceConverts(l) \/ SliceProbes(l) \/ SliceStops(l)
        \/ SliceReleaseFails(l) \/ RunnerDies(l)
      BY <1>2 DEF SliceNext
  <2>1. CASE SliceAcquires(l)
      BY <2>1 DEF SliceAcquires, OthersHold
  <2>2. CASE SliceGivesUp(l)
      BY <2>2 DEF SliceGivesUp
  <2>3. CASE SliceLaunches(l)
      BY <2>3 DEF SliceLaunches
  <2>4. CASE SliceLaunchFails(l)
      BY <2>4 DEF SliceLaunchFails
  <2>5. CASE ScopeStarts(l)
      BY <2>5 DEF ScopeStarts
  <2>6. CASE ScopeEmpties(l)
      BY <2>6 DEF ScopeEmpties
  <2>7. CASE SliceStopsScope(l)
      BY <2>7 DEF SliceStopsScope
  <2>8. CASE SliceStopFails(l)
      BY <2>8, SliceAssumption DEF SliceStopFails
  <2>9. CASE SliceUnlocks(l)
      BY <2>9 DEF SliceUnlocks
  <2>10. CASE SliceConverts(l)
      BY <2>10 DEF SliceConverts, OthersHold
  <2>11. CASE SliceProbes(l)
      BY <2>11 DEF SliceProbes
  \* The holder of the exclusive lock finds no runner in the slice.
  <2>12. CASE SliceStops(l)
    <3>1. \A k \in SliceLanes : place[k] # "running"
        BY <2>12 DEF SliceStops
    <3>2. struck' = {}
        BY <2>12, <3>1 DEF SliceStops
    <3>3. scope' \in [SliceLanes -> {"none", "coming", "up"}]
        BY <2>12 DEF SliceStops
    <3>4. /\ place' = [place EXCEPT ![l] = "out"] /\ flock' = [flock EXCEPT ![l] = "none"]
          /\ sliceUp' = FALSE /\ trouble' = trouble
        BY <2>12 DEF SliceStops
    <3>5. place' \in [SliceLanes -> SlicePlaces] /\ flock' \in [SliceLanes -> {"none", "shared", "exclusive"}]
        BY <3>4
    <3>6. UsersHold' /\ ExclusiveIsAlone'
        BY <3>4
    <3> QED
        BY <3>2, <3>3, <3>4, <3>5, <3>6
  <2>13. CASE SliceReleaseFails(l)
      BY <2>13, SliceAssumption DEF SliceReleaseFails
  <2>14. CASE RunnerDies(l)
      BY <2>14, SliceAssumption DEF RunnerDies
  <2> HIDE DEF SliceInv, SliceTypeOK, SlicePlaces, UsersHold, ExclusiveIsAlone, SliceSparesLanes
  <2> QED
      BY <2>1, <2>2, <2>3, <2>4, <2>5, <2>6, <2>7, <2>8, <2>9, <2>10, <2>11, <2>12, <2>13, <2>14
<1> QED
    BY <1>1, <1>2

(* The state of the slice is always what LaneSlice declares.                *)
THEOREM SliceTypes == SliceSpec => []SliceTypeOK
<1>1. SliceInv => SliceTypeOK
    BY DEF SliceInv
<1> QED
    BY SliceInvInit, SliceInvStep, <1>1, PTL DEF SliceSpec

(* No release stops the slice under a lane whose runner is in it.           *)
THEOREM SliceIsSpared == SliceSpec => []SliceSparesLanes
<1>1. SliceInv => SliceSparesLanes
    BY DEF SliceInv
<1> QED
    BY SliceInvInit, SliceInvStep, <1>1, PTL DEF SliceSpec

(* Only a lane on its way through the slice holds the lock; and while       *)
(* nothing has failed, a scope belongs to a runner that will stop it, and   *)
(* the slice is up only with a lane that has yet to look behind it.         *)
OnItsWay == {"locked", "running", "release", "exclusive", "empty"}
HoldersUse == \A l \in SliceLanes : flock[l] # "none" => place[l] \in OnItsWay
SliceIsTended ==
  trouble = 0 =>
    /\ \A l \in SliceLanes : scope[l] # "none" => place[l] = "running"
    /\ sliceUp => \E l \in SliceLanes : place[l] \in OnItsWay \cup {"converting"}
ReclaimInv == HoldersUse /\ SliceIsTended

LEMMA ReclaimInvInit == SliceInit => ReclaimInv
BY DEF SliceInit, ReclaimInv, HoldersUse, SliceIsTended

LEMMA ReclaimInvStep == SliceInv /\ ReclaimInv /\ [SliceNext]_sliceVars => ReclaimInv'
<1> SUFFICES ASSUME SliceInv, ReclaimInv, [SliceNext]_sliceVars PROVE ReclaimInv'
    OBVIOUS
<1>0. /\ place \in [SliceLanes -> SlicePlaces] /\ flock \in [SliceLanes -> {"none", "shared", "exclusive"}]
      /\ scope \in [SliceLanes -> {"none", "coming", "up"}] /\ trouble \in Nat
      /\ UsersHold /\ ExclusiveIsAlone /\ HoldersUse /\ SliceIsTended
    BY SliceAssumption DEF SliceInv, SliceTypeOK, ReclaimInv
<1>1. CASE UNCHANGED sliceVars
    BY <1>0, <1>1 DEF sliceVars, ReclaimInv, HoldersUse, SliceIsTended
<1>2. CASE SliceNext
  <2> PICK l \in SliceLanes :
        \/ SliceAcquires(l) \/ SliceGivesUp(l) \/ SliceLaunches(l) \/ SliceLaunchFails(l)
        \/ ScopeStarts(l) \/ ScopeEmpties(l) \/ SliceStopsScope(l) \/ SliceStopFails(l)
        \/ SliceUnlocks(l) \/ SliceConverts(l) \/ SliceProbes(l) \/ SliceStops(l)
        \/ SliceReleaseFails(l) \/ RunnerDies(l)
      BY <1>2 DEF SliceNext
  \* What fails or kills counts as trouble, and gives no lock to anyone.
  <2>1. CASE SliceStopFails(l) \/ SliceReleaseFails(l) \/ RunnerDies(l)
    <3>1. trouble' # 0
        BY <1>0, <2>1 DEF SliceStopFails, SliceReleaseFails, RunnerDies
    <3>2. HoldersUse'
        BY <1>0, <2>1 DEF SliceStopFails, SliceReleaseFails, RunnerDies, HoldersUse, OnItsWay
    <3> QED
        BY <3>1, <3>2 DEF ReclaimInv, SliceIsTended
  <2>2. CASE SliceAcquires(l) \/ SliceGivesUp(l) \/ SliceLaunches(l) \/ SliceLaunchFails(l)
             \/ ScopeStarts(l) \/ ScopeEmpties(l) \/ SliceStopsScope(l) \/ SliceUnlocks(l)
    <3>1. trouble' = trouble /\ HoldersUse'
        BY <1>0, <2>2
        DEF SliceAcquires, SliceGivesUp, SliceLaunches, SliceLaunchFails, ScopeStarts, ScopeEmpties,
            SliceStopsScope, SliceUnlocks, HoldersUse, OnItsWay
    <3>2. ASSUME trouble = 0
          PROVE  /\ \A k \in SliceLanes : scope'[k] # "none" => place'[k] = "running"
                 /\ sliceUp' => \E k \in SliceLanes : place'[k] \in OnItsWay \cup {"converting"}
      <4>1. \A k \in SliceLanes : scope'[k] # "none" => place'[k] = "running"
          BY <1>0, <2>2, <3>2
          DEF SliceAcquires, SliceGivesUp, SliceLaunches, SliceLaunchFails, ScopeStarts, ScopeEmpties,
              SliceStopsScope, SliceUnlocks, SliceIsTended
      <4>2. \A k \in SliceLanes : place[k] \in OnItsWay \cup {"converting"}
                                    => place'[k] \in OnItsWay \cup {"converting"}
          BY <1>0, <2>2
          DEF SliceAcquires, SliceGivesUp, SliceLaunches, SliceLaunchFails, ScopeStarts, ScopeEmpties,
              SliceStopsScope, SliceUnlocks, OnItsWay
      <4>3. sliceUp' = sliceUp \/ place'[l] = "running"
          BY <1>0, <2>2, <3>2
          DEF SliceAcquires, SliceGivesUp, SliceLaunches, SliceLaunchFails, ScopeStarts, ScopeEmpties,
              SliceStopsScope, SliceUnlocks, SliceIsTended
      <4> QED
          BY <1>0, <3>2, <4>1, <4>2, <4>3 DEF SliceIsTended, OnItsWay
    <3> QED
        BY <3>1, <3>2 DEF ReclaimInv, SliceIsTended
  \* A lane that gives the conversion up leaves another that will look.
  <2>3. CASE SliceConverts(l)
    <3>1. HoldersUse'
        BY <1>0, <2>3 DEF SliceConverts, OthersHold, HoldersUse, OnItsWay
    <3>2. \E k \in SliceLanes : place'[k] \in OnItsWay
      <4>1. CASE OthersHold(l, {"shared", "exclusive"})
        <5>1. PICK k \in SliceLanes \ {l} : flock[k] # "none"
            BY <4>1 DEF OthersHold
        <5> QED
            BY <1>0, <2>3, <5>1 DEF SliceConverts, HoldersUse
      <4>2. CASE ~OthersHold(l, {"shared", "exclusive"})
          BY <1>0, <2>3, <4>2 DEF SliceConverts, OnItsWay
      <4> QED
          BY <4>1, <4>2
    <3>3. UNCHANGED <<scope, trouble>> /\ \A k \in SliceLanes : place[k] = "running" => place'[k] = "running"
        BY <1>0, <2>3 DEF SliceConverts
    <3> QED
        BY <1>0, <3>1, <3>2, <3>3 DEF ReclaimInv, SliceIsTended
  \* The holder of the exclusive lock is alone: no runner has a scope.
  <2>4. CASE SliceProbes(l)
    <3>1. HoldersUse'
        BY <1>0, <2>4 DEF SliceProbes, HoldersUse, OnItsWay
    <3>2. \A k \in SliceLanes : place[k] # "running"
        BY <1>0, <2>4 DEF SliceProbes, UsersHold, ExclusiveIsAlone
    <3>3. trouble = 0 => Childless
        BY <1>0, <3>2 DEF SliceIsTended, Childless
    <3> QED
        BY <1>0, <2>4, <3>1, <3>2, <3>3 DEF SliceProbes, ReclaimInv, SliceIsTended, OnItsWay
  <2>5. CASE SliceStops(l)
    <3>1. /\ HoldersUse' /\ sliceUp' = FALSE /\ trouble' = trouble
          /\ \A k \in SliceLanes : place[k] = "running" => place'[k] = "running"
        BY <1>0, <2>5 DEF SliceStops, HoldersUse, OnItsWay
    <3>2. \A k \in SliceLanes : scope'[k] # "none" => scope[k] # "none"
        BY <1>0, <2>5 DEF SliceStops
    <3> QED
        BY <1>0, <3>1, <3>2 DEF ReclaimInv, SliceIsTended
  <2> QED
      BY <2>1, <2>2, <2>3, <2>4, <2>5
<1> QED
    BY <1>1, <1>2

LEMMA SliceTold == ReclaimInv => SliceIsReclaimed
    BY DEF ReclaimInv, SliceIsTended, OnItsWay, SliceIsReclaimed

(* Once every lane is through, nothing has failed and no runner was killed, *)
(* the slice is gone: a lane that finds another holder gives up knowing     *)
(* that the other one will look (release).                                  *)
THEOREM SliceGoesWithItsLanes == SliceSpec => []SliceIsReclaimed
    BY SliceInvInit, SliceInvStep, ReclaimInvInit, ReclaimInvStep, SliceTold, PTL DEF SliceSpec

-----------------------------------------------------------------------------
(* Retention                                                                *)

(* A log that is gone from the run's directory is in the archive.           *)
GoneIsArchived ==
  /\ DOMAIN live \subseteq DOMAIN written
  /\ DOMAIN written \ DOMAIN live \subseteq DOMAIN archive
  /\ pass.at \in {"pack", "replace"} => archive = NoFiles

(* What a pass knows: the members are still there while it packs, and from  *)
(* the replacement on the archive holds what is about to be unlinked.       *)
PassKnows ==
  /\ pass.at \in {"pack", "resume", "replace"} => DOMAIN pass.members \subseteq DOMAIN live
  /\ pass.at = "pack" => pass.todo \subseteq DOMAIN live
  /\ pass.at = "replace" => \A f \in DOMAIN pass.members : f \in DOMAIN temp /\ temp[f] = live[f]
  /\ pass.at = "unlink" =>
       \A f \in pass.todo : f \in DOMAIN live /\ f \in DOMAIN archive /\ archive[f] = live[f]

(* What a run wrote of a log is in the live file, or in the archive.        *)
Kept(f) == IF f \in DOMAIN live THEN live[f] ELSE IF f \in DOMAIN archive THEN archive[f] ELSE 0
LogsAreKept == \A f \in DOMAIN written : Kept(f) = written[f]

ArchivalInv == ArchivalTypeOK /\ GoneIsArchived /\ PassKnows /\ LogsAreKept

LEMMA FilesAre ==
  ASSUME NEW files \in Files
  PROVE  /\ DOMAIN files \in SUBSET Logs
         /\ files \in [DOMAIN files -> 0..MaxBytes]
  BY DEF Files

LEMMA FilesOf ==
  ASSUME NEW names \in SUBSET Logs, NEW files \in [names -> 0..MaxBytes]
  PROVE  files \in Files
  BY DEF Files

LEMMA NoFilesAre == NoFiles \in Files /\ DOMAIN NoFiles = {}
<1>1. NoFiles \in [{} -> 0..MaxBytes] /\ DOMAIN NoFiles = {}
    BY DEF NoFiles
<1> QED
    BY <1>1, FilesOf

LEMMA WithFiles ==
  ASSUME NEW files \in Files, NEW f \in Logs, NEW size \in 0..MaxBytes
  PROVE  /\ With(files, f, size) \in Files
         /\ DOMAIN With(files, f, size) = DOMAIN files \cup {f}
         /\ With(files, f, size)[f] = size
         /\ \A g \in DOMAIN files \ {f} : With(files, f, size)[g] = files[g]
<1>1. With(files, f, size) \in [DOMAIN files \cup {f} -> 0..MaxBytes]
    BY FilesAre DEF With
<1> QED
    BY <1>1, FilesAre, FilesOf DEF With

LEMMA WithAny ==
  ASSUME NEW files \in Files, NEW f \in Logs
  PROVE  \A n \in 0..MaxBytes :
           /\ With(files, f, n) \in Files /\ DOMAIN With(files, f, n) = DOMAIN files \cup {f}
           /\ With(files, f, n)[f] = n /\ \A g \in DOMAIN files \ {f} : With(files, f, n)[g] = files[g]
  BY WithFiles

LEMMA WithoutFiles ==
  ASSUME NEW files \in Files, NEW f
  PROVE  /\ Without(files, f) \in Files
         /\ DOMAIN Without(files, f) = DOMAIN files \ {f}
         /\ \A g \in DOMAIN files \ {f} : Without(files, f)[g] = files[g]
<1>1. Without(files, f) \in [DOMAIN files \ {f} -> 0..MaxBytes]
    BY FilesAre DEF Without
<1> QED
    BY <1>1, FilesAre, FilesOf DEF Without

LEMMA ArchivalInvInit == ArchivalInit => ArchivalInv
<1> SUFFICES ASSUME ArchivalInit PROVE ArchivalInv
    OBVIOUS
<1>1. ArchivalTypeOK
  <2>1. passDeaths \in 0..RetentionDeaths
      BY RetentionAssumption DEF ArchivalInit
  <2> QED
      BY <2>1, NoFilesAre DEF ArchivalInit, ArchivalTypeOK, NoPass
<1>2. GoneIsArchived /\ PassKnows /\ LogsAreKept
    BY NoFilesAre DEF ArchivalInit, GoneIsArchived, PassKnows, LogsAreKept, NoPass
<1> QED
    BY <1>1, <1>2 DEF ArchivalInv

LEMMA ArchivalInvStep == ArchivalInv /\ [ArchivalNext]_archivalVars => ArchivalInv'
<1> SUFFICES ASSUME ArchivalInv, [ArchivalNext]_archivalVars PROVE ArchivalInv'
    OBVIOUS
<1>a. /\ live \in Files /\ temp \in Files /\ archive \in Files /\ written \in Files /\ marked \in Files
      /\ pass \in [at : {"idle", "pack", "resume", "replace", "unlink", "mark"},
                   members : Files, todo : SUBSET Logs]
      /\ passDeaths \in 0..RetentionDeaths
    BY DEF ArchivalInv, ArchivalTypeOK
<1>b. DOMAIN live \in SUBSET Logs /\ live \in [DOMAIN live -> 0..MaxBytes]
    BY <1>a, FilesAre
<1>c. GoneIsArchived /\ PassKnows /\ LogsAreKept
    BY DEF ArchivalInv
<1>n. NoFiles \in Files /\ DOMAIN NoFiles = {}
    BY NoFilesAre
<1>q. ArchivalTypeOK' /\ GoneIsArchived' /\ PassKnows' /\ LogsAreKept' => ArchivalInv'
    BY DEF ArchivalInv
<1> USE DEF GoneIsArchived, PassKnows, LogsAreKept, Kept
<1>1. CASE UNCHANGED archivalVars
    BY <1>a, <1>c, <1>q, <1>1 DEF archivalVars, ArchivalTypeOK
<1>2. ASSUME NEW f \in Logs, LogGrows(f) PROVE ArchivalInv'
  <2>1. /\ UNCHANGED <<temp, archive, pass, marked, passDeaths>>
        /\ pass.at \notin {"replace", "unlink", "mark"}
      BY <1>2 DEF LogGrows, LockedPass
  <2>2. (IF f \in DOMAIN live THEN live[f] + 1 ELSE 0) \in 0..MaxBytes
      BY <1>2, <1>b, RetentionAssumption DEF LogGrows
  <2>a. \A n \in 0..MaxBytes :
          /\ With(live, f, n) \in Files /\ DOMAIN With(live, f, n) = DOMAIN live \cup {f}
          /\ With(live, f, n)[f] = n /\ \A g \in DOMAIN live \ {f} : With(live, f, n)[g] = live[g]
      BY <1>a, WithAny
  <2>b. \A n \in 0..MaxBytes :
          /\ With(written, f, n) \in Files /\ DOMAIN With(written, f, n) = DOMAIN written \cup {f}
          /\ With(written, f, n)[f] = n /\ \A g \in DOMAIN written \ {f} : With(written, f, n)[g] = written[g]
      BY <1>a, WithAny
  <2> PICK size \in 0..MaxBytes : size = IF f \in DOMAIN live THEN live[f] + 1 ELSE 0
      BY <2>2
  <2>3. live' = With(live, f, size)
      BY <1>2 DEF LogGrows
  <2>4. /\ live' \in Files /\ DOMAIN live' = DOMAIN live \cup {f}
        /\ live'[f] = size /\ \A g \in DOMAIN live \ {f} : live'[g] = live[g]
      BY <2>3, <2>a
  <2>5. written' = With(written, f, size)
      BY <1>2, <2>4 DEF LogGrows
  <2>6. /\ written' \in Files /\ DOMAIN written' = DOMAIN written \cup {f}
        /\ written'[f] = size /\ \A g \in DOMAIN written \ {f} : written'[g] = written[g]
      BY <2>5, <2>b
  <2>7. ArchivalTypeOK'
      BY <1>a, <2>1, <2>4, <2>6 DEF ArchivalTypeOK
  <2>8. GoneIsArchived' /\ PassKnows'
    <3>1. GoneIsArchived'
        BY <1>c, <2>1, <2>4, <2>6
    <3>2. PassKnows'
        BY <1>c, <2>1, <2>4
    <3> QED
        BY <3>1, <3>2
  <2>9. LogsAreKept'
      BY <1>c, <2>1, <2>4, <2>6
  <2> QED
      BY <1>c, <1>q, <2>7, <2>8, <2>9
<1>3. CASE PassLists
  <2>1. pass' \in [at : {"pack", "resume"}, members : {live}, todo : {DOMAIN live}]
      BY <1>3 DEF PassLists
  <2>2. /\ temp' \in Files /\ UNCHANGED <<live, archive, written, marked, passDeaths>>
        /\ pass'.at = "pack" => archive = NoFiles
      BY <1>3, <1>a, <1>n DEF PassLists
  <2>3. ArchivalTypeOK'
      BY <2>1, <2>2, <1>a, <1>b DEF ArchivalTypeOK
  <2> QED
      BY <1>c, <1>q, <2>1, <2>2, <2>3
<1>4. CASE PassPacks
  <2> PICK f \in pass.todo :
        /\ temp' = With(temp, f, live[f])
        /\ pass' = [pass EXCEPT !.todo = @ \ {f}]
      BY <1>4 DEF PassPacks
  <2>1. pass.at = "pack" /\ UNCHANGED <<live, archive, written, marked, passDeaths>>
      BY <1>4 DEF PassPacks
  <2>2. f \in Logs /\ live[f] \in 0..MaxBytes
      BY <2>1, <1>a, <1>b, <1>c
  <2>3. temp' \in Files
      BY <2>2, <1>a, WithFiles
  <2>4. ArchivalTypeOK'
      BY <2>1, <2>3, <1>a DEF ArchivalTypeOK
  <2> QED
    <3>1. pass'.at = "pack" /\ pass'.members = pass.members /\ pass'.todo \subseteq pass.todo
        BY <2>1, <1>a
    <3> QED
        BY <1>c, <1>q, <2>1, <2>4, <3>1
<1>5. CASE PassGivesUp
  <2>1. ArchivalTypeOK'
      BY <1>5, <1>a, <1>n DEF PassGivesUp, ArchivalTypeOK, NoPass
  <2> QED
      BY <1>c, <1>q, <1>5, <2>1 DEF PassGivesUp, NoPass
<1>6. CASE PassLocks
  <2>1. ArchivalTypeOK'
      BY <1>6, <1>a, <1>n DEF PassLocks, ArchivalTypeOK, NoPass
  <2>2. pass.at = "pack" /\ UNCHANGED <<live, archive, written, marked, passDeaths>>
      BY <1>6 DEF PassLocks
  <2>3. CASE Unchanged(pass.members)
    <3>1. temp' = temp /\ pass' = [pass EXCEPT !.at = "replace"]
        BY <1>6, <2>3 DEF PassLocks
    <3>2. \A f \in DOMAIN pass.members : f \in DOMAIN temp /\ temp[f] = live[f]
        BY <1>6, <2>3 DEF PassLocks, Verified, Unchanged
    <3> QED
        BY <1>c, <1>q, <2>1, <2>2, <3>1, <3>2, <1>a
  <2>4. CASE ~Unchanged(pass.members)
    <3>1. pass' = NoPass
        BY <1>6, <2>4 DEF PassLocks
    <3> QED
        BY <1>c, <1>q, <2>1, <2>2, <3>1 DEF NoPass
  <2> QED
      BY <1>c, <1>q, <2>3, <2>4
\* Nothing was archived before, so every log that was written is still there.
<1>7. CASE PassReplaces
  <2>1. /\ pass.at = "replace" /\ archive' = temp /\ temp' = NoFiles
        /\ pass' = [pass EXCEPT !.at = "unlink", !.todo = DOMAIN pass.members]
        /\ UNCHANGED <<live, written, marked, passDeaths>>
      BY <1>7 DEF PassReplaces
  <2>2. DOMAIN pass.members \in SUBSET Logs
      BY <1>a, FilesAre
  <2>3. ArchivalTypeOK'
      BY <2>1, <2>2, <1>a, <1>n DEF ArchivalTypeOK
  <2>4. DOMAIN written = DOMAIN live
      BY <2>1, <1>n, <1>c
  <2> QED
      BY <1>c, <1>q, <2>1, <2>3, <2>4, <1>a
<1>8. CASE PassResumes
  <2> DEFINE sizes == [f \in DOMAIN pass.members |-> live[f]]
  <2>1. /\ pass.at = "resume" /\ UNCHANGED <<live, temp, archive, written, marked, passDeaths>>
        /\ pass' = IF Verified(archive, sizes) THEN [at |-> "unlink", members |-> sizes, todo |-> DOMAIN sizes]
                   ELSE NoPass
      BY <1>8 DEF PassResumes
  <2>2. DOMAIN sizes \in SUBSET Logs /\ sizes \in [DOMAIN sizes -> 0..MaxBytes]
      BY <2>1, <1>b, <1>c
  <2>3. sizes \in Files
      BY <2>2, FilesOf
  <2>4. \A f \in DOMAIN sizes : f \in DOMAIN live /\ sizes[f] = live[f]
      BY <2>1, <1>c
  <2> HIDE DEF sizes
  <2>5. ArchivalTypeOK'
      BY <2>1, <2>2, <2>3, <1>a, <1>n DEF ArchivalTypeOK, NoPass
  <2>6. PassKnows'
      BY <1>c, <2>1, <2>4 DEF Verified, NoPass
  <2>7. GoneIsArchived' /\ LogsAreKept'
      BY <1>c, <2>1 DEF NoPass
  <2> QED
      BY <1>c, <1>q, <2>5, <2>6, <2>7
<1>9. CASE PassUnlinks
  <2> PICK f \in pass.todo :
        /\ live' = Without(live, f)
        /\ pass' = [pass EXCEPT !.todo = @ \ {f}, !.at = IF pass.todo = {f} THEN "mark" ELSE @]
      BY <1>9 DEF PassUnlinks
  <2>1. pass.at = "unlink" /\ UNCHANGED <<temp, archive, written, marked, passDeaths>>
      BY <1>9 DEF PassUnlinks
  <2>2. /\ live' \in Files /\ DOMAIN live' = DOMAIN live \ {f}
        /\ \A g \in DOMAIN live \ {f} : live'[g] = live[g]
    <3>1. live \in Files /\ live' = Without(live, f)
        BY <1>a
    <3> HIDE DEF ArchivalInv
    <3> QED
        BY <3>1, WithoutFiles
  <2>3. /\ pass'.at \in {"unlink", "mark"} /\ pass'.todo = pass.todo \ {f} /\ pass'.members = pass.members
        /\ pass' \in [at : {"unlink", "mark"}, members : Files, todo : SUBSET Logs]
      BY <2>1, <1>a
  <2>4. ArchivalTypeOK'
    <3>1. /\ pass' \in [at : {"idle", "pack", "resume", "replace", "unlink", "mark"},
                       members : Files, todo : SUBSET Logs]
          /\ temp' \in Files /\ archive' \in Files /\ written' \in Files /\ marked' \in Files
          /\ passDeaths' \in 0..RetentionDeaths
        BY <2>1, <2>3, <1>a
    <3> QED
        BY <2>2, <3>1 DEF ArchivalTypeOK
  <2>5. GoneIsArchived'
    <3>1. f \in DOMAIN live /\ f \in DOMAIN archive
        BY <1>c, <2>1
    <3> QED
        BY <1>c, <2>1, <2>2, <2>3, <3>1
  <2>7. PassKnows'
    <3>1. \A g \in pass.todo \ {f} : g \in DOMAIN live' /\ g \in DOMAIN archive /\ archive[g] = live'[g]
        BY <1>c, <2>1, <2>2
    <3> QED
        BY <2>1, <2>3, <3>1
  <2>6. LogsAreKept'
      BY <1>c, <2>1, <2>2
  <2> QED
      BY <1>c, <1>q, <2>4, <2>5, <2>6, <2>7
<1>10. CASE PassMarks
  <2> DEFINE sizes == [f \in Logs |-> IF f \in DOMAIN pass.members THEN pass.members[f] ELSE 0]
  <2>1. sizes \in [Logs -> 0..MaxBytes]
      BY <1>a, FilesAre, RetentionAssumption
  <2>2. sizes \in Files
      BY <2>1, FilesOf
  <2>3. marked' = sizes /\ pass' = NoPass /\ UNCHANGED <<live, temp, archive, written, passDeaths>>
      BY <1>10 DEF PassMarks
  <2> HIDE DEF sizes
  <2>4. ArchivalTypeOK'
      BY <2>2, <2>3, <1>a, <1>n DEF ArchivalTypeOK, NoPass
  <2> QED
      BY <1>c, <1>q, <2>3, <2>4 DEF NoPass
<1>11. CASE PassDies
  <2>1. passDeaths' \in 0..RetentionDeaths
      BY <1>11, <1>a, RetentionAssumption DEF PassDies
  <2>2. pass' = NoPass /\ UNCHANGED <<live, temp, archive, written, marked>>
      BY <1>11 DEF PassDies
  <2>3. ArchivalTypeOK'
      BY <2>1, <2>2, <1>a, <1>n DEF ArchivalTypeOK, NoPass
  <2> QED
      BY <1>c, <1>q, <2>2, <2>3 DEF NoPass
<1> QED
    BY <1>1, <1>2, <1>3, <1>4, <1>5, <1>6, <1>7, <1>8, <1>9, <1>10, <1>11 DEF ArchivalNext

(* A log that is gone from the run's directory does not come back, and what *)
(* was written is never taken back.                                         *)
LEMMA GoneStaysGone ==
  ASSUME ArchivalInv, [ArchivalNext]_archivalVars, NEW f \in DOMAIN written
  PROVE  /\ f \in DOMAIN written' /\ written[f] <= written'[f]
         /\ f \notin DOMAIN live => f \notin DOMAIN live' /\ written'[f] = written[f]
<1> DEFINE Stays == /\ f \in DOMAIN written' /\ written[f] <= written'[f]
                    /\ f \notin DOMAIN live => f \notin DOMAIN live' /\ written'[f] = written[f]
<1>1. /\ live \in Files /\ written \in Files /\ f \in Logs /\ written[f] \in 0..MaxBytes
      /\ f \in DOMAIN live => live[f] = written[f]
    BY FilesAre DEF ArchivalInv, ArchivalTypeOK, LogsAreKept, Kept
<1>2. CASE UNCHANGED <<live, written>>
    BY <1>1, <1>2, RetentionAssumption
<1>3. ASSUME NEW g \in Logs, LogGrows(g) PROVE Stays
  <2>1. (IF g \in DOMAIN live THEN live[g] + 1 ELSE 0) \in 0..MaxBytes
      BY <1>1, <1>3, FilesAre, RetentionAssumption DEF LogGrows
  <2> PICK size \in 0..MaxBytes : size = IF g \in DOMAIN live THEN live[g] + 1 ELSE 0
      BY <2>1
  <2>w. live \in Files /\ written \in Files /\ g \in Logs
      BY <1>1, <1>3
  <2>a. \A n \in 0..MaxBytes :
          DOMAIN With(live, g, n) = DOMAIN live \cup {g} /\ With(live, g, n)[g] = n
      BY <2>w, WithAny
  <2>b. \A n \in 0..MaxBytes :
          /\ With(written, g, n) \in Files /\ DOMAIN With(written, g, n) = DOMAIN written \cup {g}
          /\ With(written, g, n)[g] = n /\ \A h \in DOMAIN written \ {g} : With(written, g, n)[h] = written[h]
      BY <2>w, WithAny
  <2>c. live' = With(live, g, size)
      BY <1>3 DEF LogGrows
  <2>2. DOMAIN live' = DOMAIN live \cup {g} /\ live'[g] = size
      BY <2>a, <2>c
  <2>d. written' = With(written, g, size)
      BY <1>3, <2>2 DEF LogGrows
  <2>3. /\ DOMAIN written' = DOMAIN written \cup {g} /\ written'[g] = size
        /\ \A h \in DOMAIN written \ {g} : written'[h] = written[h]
      BY <2>b, <2>d
  <2>4. CASE g = f
      BY <1>1, <1>3, <2>2, <2>3, <2>4, RetentionAssumption DEF LogGrows
  <2>5. CASE g # f
      BY <1>1, <2>2, <2>3, <2>5, RetentionAssumption
  <2> QED
      BY <2>4, <2>5
<1>4. CASE PassUnlinks
  <2> PICK g \in pass.todo : live' = Without(live, g) /\ written' = written
      BY <1>4 DEF PassUnlinks
  <2>1. DOMAIN live' = DOMAIN live \ {g}
      BY <1>1, WithoutFiles
  <2> QED
      BY <1>1, <2>1, RetentionAssumption
<1> QED
    BY <1>2, <1>3, <1>4 DEF ArchivalNext, archivalVars, PassLists, PassPacks, PassGivesUp, PassLocks,
       PassReplaces, PassResumes, PassMarks, PassDies

(* What a reader on its way relies on: the file it was sent to held what it *)
(* is owed, and the archive it was sent to holds it.                        *)
ReadKnows ==
  /\ reading.at \in {"live", "open"} =>
       /\ reading.log \in DOMAIN written /\ reading.owed <= written[reading.log]
       /\ cutShort[reading.log] = 0
  /\ reading.at = "archive" => reading.log \in Logs
  /\ reading.at = "archive" /\ reading.owed > 0 =>
       /\ reading.log \in DOMAIN written \ DOMAIN live /\ reading.owed <= written[reading.log]
  /\ \A f \in Logs : cutShort[f] > 0 => f \in DOMAIN written

RetentionInv == ArchivalInv /\ RetentionTypeOK /\ ReadKnows /\ LogsReadBack

LEMMA RetentionInvInit == RetentionInit => RetentionInv
<1> SUFFICES ASSUME RetentionInit PROVE RetentionInv
    OBVIOUS
<1>1. ArchivalInv
    BY ArchivalInvInit DEF RetentionInit
<1>2. RetentionTypeOK
    BY <1>1, RetentionAssumption DEF RetentionInit, RetentionTypeOK, ArchivalInv, NoRead
<1>3. ReadKnows /\ LogsReadBack
    BY DEF RetentionInit, ReadKnows, LogsReadBack, NoRead
<1> QED
    BY <1>1, <1>2, <1>3 DEF RetentionInv

(* The archival moves beside a reader.                                      *)
LEMMA ArchivalBesideReader ==
  ASSUME RetentionInv, [ArchivalNext]_archivalVars, UNCHANGED <<reading, cutShort>>
  PROVE  RetentionInv'
<1>1. ArchivalInv'
    BY ArchivalInvStep DEF RetentionInv
<1>2. RetentionTypeOK'
    BY <1>1 DEF RetentionInv, RetentionTypeOK, ArchivalInv
<1>3. /\ reading.owed \in Nat /\ MaxBytes \in Nat
      /\ \A f \in DOMAIN written : written[f] \in Nat /\ f \in Logs
      /\ \A f \in DOMAIN written' : written'[f] \in Nat
    BY <1>1, FilesAre, RetentionAssumption DEF RetentionInv, RetentionTypeOK, ArchivalInv, ArchivalTypeOK
<1>4. \A f \in DOMAIN written :
        /\ f \in DOMAIN written' /\ written[f] <= written'[f]
        /\ f \notin DOMAIN live => f \notin DOMAIN live' /\ written'[f] = written[f]
    BY GoneStaysGone DEF RetentionInv
<1>5. ReadKnows'
    BY <1>3, <1>4 DEF RetentionInv, ReadKnows
<1>6. \A f \in DOMAIN written' \ DOMAIN live' : f \in DOMAIN archive' /\ archive'[f] = written'[f]
    BY <1>1 DEF ArchivalInv, GoneIsArchived, LogsAreKept, Kept
<1>7. LogsReadBack'
    BY <1>4, <1>6 DEF RetentionInv, ReadKnows, LogsReadBack
<1> QED
    BY <1>1, <1>2, <1>5, <1>7 DEF RetentionInv

LEMMA RetentionInvStep == RetentionInv /\ [RetentionNext]_retentionVars => RetentionInv'
<1> SUFFICES ASSUME RetentionInv, [RetentionNext]_retentionVars PROVE RetentionInv'
    OBVIOUS
<1>1. CASE [ArchivalNext]_archivalVars /\ UNCHANGED <<reading, cutShort>>
    BY <1>1, ArchivalBesideReader
<1>2. CASE ReadStep /\ UNCHANGED archivalVars
  <2>1. ArchivalInv'
      BY <1>2, ArchivalInvStep DEF RetentionInv
  <2>2. /\ UNCHANGED <<live, archive, written>>
        /\ reading \in [at : {"idle", "live", "open", "archive"}, log : Logs \cup {"none"}, owed : 0..MaxBytes]
        /\ cutShort \in [Logs -> Nat] /\ MaxBytes \in Nat
      BY <1>2, RetentionAssumption DEF archivalVars, RetentionInv, RetentionTypeOK
  <2>3. /\ DOMAIN live \subseteq DOMAIN written /\ DOMAIN written \subseteq Logs
        /\ \A f \in DOMAIN written : /\ written[f] \in 0..MaxBytes /\ f \in Logs
                                     /\ f \in DOMAIN live => live[f] = written[f]
                                     /\ f \notin DOMAIN live => f \in DOMAIN archive /\ archive[f] = written[f]
      BY FilesAre DEF RetentionInv, ArchivalInv, ArchivalTypeOK, GoneIsArchived, LogsAreKept, Kept
  <2>4. ReadKnows /\ LogsReadBack
      BY DEF RetentionInv
  <2>5. ASSUME RetentionTypeOK', ReadKnows', LogsReadBack' PROVE RetentionInv'
      BY <2>1, <2>5 DEF RetentionInv
  <2>6. ASSUME NEW short \in BOOLEAN, ReadComesBack(short), reading.log \in Logs,
               short => /\ reading.log \in DOMAIN written \ DOMAIN live
                        /\ cutShort[reading.log] = 0
        PROVE  RetentionInv'
    <3>1. cutShort' \in [Logs -> Nat] /\ reading' = NoRead
        BY <2>2, <2>6 DEF ReadComesBack
    <3>2. RetentionTypeOK'
        BY <2>1, <2>2, <3>1 DEF RetentionTypeOK, ArchivalInv, NoRead
    <3>3. \A f \in Logs : cutShort'[f] = IF short /\ f = reading.log THEN cutShort[f] + 1 ELSE cutShort[f]
        BY <2>2, <2>6 DEF ReadComesBack
    <3>4. ReadKnows'
        BY <2>2, <2>4, <2>6, <3>1, <3>3 DEF ReadKnows, NoRead
    <3>5. LogsReadBack'
        BY <2>2, <2>3, <2>4, <2>6, <3>3 DEF LogsReadBack
    <3> QED
        BY <2>5, <3>2, <3>4, <3>5
  <2>7. ASSUME NEW f \in Logs, ReadBegins(f) PROVE RetentionInv'
    <3> DEFINE owed == IF f \in DOMAIN written THEN written[f] ELSE 0
    <3>1. owed \in 0..MaxBytes
        BY <2>2, <2>3
    <3>2. /\ reading' = [at |-> IF f \in DOMAIN live THEN "live" ELSE "archive", log |-> f, owed |-> owed]
          /\ cutShort' = cutShort
        BY <2>7 DEF ReadBegins
    <3>3. RetentionTypeOK'
        BY <2>1, <2>2, <3>1, <3>2 DEF RetentionTypeOK, ArchivalInv
    <3>4. ReadKnows'
        BY <2>2, <2>3, <2>4, <3>1, <3>2 DEF ReadKnows, LogsReadBack
    <3>5. LogsReadBack'
        BY <2>2, <2>4, <3>2 DEF LogsReadBack
    <3> QED
        BY <2>5, <3>3, <3>4, <3>5
  <2>8. CASE ReadLooksAgain
    <3>1. CASE reading.log \in DOMAIN live
      <4>1. reading' = [reading EXCEPT !.at = "open"] /\ cutShort' = cutShort /\ reading.at = "live"
          BY <2>8, <3>1 DEF ReadLooksAgain
      <4>2. RetentionTypeOK'
          BY <2>1, <2>2, <4>1 DEF RetentionTypeOK, ArchivalInv
      <4>3. ReadKnows' /\ LogsReadBack'
          BY <2>2, <2>4, <4>1 DEF ReadKnows, LogsReadBack
      <4> QED
          BY <2>5, <4>2, <4>3
    <3>2. CASE reading.log \notin DOMAIN live
      <4>1. reading.at = "live" /\ ReadComesBack(reading.owed > 0)
          BY <2>8, <3>2 DEF ReadLooksAgain
      <4>2. (reading.owed > 0) \in BOOLEAN /\ reading.log \in DOMAIN written /\ cutShort[reading.log] = 0
          BY <2>2, <2>4, <4>1 DEF ReadKnows
      <4> QED
          BY <2>3, <2>6, <3>2, <4>1, <4>2
    <3> QED
        BY <3>1, <3>2
  <2>9. CASE ReadOpens
    <3> DEFINE short == reading.log \in DOMAIN live => live[reading.log] < reading.owed
    <3>1. reading.at = "open" /\ ReadComesBack(short) /\ short \in BOOLEAN
        BY <2>9 DEF ReadOpens
    <3>2. /\ reading.log \in DOMAIN written /\ cutShort[reading.log] = 0
          /\ reading.owed <= written[reading.log] /\ reading.owed \in Nat
        BY <2>2, <2>4, <3>1 DEF ReadKnows
    <3>3. short => reading.log \notin DOMAIN live
        BY <2>2, <2>3, <3>2
    <3> QED
        BY <2>3, <2>6, <3>1, <3>2, <3>3
  <2>10. CASE ReadArchived
    <3>1. reading.at = "archive" /\ reading.log \in Logs
        BY <2>4, <2>10 DEF ReadArchived, ReadKnows
    <3>w. reading.owed > 0 \/ reading.owed = 0
        BY <2>2
    <3>2. ReadComesBack(FALSE)
      <4>1. CASE reading.owed > 0
        <5>1. reading.log \in DOMAIN archive /\ archive[reading.log] = written[reading.log]
              /\ reading.owed <= written[reading.log]
            BY <2>3, <2>4, <3>1, <4>1 DEF ReadKnows
        <5>2. written[reading.log] \in Nat /\ reading.owed \in Nat
            BY <2>2, <2>3, <2>4, <3>1, <4>1 DEF ReadKnows
        <5>3. ~(archive[reading.log] < reading.owed)
            BY <5>1, <5>2
        <5> QED
            BY <2>10, <5>1, <5>3 DEF ReadArchived, ReadComesBack
      <4>2. CASE reading.owed = 0
        <5>1. reading.log \in DOMAIN archive => ~(archive[reading.log] < reading.owed)
            BY <4>2, FilesAre, RetentionAssumption DEF RetentionInv, ArchivalInv, ArchivalTypeOK
        <5> QED
            BY <2>10, <4>2, <5>1 DEF ReadArchived, ReadComesBack
      <4> QED
          BY <3>w, <4>1, <4>2
    <3> QED
        BY <2>6, <3>1, <3>2
  <2> QED
      BY <1>2, <2>7, <2>8, <2>9, <2>10 DEF ReadStep
<1> QED
    BY <1>1, <1>2 DEF RetentionNext, retentionVars

(* A read of a log comes back with all that was written before it began,    *)
(* but for one that the unlink overtakes, for any logs, of any length, and  *)
(* any number of passes that die.                                           *)
THEOREM LogsAlwaysReadBack == RetentionSpec => []LogsReadBack
<1>1. RetentionInv => LogsReadBack
    BY DEF RetentionInv
<1> QED
    BY RetentionInvInit, RetentionInvStep, <1>1, PTL DEF RetentionSpec
-----------------------------------------------------------------------------
(* Lane markers                                                             *)

(* What each command knows: the holder of the store's lock is about to      *)
(* remove a marker that is over, and a deferral is on its way to the retry, *)
(* in it, or settled.                                                       *)
Removes(i, j) == j.at = "unlink" => storeLock = {i} /\ ~LiveAt(marker, j.moment)
Stamped(j) == j.at \in {"discard", "unlink"} => j.moment <= wall
DeferralIsDue(j) ==
  j.told = "deferred" =>
    \/ j.auto /\ j.at \in {"check", "discard", "unlink", "run", "ended", "settle"}
    \/ ~j.auto /\ j.at \in {"persist", "decide"} /\ j.mode # "work" /\ j.end = "refused"
    \/ j.at = "out" /\ j.kept
    \/ j.at = "dead"
Knows(i, j) == Removes(i, j) /\ Stamped(j) /\ DeferralIsDue(j)
HealthInv ==
  HealthTypeOK /\ MarkerIsVerdict /\ \A i \in Launches : Knows(i, job[i])

LEMMA ZeroIsMoment == 0 \in 0..MaxWall
    BY HealthAssumption

LEMMA HealthInvInit == HealthInit => HealthInv
<1> SUFFICES ASSUME HealthInit PROVE HealthInv
    OBVIOUS
<1> PICK mode \in Modes :
      job = [i \in Launches |->
                [at |-> "check", mode |-> mode[i], auto |-> FALSE, moment |-> 0, end |-> "none",
                 asked |-> FALSE, told |-> "none", first |-> "none", kept |-> FALSE]]
    BY DEF HealthInit
<1>1. HealthTypeOK
  <2>1. job \in [Launches -> Jobs]
      BY HealthAssumption DEF Jobs, Ends
  <2> QED
      BY <2>1, HealthAssumption DEF HealthInit, HealthTypeOK
<1>2. MarkerIsVerdict
    BY HealthAssumption DEF HealthInit, MarkerIsVerdict, LiveAt
<1>3. \A i \in Launches : Knows(i, job[i])
    BY DEF Knows, Removes, Stamped, DeferralIsDue
<1> QED
    BY <1>1, <1>2, <1>3 DEF HealthInv

(* A step of one command that leaves the store alone has to keep only what  *)
(* that command knows.                                                      *)
LEMMA OneCommandMoves ==
  ASSUME HealthInv, NEW i \in Launches, NEW j \in Jobs,
         job' = [job EXCEPT ![i] = j], UNCHANGED <<marker, storeLock, wall, verdict>>,
         Knows(i, j)
  PROVE  HealthInv'
<1>1. HealthTypeOK'
    BY DEF HealthInv, HealthTypeOK
<1>2. MarkerIsVerdict'
    BY DEF HealthInv, MarkerIsVerdict
<1>3. ASSUME NEW k \in Launches PROVE Knows(k, job[k])'
  <2>1. Knows(k, job'[k])
      BY DEF HealthInv, HealthTypeOK
  <2> QED
      BY <2>1 DEF Knows, Removes, Stamped, DeferralIsDue
<1> QED
    BY <1>1, <1>2, <1>3 DEF HealthInv

LEMMA CheckPassesKeeps == ASSUME HealthInv, NEW i \in Launches, CheckPasses(i) PROVE HealthInv'
<1> DEFINE j == [job[i] EXCEPT !.at = "run", !.moment = 0]
<1>1. job' = [job EXCEPT ![i] = j] /\ UNCHANGED <<marker, storeLock, wall, verdict>>
    BY DEF CheckPasses, Proceeds, StoreUnchanged
<1>2. job[i] \in Jobs /\ Knows(i, job[i]) /\ wall \in 0..MaxWall
    BY DEF HealthInv, HealthTypeOK
<1>3. j \in Jobs
    BY <1>2, ZeroIsMoment DEF Jobs
<1>4. Knows(i, j)
    BY <1>2 DEF CheckPasses, Knows, Removes, Stamped, DeferralIsDue, Jobs
<1> HIDE DEF j
<1> QED
    BY <1>1, <1>3, <1>4, OneCommandMoves

LEMMA CheckRefusesKeeps == ASSUME HealthInv, NEW i \in Launches, CheckRefuses(i) PROVE HealthInv'
<1> DEFINE j == [job[i] EXCEPT !.at = "out", !.end = "none", !.asked = FALSE, !.moment = 0, !.kept = job[i].auto]
<1>1. job' = [job EXCEPT ![i] = j] /\ UNCHANGED <<marker, storeLock, wall, verdict>>
    BY DEF CheckRefuses, Over, StoreUnchanged
<1>2. job[i] \in Jobs /\ Knows(i, job[i]) /\ wall \in 0..MaxWall
    BY DEF HealthInv, HealthTypeOK
<1>3. j \in Jobs
    BY <1>2, ZeroIsMoment DEF Jobs
<1>4. Knows(i, j)
    BY <1>2 DEF CheckRefuses, Knows, Removes, Stamped, DeferralIsDue, Jobs
<1> HIDE DEF j
<1> QED
    BY <1>1, <1>3, <1>4, OneCommandMoves

LEMMA CheckFindsStaleKeeps == ASSUME HealthInv, NEW i \in Launches, CheckFindsStale(i) PROVE HealthInv'
<1> DEFINE j == [job[i] EXCEPT !.at = "discard", !.moment = wall]
<1>1. job' = [job EXCEPT ![i] = j] /\ UNCHANGED <<marker, storeLock, wall, verdict>>
    BY DEF CheckFindsStale, StoreUnchanged
<1>2. job[i] \in Jobs /\ Knows(i, job[i]) /\ wall \in 0..MaxWall
    BY DEF HealthInv, HealthTypeOK
<1>3. j \in Jobs
    BY <1>2, ZeroIsMoment DEF Jobs
<1>4. Knows(i, j)
    BY <1>2 DEF CheckFindsStale, Knows, Removes, Stamped, DeferralIsDue, Jobs
<1> HIDE DEF j
<1> QED
    BY <1>1, <1>3, <1>4, OneCommandMoves

LEMMA DiscardGivesUpKeeps == ASSUME HealthInv, NEW i \in Launches, DiscardGivesUp(i) PROVE HealthInv'
<1> DEFINE j == [job[i] EXCEPT !.at = "run", !.moment = 0]
<1>1. job' = [job EXCEPT ![i] = j] /\ UNCHANGED <<marker, storeLock, wall, verdict>>
    BY DEF DiscardGivesUp, Proceeds, StoreUnchanged
<1>2. job[i] \in Jobs /\ Knows(i, job[i]) /\ wall \in 0..MaxWall
    BY DEF HealthInv, HealthTypeOK
<1>3. j \in Jobs
    BY <1>2, ZeroIsMoment DEF Jobs
<1>4. Knows(i, j)
    BY <1>2 DEF DiscardGivesUp, Knows, Removes, Stamped, DeferralIsDue, Jobs
<1> HIDE DEF j
<1> QED
    BY <1>1, <1>3, <1>4, OneCommandMoves

LEMMA LaunchFailsKeeps == ASSUME HealthInv, NEW i \in Launches, LaunchFails(i) PROVE HealthInv'
<1> DEFINE j == [job[i] EXCEPT !.at = "out", !.end = "none", !.asked = FALSE, !.moment = 0, !.kept = job[i].auto]
<1>1. job' = [job EXCEPT ![i] = j] /\ UNCHANGED <<marker, storeLock, wall, verdict>>
    BY DEF LaunchFails, Over, StoreUnchanged
<1>2. job[i] \in Jobs /\ Knows(i, job[i]) /\ wall \in 0..MaxWall
    BY DEF HealthInv, HealthTypeOK
<1>3. j \in Jobs
    BY <1>2, ZeroIsMoment DEF Jobs
<1>4. Knows(i, j)
    BY <1>2 DEF LaunchFails, Knows, Removes, Stamped, DeferralIsDue, Jobs
<1> HIDE DEF j
<1> QED
    BY <1>1, <1>3, <1>4, OneCommandMoves

LEMMA CancelStampsKeeps == ASSUME HealthInv, NEW i \in Launches, CancelStamps(i) PROVE HealthInv'
<1> DEFINE j == [job[i] EXCEPT !.asked = TRUE]
<1>1. job' = [job EXCEPT ![i] = j] /\ UNCHANGED <<marker, storeLock, wall, verdict>>
    BY DEF CancelStamps, Upset
<1>2. job[i] \in Jobs /\ Knows(i, job[i]) /\ wall \in 0..MaxWall
    BY DEF HealthInv, HealthTypeOK
<1>3. j \in Jobs
    BY <1>2, ZeroIsMoment DEF Jobs
<1>4. Knows(i, j)
    BY <1>2 DEF CancelStamps, Knows, Removes, Stamped, DeferralIsDue, Jobs
<1> HIDE DEF j
<1> QED
    BY <1>1, <1>3, <1>4, OneCommandMoves

LEMMA FinalReadsKeeps == ASSUME HealthInv, NEW i \in Launches, FinalReads(i) PROVE HealthInv'
<1> DEFINE j == IF job[i].asked THEN [job[i] EXCEPT !.at = "persist", !.told = "cancelled"]
              ELSE [job[i] EXCEPT !.at = "settle"]
<1>1. job' = [job EXCEPT ![i] = j] /\ UNCHANGED <<marker, storeLock, wall, verdict>>
    BY DEF FinalReads, StoreUnchanged
<1>2. job[i] \in Jobs /\ Knows(i, job[i]) /\ wall \in 0..MaxWall
    BY DEF HealthInv, HealthTypeOK
<1>3. j \in Jobs
    BY <1>2, ZeroIsMoment DEF Jobs
<1>4. Knows(i, j)
    BY <1>2 DEF FinalReads, Knows, Removes, Stamped, DeferralIsDue, Jobs
<1> HIDE DEF j
<1> QED
    BY <1>1, <1>3, <1>4, OneCommandMoves

LEMMA SettleFailsKeeps == ASSUME HealthInv, NEW i \in Launches, SettleFails(i) PROVE HealthInv'
<1> DEFINE j == [job[i] EXCEPT !.at = "persist", !.told = "unwritable"]
<1>1. job' = [job EXCEPT ![i] = j] /\ UNCHANGED <<marker, storeLock, wall, verdict>>
    BY DEF SettleFails, Told, StoreUnchanged
<1>2. job[i] \in Jobs /\ Knows(i, job[i]) /\ wall \in 0..MaxWall
    BY DEF HealthInv, HealthTypeOK
<1>3. j \in Jobs
    BY <1>2, ZeroIsMoment DEF Jobs
<1>4. Knows(i, j)
    BY <1>2 DEF SettleFails, Knows, Removes, Stamped, DeferralIsDue, Jobs
<1> HIDE DEF j
<1> QED
    BY <1>1, <1>3, <1>4, OneCommandMoves

LEMMA SettleSkipsKeeps == ASSUME HealthInv, NEW i \in Launches, SettleSkips(i) PROVE HealthInv'
<1> DEFINE j == [job[i] EXCEPT !.at = "persist", !.told = IF Defers(job[i]) THEN "deferred" ELSE "none"]
<1>1. job' = [job EXCEPT ![i] = j] /\ UNCHANGED <<marker, storeLock, wall, verdict>>
    BY DEF SettleSkips, Told, StoreUnchanged
<1>2. job[i] \in Jobs /\ Knows(i, job[i]) /\ wall \in 0..MaxWall
    BY DEF HealthInv, HealthTypeOK
<1>3. j \in Jobs
    BY <1>2, ZeroIsMoment DEF Jobs
<1>4. Knows(i, j)
    BY <1>2 DEF SettleSkips, Knows, Removes, Stamped, DeferralIsDue, Jobs, Defers, Earns
<1> HIDE DEF j
<1> QED
    BY <1>1, <1>3, <1>4, OneCommandMoves

LEMMA PersistsKeeps == ASSUME HealthInv, NEW i \in Launches, Persists(i) PROVE HealthInv'
<1> DEFINE j == [job[i] EXCEPT !.at = "decide",
                         !.first = IF job[i].auto THEN @
                                   ELSE IF job[i].asked THEN "cancelled"
                                   ELSE IF job[i].end = "success" THEN "succeeded" ELSE "failed"]
<1>1. job' = [job EXCEPT ![i] = j] /\ UNCHANGED <<marker, storeLock, wall, verdict>>
    BY DEF Persists, StoreUnchanged
<1>2. job[i] \in Jobs /\ Knows(i, job[i]) /\ wall \in 0..MaxWall
    BY DEF HealthInv, HealthTypeOK
<1>3. j \in Jobs
    BY <1>2, ZeroIsMoment DEF Jobs
<1>4. Knows(i, j)
    BY <1>2 DEF Persists, Knows, Removes, Stamped, DeferralIsDue, Jobs
<1> HIDE DEF j
<1> QED
    BY <1>1, <1>3, <1>4, OneCommandMoves

LEMMA ContinuesKeeps == ASSUME HealthInv, NEW i \in Launches, Continues(i) PROVE HealthInv'
<1> DEFINE j == [job[i] EXCEPT !.at = "check", !.auto = TRUE, !.end = "none", !.asked = FALSE]
<1>1. job' = [job EXCEPT ![i] = j] /\ UNCHANGED <<marker, storeLock, wall, verdict>>
    BY DEF Continues, StoreUnchanged
<1>2. job[i] \in Jobs /\ Knows(i, job[i]) /\ wall \in 0..MaxWall
    BY DEF HealthInv, HealthTypeOK
<1>3. j \in Jobs
    BY <1>2, ZeroIsMoment DEF Jobs
<1>4. Knows(i, j)
    BY <1>2 DEF Continues, Knows, Removes, Stamped, DeferralIsDue, Jobs, Resumes, Reruns, Noted
<1> HIDE DEF j
<1> QED
    BY <1>1, <1>3, <1>4, OneCommandMoves

LEMMA KeepsFirstKeeps == ASSUME HealthInv, NEW i \in Launches, KeepsFirst(i) PROVE HealthInv'
<1> DEFINE j == [job[i] EXCEPT !.at = "out", !.end = "none", !.asked = FALSE, !.moment = 0, !.kept = TRUE]
<1>1. job' = [job EXCEPT ![i] = j] /\ UNCHANGED <<marker, storeLock, wall, verdict>>
    BY DEF KeepsFirst, Over, StoreUnchanged
<1>2. job[i] \in Jobs /\ Knows(i, job[i]) /\ wall \in 0..MaxWall
    BY DEF HealthInv, HealthTypeOK
<1>3. j \in Jobs
    BY <1>2, ZeroIsMoment DEF Jobs
<1>4. Knows(i, j)
    BY <1>2 DEF KeepsFirst, Knows, Removes, Stamped, DeferralIsDue, Jobs, Resumes, Noted
<1> HIDE DEF j
<1> QED
    BY <1>1, <1>3, <1>4, OneCommandMoves

LEMMA FinishesKeeps == ASSUME HealthInv, NEW i \in Launches, Finishes(i) PROVE HealthInv'
<1> DEFINE j == [job[i] EXCEPT !.at = "out", !.end = "none", !.asked = FALSE, !.moment = 0, !.kept = FALSE]
<1>1. job' = [job EXCEPT ![i] = j] /\ UNCHANGED <<marker, storeLock, wall, verdict>>
    BY DEF Finishes, Over, StoreUnchanged
<1>2. job[i] \in Jobs /\ Knows(i, job[i]) /\ wall \in 0..MaxWall
    BY DEF HealthInv, HealthTypeOK
<1>3. j \in Jobs
    BY <1>2, ZeroIsMoment DEF Jobs
<1>4. Knows(i, j)
    BY <1>2 DEF Finishes, Knows, Removes, Stamped, DeferralIsDue, Jobs, Resumes, Reruns, Noted
<1> HIDE DEF j
<1> QED
    BY <1>1, <1>3, <1>4, OneCommandMoves

LEMMA RunEndsKeeps == ASSUME HealthInv, NEW i \in Launches, RunEnds(i) PROVE HealthInv'
<1> PICK end \in Ends : job' = [job EXCEPT ![i].at = "ended", ![i].end = end]
    BY DEF RunEnds
<1> DEFINE j == [job[i] EXCEPT !.at = "ended", !.end = end]
<1>1. job' = [job EXCEPT ![i] = j] /\ UNCHANGED <<marker, storeLock, wall, verdict>>
    BY DEF RunEnds, StoreUnchanged
<1>2. job[i] \in Jobs /\ Knows(i, job[i])
    BY DEF HealthInv, HealthTypeOK
<1>3. j \in Jobs
    BY <1>2 DEF Jobs
<1>4. Knows(i, j)
    BY <1>2 DEF RunEnds, Knows, Removes, Stamped, DeferralIsDue, Jobs
<1> HIDE DEF j
<1> QED
    BY <1>1, <1>3, <1>4, OneCommandMoves

(* A step that changes the store as well must leave the holder of its lock  *)
(* with what it knows.                                                      *)
LEMMA StoreMoves ==
  ASSUME HealthInv, NEW i \in Launches, NEW j \in Jobs,
         job' = [job EXCEPT ![i] = j], wall' = wall,
         marker' \in {NoMarker, Corrupt} \cup 1..(MaxWall + KnownBad),
         verdict' \in {NoMarker} \cup 1..(MaxWall + KnownBad),
         storeLock' \subseteq Launches, MarkerIsVerdict',
         j.at = "unlink" => storeLock' = {i} /\ ~LiveAt(marker', j.moment),
         Stamped(j), DeferralIsDue(j),
         \A k \in Launches \ {i} :
            job[k].at = "unlink" => storeLock' = {k} /\ ~LiveAt(marker', job[k].moment)
  PROVE  HealthInv'
<1>1. HealthTypeOK'
    BY DEF HealthInv, HealthTypeOK
<1>2. ASSUME NEW k \in Launches PROVE Knows(k, job[k])'
  <2>1. job'[k] = IF k = i THEN j ELSE job[k]
      BY DEF HealthInv, HealthTypeOK
  <2>2. Knows(k, job[k])
      BY DEF HealthInv
  <2> QED
      BY <2>1, <2>2 DEF Knows, Removes, Stamped, DeferralIsDue, LiveAt
<1> QED
    BY <1>1, <1>2 DEF HealthInv

(* A free lock means that nobody is about to remove the marker.             *)
LEMMA NobodyRemoves ==
  ASSUME HealthInv, storeLock = {}
  PROVE  \A k \in Launches : job[k].at # "unlink"
  BY DEF HealthInv, Knows, Removes

LEMMA DiscardLooksKeeps == ASSUME HealthInv, NEW i \in Launches, DiscardLooks(i) PROVE HealthInv'
<1> USE DEF DiscardLooks
<1>1. job[i] \in Jobs /\ Knows(i, job[i])
    BY DEF HealthInv, HealthTypeOK
<1>2. CASE LiveAt(marker, job[i].moment)
  <2> DEFINE j == [job[i] EXCEPT !.at = "run", !.moment = 0]
  <2>1. job' = [job EXCEPT ![i] = j] /\ UNCHANGED <<marker, storeLock, wall, verdict>>
      BY <1>2 DEF Proceeds
  <2>2. j \in Jobs /\ Knows(i, j)
      BY <1>1, ZeroIsMoment DEF Knows, Removes, Stamped, DeferralIsDue, Jobs
  <2> HIDE DEF j
  <2> QED
      BY <2>1, <2>2, OneCommandMoves
<1>3. CASE ~LiveAt(marker, job[i].moment)
  <2> DEFINE j == [job[i] EXCEPT !.at = "unlink"]
  <2>1. job' = [job EXCEPT ![i] = j] /\ UNCHANGED <<marker, wall, verdict>> /\ storeLock' = {i}
      BY <1>3
  <2>2. j \in Jobs /\ Stamped(j) /\ DeferralIsDue(j) /\ ~LiveAt(marker, j.moment)
      BY <1>1, <1>3 DEF Knows, Stamped, DeferralIsDue, Jobs
  <2>3. \A k \in Launches : job[k].at # "unlink"
      BY NobodyRemoves
  <2>4. MarkerIsVerdict' /\ marker \in {NoMarker, Corrupt} \cup 1..(MaxWall + KnownBad)
        /\ verdict \in {NoMarker} \cup 1..(MaxWall + KnownBad)
      BY <2>1 DEF HealthInv, HealthTypeOK, MarkerIsVerdict
  <2>5. ~LiveAt(marker', j.moment)
      BY <2>1, <2>2
  <2> HIDE DEF j, DiscardLooks
  <2> QED
      BY <2>1, <2>2, <2>3, <2>4, <2>5, StoreMoves
<1> QED
    BY <1>2, <1>3

LEMMA DiscardUnlinksKeeps == ASSUME HealthInv, NEW i \in Launches, DiscardUnlinks(i) PROVE HealthInv'
<1> DEFINE j == [job[i] EXCEPT !.at = "run", !.moment = 0]
<1>1. job[i] \in Jobs /\ Knows(i, job[i]) /\ wall \in 0..MaxWall
    BY DEF HealthInv, HealthTypeOK
<1>2. /\ job' = [job EXCEPT ![i] = j] /\ UNCHANGED <<wall, verdict>>
      /\ storeLock' = {} /\ marker' = NoMarker /\ job[i].at = "unlink"
    BY DEF DiscardUnlinks, Proceeds
<1>3. j \in Jobs /\ Stamped(j) /\ DeferralIsDue(j) /\ j.at = "run"
    BY <1>1, <1>2, ZeroIsMoment DEF Knows, Stamped, DeferralIsDue, Jobs
\* What goes was over when it was read, so it is over now.
<1>4. ~LiveAt(marker, wall)
  <2>1. ~LiveAt(marker, job[i].moment) /\ job[i].moment <= wall
      BY <1>1, <1>2 DEF Knows, Removes, Stamped
  <2>2. job[i].moment \in Nat /\ wall \in Nat
      BY <1>1, HealthAssumption DEF Jobs
  <2> QED
      BY <2>1, <2>2 DEF LiveAt
<1>5. MarkerIsVerdict'
    BY <1>2, <1>4, HealthAssumption DEF HealthInv, MarkerIsVerdict, LiveAt
<1>6. \A k \in Launches \ {i} : job[k].at # "unlink"
    BY <1>1, <1>2 DEF HealthInv, Knows, Removes
<1>7. verdict \in {NoMarker} \cup 1..(MaxWall + KnownBad)
    BY DEF HealthInv, HealthTypeOK
<1> HIDE DEF j
<1> QED
    BY <1>2, <1>3, <1>5, <1>6, <1>7, StoreMoves

LEMMA SettleClearsKeeps == ASSUME HealthInv, NEW i \in Launches, SettleClears(i) PROVE HealthInv'
<1> DEFINE j == [job[i] EXCEPT !.at = "persist", !.told = "cleared"]
<1>1. job[i] \in Jobs /\ Knows(i, job[i]) /\ storeLock \subseteq Launches
    BY DEF HealthInv, HealthTypeOK
<1>2. /\ job' = [job EXCEPT ![i] = j] /\ UNCHANGED <<wall, storeLock>>
      /\ marker' = NoMarker /\ verdict' = NoMarker
    BY DEF SettleClears, Told
<1>3. j \in Jobs /\ Stamped(j) /\ DeferralIsDue(j) /\ j.at = "persist"
    BY <1>1 DEF Knows, Stamped, DeferralIsDue, Jobs
<1>4. MarkerIsVerdict'
    BY <1>2 DEF MarkerIsVerdict
<1>5. \A k \in Launches \ {i} :
         job[k].at = "unlink" => storeLock' = {k} /\ ~LiveAt(marker', job[k].moment)
    BY <1>2, HealthAssumption DEF HealthInv, Knows, Removes, LiveAt
<1> HIDE DEF j
<1> QED
    BY <1>1, <1>2, <1>3, <1>4, <1>5, StoreMoves

LEMMA SettleWritesKeeps == ASSUME HealthInv, NEW i \in Launches, SettleWrites(i) PROVE HealthInv'
<1> DEFINE j == [job[i] EXCEPT !.at = "persist", !.told = "written"]
<1>1. job[i] \in Jobs /\ Knows(i, job[i]) /\ wall \in 0..MaxWall
    BY DEF HealthInv, HealthTypeOK
<1>2. /\ job' = [job EXCEPT ![i] = j] /\ UNCHANGED <<wall, storeLock>> /\ storeLock = {}
      /\ marker' = wall + KnownBad /\ verdict' = wall + KnownBad
    BY DEF SettleWrites, Told
<1>3. j \in Jobs /\ Stamped(j) /\ DeferralIsDue(j) /\ j.at = "persist"
    BY <1>1 DEF Knows, Stamped, DeferralIsDue, Jobs
<1>4. MarkerIsVerdict'
    BY <1>2 DEF MarkerIsVerdict
<1>5. \A k \in Launches : job[k].at # "unlink"
    BY <1>2, NobodyRemoves
<1>6. wall + KnownBad \in 1..(MaxWall + KnownBad)
    BY <1>1, HealthAssumption
<1> HIDE DEF j
<1> QED
    BY <1>2, <1>3, <1>4, <1>5, <1>6, StoreMoves

LEMMA CommandDiesKeeps == ASSUME HealthInv, NEW i \in Launches, CommandDies(i) PROVE HealthInv'
<1> DEFINE j == [job[i] EXCEPT !.at = "dead", !.end = "none", !.asked = FALSE, !.moment = 0, !.kept = FALSE]
<1>1. job[i] \in Jobs /\ Knows(i, job[i]) /\ HealthTypeOK /\ MarkerIsVerdict
    BY DEF HealthInv, HealthTypeOK
<1>2. /\ job' = [job EXCEPT ![i] = j] /\ UNCHANGED <<marker, wall, verdict>>
      /\ storeLock' = storeLock \ {i}
    BY DEF CommandDies, Over
<1>3. j \in Jobs /\ Stamped(j) /\ DeferralIsDue(j) /\ j.at = "dead"
    BY <1>1, ZeroIsMoment DEF Stamped, DeferralIsDue, Jobs
<1>4. MarkerIsVerdict'
    BY <1>1, <1>2 DEF MarkerIsVerdict
<1>5. \A k \in Launches \ {i} :
         job[k].at = "unlink" => storeLock' = {k} /\ ~LiveAt(marker', job[k].moment)
    BY <1>2 DEF HealthInv, Knows, Removes
<1> HIDE DEF j
<1> QED
    BY <1>1, <1>2, <1>3, <1>4, <1>5, StoreMoves DEF HealthTypeOK

LEMMA WallTicksKeeps == ASSUME HealthInv, WallTicks PROVE HealthInv'
<1>1. wall \in 0..MaxWall /\ wall' = wall + 1 /\ wall' \in 0..MaxWall
    BY HealthAssumption DEF HealthInv, HealthTypeOK, WallTicks
<1>2. HealthTypeOK'
    BY <1>1 DEF HealthInv, HealthTypeOK, WallTicks
<1>3. MarkerIsVerdict'
    BY <1>1, HealthAssumption DEF HealthInv, MarkerIsVerdict, LiveAt, WallTicks
<1>4. ASSUME NEW k \in Launches PROVE Knows(k, job[k])'
  <2>1. Knows(k, job[k]) /\ job[k].moment \in Nat /\ wall \in Nat
      BY <1>1, HealthAssumption DEF HealthInv, HealthTypeOK, Jobs
  <2> QED
      BY <1>1, <2>1 DEF Knows, Removes, Stamped, DeferralIsDue, WallTicks
<1> QED
    BY <1>2, <1>3, <1>4 DEF HealthInv

LEMMA HealthInvStep == HealthInv /\ [HealthNext]_healthVars => HealthInv'
<1> SUFFICES ASSUME HealthInv, [HealthNext]_healthVars PROVE HealthInv'
    OBVIOUS
<1>1. CASE UNCHANGED healthVars
    BY <1>1 DEF healthVars, HealthInv, HealthTypeOK, MarkerIsVerdict, Knows, Removes, Stamped, DeferralIsDue
<1>2. CASE HealthNext
    BY <1>2, WallTicksKeeps, CheckPassesKeeps, CheckRefusesKeeps, CheckFindsStaleKeeps, DiscardLooksKeeps,
       DiscardUnlinksKeeps, DiscardGivesUpKeeps, RunEndsKeeps, LaunchFailsKeeps, CancelStampsKeeps,
       FinalReadsKeeps, SettleClearsKeeps, SettleWritesKeeps, SettleFailsKeeps, SettleSkipsKeeps,
       PersistsKeeps, ContinuesKeeps, KeepsFirstKeeps, FinishesKeeps, CommandDiesKeeps DEF HealthNext
<1> QED
    BY <1>1, <1>2

(* The marker that a launch can meet is the one the last finished run asked *)
(* for, for any number of launches and any clock.                           *)
THEOREM MarkersAreVerdicts == HealthSpec => []MarkerIsVerdict
<1>1. HealthInv => MarkerIsVerdict
    BY DEF HealthInv
<1> QED
    BY HealthInvInit, HealthInvStep, <1>1, PTL DEF HealthSpec

LEMMA DeferralTold == HealthInv => DeferralIsSettled
    BY DEF HealthInv, Knows, DeferralIsDue, DeferralIsSettled

(* No command that ends leaves a deferred refusal undecided.                *)
THEOREM DeferralsAreSettled == HealthSpec => []DeferralIsSettled
    BY HealthInvInit, HealthInvStep, DeferralTold, PTL DEF HealthSpec

-----------------------------------------------------------------------------
(* The three ways of using the worktree that a removal must see: the owner  *)
(* run's own process group or its setup, an attached run whose harness runs *)
(* or is about to, and a harness of a run in the nested registry.           *)
OwnerUses == (GroupAlive(Owner) /\ Known(Owner)) \/ Leased(Owner)
AttachedUses(a) ==
  (child[a] = "leader" /\ Known(a)) \/ (rec[a] \in {"registered", "running"} /\ at[a] \in {"valid", "spawned", "up"})
NestedUses(n) == child[n] = "leader" /\ Known(n)

(* What a launcher knows of its own run at each place: it starts a harness  *)
(* with its registry's lock held, and a published child is in the record.   *)
LockOf(r) == IF r \in Nested THEN nestLock ELSE regLock
UserKnows(r) ==
  /\ at[r] = "spawned" => LockOf(r) = r
  /\ at[r] = "up" => r \in named
  /\ at[r] \in {"idle", "checked", "ensured", "registered", "valid"} => child[r] = "none" /\ r \notin named
  /\ r \in named /\ child[r] = "leader" => rec[r] \in {"running", "lost"}
  /\ rec[r] = "lost" => r \in Nested /\ ~path
  /\ r = Owner => at[r] \in {"spawned", "up", "done", "dead"}
UsersKnow == \A r \in Users : UserKnows(r)

(* The remover holds the registry lock from its check to its end, and the   *)
(* nested lock from its second check on when there is a nested registry.    *)
RemoverHolds ==
  /\ removal.at # "idle" => regLock = Remover
  /\ removal.at \in {"walked", "cleared"} /\ ~removal.absent => nestLock = Remover /\ nestReg
  /\ removal.at \in {"planned", "walked", "cleared"} => path
(* Under those locks what the checks found stays true until the removal.    *)
NobodyUses ==
  /\ removal.at \in {"planned", "walked", "cleared"} => ~OwnerUses /\ \A a \in Attached : ~AttachedUses(a)
  /\ removal.at = "cleared" /\ removal.by = "remove" /\ ~removal.absent => \A n \in Nested : ~NestedUses(n)
LeaseInv == LeaseTypeOK /\ UsersKnow /\ RemoverHolds /\ NobodyUses /\ RemovalSparesUsers

LEMMA LeaseInvInit == LeaseInit => LeaseInv
<1> SUFFICES ASSUME LeaseInit PROVE LeaseInv
    OBVIOUS
<1>1. LeaseTypeOK
    BY DEF LeaseInit, LeaseTypeOK, Users, RecStates, ChildStates, Places, NoRemoval
<1>2. UsersKnow
    BY DEF LeaseInit, UsersKnow, UserKnows
<1>3. RemoverHolds /\ NobodyUses /\ RemovalSparesUsers
    BY DEF LeaseInit, NoRemoval, RemoverHolds, NobodyUses, RemovalSparesUsers
<1> QED
    BY <1>1, <1>2, <1>3 DEF LeaseInv

LEMMA LeaseTypeStep == LeaseTypeOK /\ [LeaseNext]_leaseVars => LeaseTypeOK'
<1> SUFFICES ASSUME LeaseTypeOK, [LeaseNext]_leaseVars PROVE LeaseTypeOK'
    OBVIOUS
<1>1. ASSUME NEW a \in Attached, AttachChecks(a) PROVE LeaseTypeOK'
    BY <1>1 DEF AttachChecks, LeaseTypeOK, Places
<1>2. ASSUME NEW a \in Attached, AttachRegisters(a) PROVE LeaseTypeOK'
    BY <1>2 DEF AttachRegisters, LeaseTypeOK, RecStates, Places
<1>3. ASSUME NEW a \in Attached, AttachRevalidates(a) PROVE LeaseTypeOK'
    BY <1>3 DEF AttachRevalidates, LeaseTypeOK, RecStates, Places
<1>4. ASSUME NEW n \in Nested, NestChecks(n) PROVE LeaseTypeOK'
    BY <1>4 DEF NestChecks, LeaseTypeOK, Places
<1>5. ASSUME NEW n \in Nested, NestEnsures(n) PROVE LeaseTypeOK'
    BY <1>5 DEF NestEnsures, LeaseTypeOK, Places
<1>6. ASSUME NEW n \in Nested, NestRegisters(n) PROVE LeaseTypeOK'
    BY <1>6 DEF NestRegisters, LeaseTypeOK, RecStates, Places
<1>7. ASSUME NEW n \in Nested, NestMisses(n) PROVE LeaseTypeOK'
    BY <1>7 DEF NestMisses, LeaseTypeOK, Places
<1>8. ASSUME NEW r \in Users, Spawns(r) PROVE LeaseTypeOK'
    BY <1>8 DEF Spawns, LeaseTypeOK, ChildStates, Places, Takes
<1>9. ASSUME NEW r \in Users, Publishes(r) PROVE LeaseTypeOK'
    BY <1>9 DEF Publishes, LeaseTypeOK, RecStates, Places, Drops
<1>10. ASSUME NEW r \in Users, ChildEnds(r) PROVE LeaseTypeOK'
    BY <1>10 DEF ChildEnds, LeaseTypeOK, ChildStates
<1>11. ASSUME NEW r \in Users, RunFinalizes(r) PROVE LeaseTypeOK'
    BY <1>11 DEF RunFinalizes, LeaseTypeOK, RecStates, Places
<1>12. ASSUME NEW r \in Users, UserDies(r) PROVE LeaseTypeOK'
    BY <1>12 DEF UserDies, LeaseTypeOK, Places, Drops
<1>13. CASE RemoveInspects
    BY <1>13 DEF RemoveInspects, LeaseTypeOK
<1>14. CASE RemoveMarksMissing
    BY <1>14 DEF RemoveMarksMissing, LeaseTypeOK
<1>15. CASE RemoveWalks
    BY <1>15 DEF RemoveWalks, LeaseTypeOK
<1>16. CASE RemoveRechecks
    BY <1>16 DEF RemoveRechecks, LeaseTypeOK
<1>17. CASE ReapInspects
    BY <1>17 DEF ReapInspects, LeaseTypeOK
<1>18. CASE ReapLocks
    BY <1>18 DEF ReapLocks, LeaseTypeOK
<1>19. CASE RemoveDeletes
  <2>1. hit' \subseteq Users \X {"remove", "reap"}
    <3>1. removal.by \in {"remove", "reap"}
        BY DEF LeaseTypeOK
    <3> QED
        BY <1>19, <3>1 DEF RemoveDeletes
  <2>2. rec' \in [Users -> RecStates]
      BY <1>19 DEF RemoveDeletes, LeaseTypeOK, RecStates
  <2> QED
      BY <1>19, <2>1, <2>2 DEF RemoveDeletes, LeaseTypeOK
<1>20. CASE RemoveMarks
    BY <1>20 DEF RemoveMarks, LeaseTypeOK, Drops, NoRemoval
<1>21. CASE RemoveEnds
    BY <1>21 DEF RemoveEnds, LeaseTypeOK, Drops, NoRemoval
<1>22. CASE UNCHANGED leaseVars
    BY <1>22 DEF leaseVars, LeaseTypeOK
<1> QED
    BY <1>1, <1>2, <1>3, <1>4, <1>5, <1>6, <1>7, <1>8, <1>9, <1>10, <1>11, <1>12, <1>13, <1>14, <1>15,
       <1>16, <1>17, <1>18, <1>19, <1>20, <1>21, <1>22 DEF LeaseNext

LEMMA UsersKnowStep == LeaseInv /\ [LeaseNext]_leaseVars => UsersKnow'
<1> SUFFICES ASSUME LeaseInv, [LeaseNext]_leaseVars, NEW u \in Users PROVE UserKnows(u)'
    BY DEF UsersKnow
<1>1. ASSUME NEW a \in Attached, AttachChecks(a) PROVE UserKnows(u)'
    BY <1>1 DEF AttachChecks, LeaseInv, UsersKnow, UserKnows, LockOf
<1>2. ASSUME NEW a \in Attached, AttachRegisters(a) PROVE UserKnows(u)'
    BY <1>2 DEF AttachRegisters, LeaseInv, UsersKnow, UserKnows, LockOf
<1>3. ASSUME NEW a \in Attached, AttachRevalidates(a) PROVE UserKnows(u)'
    BY <1>3 DEF AttachRevalidates, LeaseInv, LeaseTypeOK, UsersKnow, UserKnows, LockOf
<1>4. ASSUME NEW n \in Nested, NestChecks(n) PROVE UserKnows(u)'
    BY <1>4 DEF NestChecks, LeaseInv, UsersKnow, UserKnows, LockOf
<1>5. ASSUME NEW n \in Nested, NestEnsures(n) PROVE UserKnows(u)'
    BY <1>5 DEF NestEnsures, LeaseInv, UsersKnow, UserKnows, LockOf
<1>6. ASSUME NEW n \in Nested, NestRegisters(n) PROVE UserKnows(u)'
    BY <1>6 DEF NestRegisters, LeaseInv, UsersKnow, UserKnows, LockOf
<1>7. ASSUME NEW n \in Nested, NestMisses(n) PROVE UserKnows(u)'
    BY <1>7 DEF NestMisses, LeaseInv, UsersKnow, UserKnows, LockOf
<1>8. ASSUME NEW r \in Users, Spawns(r) PROVE UserKnows(u)'
    BY <1>8, LeaseAssumption DEF Spawns, LockFree, Takes, LeaseInv, LeaseTypeOK, UsersKnow, UserKnows, LockOf
<1>9. ASSUME NEW r \in Users, Publishes(r) PROVE UserKnows(u)'
    BY <1>9 DEF Publishes, Drops, LeaseInv, LeaseTypeOK, UsersKnow, UserKnows, LockOf
<1>10. ASSUME NEW r \in Users, ChildEnds(r) PROVE UserKnows(u)'
    BY <1>10 DEF ChildEnds, GroupAlive, LeaseInv, UsersKnow, UserKnows, LockOf
<1>11. ASSUME NEW r \in Users, RunFinalizes(r) PROVE UserKnows(u)'
    BY <1>11 DEF RunFinalizes, LeaseInv, UsersKnow, UserKnows, LockOf
<1>12. ASSUME NEW r \in Users, UserDies(r) PROVE UserKnows(u)'
    BY <1>12 DEF UserDies, Drops, LeaseInv, LeaseTypeOK, UsersKnow, UserKnows, LockOf
<1>13. CASE RemoveInspects
    BY <1>13, LeaseAssumption DEF RemoveInspects, LeaseInv, UsersKnow, UserKnows, LockOf
<1>14. CASE RemoveMarksMissing
    BY <1>14 DEF RemoveMarksMissing, LeaseInv, UsersKnow, UserKnows, LockOf
<1>15. CASE RemoveWalks
    BY <1>15, LeaseAssumption DEF RemoveWalks, LeaseInv, UsersKnow, UserKnows, LockOf
<1>16. CASE RemoveRechecks
    BY <1>16 DEF RemoveRechecks, LeaseInv, UsersKnow, UserKnows, LockOf
<1>17. CASE ReapInspects
    BY <1>17, LeaseAssumption DEF ReapInspects, LeaseInv, UsersKnow, UserKnows, LockOf
<1>18. CASE ReapLocks
    BY <1>18, LeaseAssumption DEF ReapLocks, LeaseInv, UsersKnow, UserKnows, LockOf
<1>19. CASE RemoveDeletes
    BY <1>19 DEF RemoveDeletes, LeaseInv, UsersKnow, UserKnows, LockOf
<1>20. CASE RemoveMarks
    BY <1>20, LeaseAssumption DEF RemoveMarks, Drops, LeaseInv, UsersKnow, UserKnows, LockOf
<1>21. CASE RemoveEnds
    BY <1>21, LeaseAssumption DEF RemoveEnds, Drops, LeaseInv, UsersKnow, UserKnows, LockOf
<1>22. CASE UNCHANGED leaseVars
    BY <1>22 DEF leaseVars, LeaseInv, UsersKnow, UserKnows, LockOf
<1> QED
    BY <1>1, <1>2, <1>3, <1>4, <1>5, <1>6, <1>7, <1>8, <1>9, <1>10, <1>11, <1>12, <1>13, <1>14, <1>15,
       <1>16, <1>17, <1>18, <1>19, <1>20, <1>21, <1>22 DEF LeaseNext

LEMMA RemovalStep == LeaseInv /\ [LeaseNext]_leaseVars => (RemoverHolds /\ NobodyUses /\ RemovalSparesUsers)'
<1> SUFFICES ASSUME LeaseInv, [LeaseNext]_leaseVars PROVE (RemoverHolds /\ NobodyUses /\ RemovalSparesUsers)'
    OBVIOUS
<1>1. ASSUME NEW a \in Attached, AttachChecks(a) PROVE (RemoverHolds /\ NobodyUses /\ RemovalSparesUsers)'
    BY <1>1 DEF AttachChecks, LeaseInv, RemoverHolds, NobodyUses, RemovalSparesUsers, OwnerUses,
       AttachedUses, NestedUses, GroupAlive, Known, LauncherAlive, Leased
<1>2. ASSUME NEW a \in Attached, AttachRegisters(a) PROVE (RemoverHolds /\ NobodyUses /\ RemovalSparesUsers)'
    BY <1>2 DEF AttachRegisters, LeaseInv, LeaseTypeOK, UsersKnow, UserKnows, RemoverHolds, NobodyUses,
       RemovalSparesUsers, OwnerUses, AttachedUses, NestedUses, GroupAlive, Known, LauncherAlive, Leased
<1>3. ASSUME NEW a \in Attached, AttachRevalidates(a) PROVE (RemoverHolds /\ NobodyUses /\ RemovalSparesUsers)'
    BY <1>3, LeaseAssumption DEF AttachRevalidates, LockFree, LeaseInv, RemoverHolds, NobodyUses,
       RemovalSparesUsers
<1>4. ASSUME NEW n \in Nested, NestChecks(n) PROVE (RemoverHolds /\ NobodyUses /\ RemovalSparesUsers)'
    BY <1>4 DEF NestChecks, LeaseInv, RemoverHolds, NobodyUses, RemovalSparesUsers, OwnerUses,
       AttachedUses, NestedUses, GroupAlive, Known, LauncherAlive, Leased
<1>5. ASSUME NEW n \in Nested, NestEnsures(n) PROVE (RemoverHolds /\ NobodyUses /\ RemovalSparesUsers)'
    BY <1>5 DEF NestEnsures, LeaseInv, RemoverHolds, NobodyUses, RemovalSparesUsers, OwnerUses,
       AttachedUses, NestedUses, GroupAlive, Known, LauncherAlive, Leased
<1>6. ASSUME NEW n \in Nested, NestRegisters(n) PROVE (RemoverHolds /\ NobodyUses /\ RemovalSparesUsers)'
    BY <1>6, LeaseAssumption DEF NestRegisters, LockFree, LeaseInv, RemoverHolds, NobodyUses,
       RemovalSparesUsers, OwnerUses, AttachedUses, GroupAlive, Known, LauncherAlive, Leased
<1>7. ASSUME NEW n \in Nested, NestMisses(n) PROVE (RemoverHolds /\ NobodyUses /\ RemovalSparesUsers)'
    BY <1>7 DEF NestMisses, LeaseInv, RemoverHolds, NobodyUses, RemovalSparesUsers
<1>8. ASSUME NEW r \in Users, Spawns(r) PROVE (RemoverHolds /\ NobodyUses /\ RemovalSparesUsers)'
    BY <1>8, LeaseAssumption DEF Spawns, LockFree, Takes, LeaseInv, RemoverHolds, NobodyUses,
       RemovalSparesUsers, OwnerUses, AttachedUses, GroupAlive, Known, LauncherAlive, Leased
<1>9. ASSUME NEW r \in Users, Publishes(r) PROVE (RemoverHolds /\ NobodyUses /\ RemovalSparesUsers)'
    BY <1>9, LeaseAssumption DEF Publishes, Drops, LeaseInv, UsersKnow, UserKnows, LockOf, RemoverHolds,
       NobodyUses, RemovalSparesUsers, OwnerUses, AttachedUses, GroupAlive, Known, LauncherAlive, Leased
<1>10. ASSUME NEW r \in Users, ChildEnds(r) PROVE (RemoverHolds /\ NobodyUses /\ RemovalSparesUsers)'
    BY <1>10 DEF ChildEnds, LeaseInv, RemoverHolds, NobodyUses, RemovalSparesUsers, OwnerUses,
       AttachedUses, NestedUses, GroupAlive, Known, LauncherAlive, Leased
<1>11. ASSUME NEW r \in Users, RunFinalizes(r) PROVE (RemoverHolds /\ NobodyUses /\ RemovalSparesUsers)'
    BY <1>11 DEF RunFinalizes, LeaseInv, RemoverHolds, NobodyUses, RemovalSparesUsers, OwnerUses,
       AttachedUses, NestedUses, GroupAlive, Known, LauncherAlive, Leased
<1>12. ASSUME NEW r \in Users, UserDies(r) PROVE (RemoverHolds /\ NobodyUses /\ RemovalSparesUsers)'
    BY <1>12, LeaseAssumption DEF UserDies, Drops, LeaseInv, RemoverHolds, NobodyUses,
       RemovalSparesUsers, OwnerUses, AttachedUses, NestedUses, GroupAlive, Known, LauncherAlive, Leased
<1>13. CASE RemoveInspects
    BY <1>13, LeaseAssumption DEF RemoveInspects, OwnerBlocks, AttachmentBlocks, GroupSeen, Effective,
       LeaseInv, Users, UsersKnow, UserKnows, LockOf, RemoverHolds, NobodyUses, RemovalSparesUsers,
       OwnerUses, AttachedUses, GroupAlive, Known, LauncherAlive, Leased
<1>14. CASE RemoveMarksMissing
    BY <1>14 DEF RemoveMarksMissing, LeaseInv, RemoverHolds, NobodyUses, RemovalSparesUsers
<1>15. CASE RemoveWalks
    BY <1>15 DEF RemoveWalks, LeaseInv, LeaseTypeOK, RemoverHolds, NobodyUses, RemovalSparesUsers,
       OwnerUses, AttachedUses, GroupAlive, Known, LauncherAlive, Leased
<1>16. CASE RemoveRechecks
    BY <1>16, LeaseAssumption DEF RemoveRechecks, NestBlocks, Effective, LeaseInv, Users, UsersKnow,
       UserKnows, LockOf, RemoverHolds, NobodyUses, RemovalSparesUsers, OwnerUses, AttachedUses,
       NestedUses, GroupAlive, Known, LauncherAlive, Leased
<1>17. CASE ReapInspects
    BY <1>17, LeaseAssumption DEF ReapInspects, OwnerBlocks, AttachmentBlocks, GroupSeen, Effective,
       LeaseInv, Users, UsersKnow, UserKnows, LockOf, RemoverHolds, NobodyUses, RemovalSparesUsers,
       OwnerUses, AttachedUses, GroupAlive, Known, LauncherAlive, Leased
<1>18. CASE ReapLocks
    BY <1>18 DEF ReapLocks, LeaseInv, LeaseTypeOK, RemoverHolds, NobodyUses, RemovalSparesUsers,
       OwnerUses, AttachedUses, GroupAlive, Known, LauncherAlive, Leased
<1>19. CASE RemoveDeletes
    BY <1>19 DEF RemoveDeletes, InUseBy, LeaseInv, Users, RemoverHolds, NobodyUses, RemovalSparesUsers,
       OwnerUses, AttachedUses, NestedUses
<1>20. CASE RemoveMarks
    BY <1>20 DEF RemoveMarks, NoRemoval, LeaseInv, RemoverHolds, NobodyUses, RemovalSparesUsers
<1>21. CASE RemoveEnds
    BY <1>21 DEF RemoveEnds, NoRemoval, LeaseInv, RemoverHolds, NobodyUses, RemovalSparesUsers
<1>22. CASE UNCHANGED leaseVars
    BY <1>22 DEF leaseVars, LeaseInv, RemoverHolds, NobodyUses, RemovalSparesUsers, OwnerUses,
       AttachedUses, NestedUses, GroupAlive, Known, LauncherAlive, Leased
<1> QED
    BY <1>1, <1>2, <1>3, <1>4, <1>5, <1>6, <1>7, <1>8, <1>9, <1>10, <1>11, <1>12, <1>13, <1>14, <1>15,
       <1>16, <1>17, <1>18, <1>19, <1>20, <1>21, <1>22 DEF LeaseNext

LEMMA LeaseInvStep == LeaseInv /\ [LeaseNext]_leaseVars => LeaseInv'
    BY LeaseTypeStep, UsersKnowStep, RemovalStep DEF LeaseInv

(* For any number of attached and nested runs, remove and reap delete a     *)
(* worktree under no run they could see: their checks hold until the        *)
(* removal, because the locks they were made under are held until then.     *)
THEOREM WorktreesAreSpared == LeaseSpec => []RemovalSparesUsers
<1>1. LeaseInv => RemovalSparesUsers
    BY DEF LeaseInv
<1> QED
    BY LeaseInvInit, LeaseInvStep, <1>1, PTL DEF LeaseSpec

-----------------------------------------------------------------------------
(* The shape of the registry for any number of writes: RegistryTypeOK bounds *)
(* the versions, which the steps alone do not.                              *)
AnyRecord == [status : Terminal \cup {"running", "none"}, ver : Nat]
AnyIndex == [runs : SUBSET Runs, alias : [Runs -> 0..MaxAlias],
             names : [Aliases -> Runs \cup {NoRun}], sel : [Runs -> AnyRecord]]
AnyOp == [kind : {"none", "register", "publish", "replay", "prune"}, run : Runs \cup {NoRun},
          at : {"start", "claimed", "bound", "made", "selected"}, image : AnyIndex, todo : SUBSET Runs]
RegistryShape ==
  /\ index \in AnyIndex
  /\ claims \in [Aliases -> {"absent", "empty"} \cup Runs] /\ dirs \subseteq Runs
  /\ state \in [Runs -> AnyRecord] /\ wal \in [Runs -> {"none", "succeeded"}]
  /\ op \in AnyOp
  /\ registered \subseteq launched /\ launched \subseteq Runs
  /\ selLog \in [Runs -> SUBSET AnyRecord]

(* What the holder of the lock knows of its image: a registration has its   *)
(* run and its claim, and the image of a registration or a prune resolves   *)
(* every registered run whose directory is there, as the index does.        *)
Resolves(i, r) == r \in i.runs /\ i.alias[r] \in Aliases /\ i.names[i.alias[r]] = r
OpKnows ==
  /\ op.kind \in {"register", "publish", "replay"} => op.run \in Runs
  /\ op.kind = "register" =>
       /\ op.run \in launched \ registered /\ Resolves(op.image, op.run)
       /\ op.at # "claimed" => claims[op.image.alias[op.run]] = op.run
  /\ op.kind \in {"register", "prune"} =>
       \A r \in registered \cap dirs : Resolves(op.image, r) /\ op.image.alias[r] = index.alias[r]
  /\ op.kind = "prune" => op.run \notin dirs
  /\ op.kind \in {"publish", "replay"} => op.run \in registered

(* A selection is no newer than the state file, and equal to it when it is  *)
(* of the same version; before the registration there is none.              *)
NoNewer(r, sel) == sel = None \/ (sel.ver <= state[r].ver /\ (sel.ver = state[r].ver => sel.status = state[r].status))
SelKnows(r) ==
  /\ \A sel \in selLog[r] \cup {index.sel[r], op.image.sel[r]} :
       /\ r \in dirs => NoNewer(r, sel)
       /\ r \notin registered => sel = None
  /\ r \notin registered => state[r] = None /\ wal[r] = "none"
RegistryInv ==
  RegistryShape /\ RegisteredIsResolvable /\ OpKnows /\ \A r \in Runs : SelKnows(r)

(* What each index operation returns, and what a save or a write changes.   *)
LEMMA NoneIs == None \in AnyRecord
    BY DEF None, AnyRecord

LEMMA NoOpIs ==
  /\ EmptyIndex \in AnyIndex /\ \A r \in Runs : EmptyIndex.sel[r] = None
  /\ NoOp \in AnyOp /\ NoOp.kind = "none" /\ NoOp.run = NoRun /\ NoOp.image = EmptyIndex
<1>1. EmptyIndex \in AnyIndex /\ \A r \in Runs : EmptyIndex.sel[r] = None
    BY NoneIs, RegistryAssumption DEF EmptyIndex, AnyIndex
<1> QED
    BY <1>1 DEF NoOp, AnyOp

LEMMA WithRunKeeps ==
  ASSUME NEW i \in AnyIndex, NEW r \in Runs, NEW a \in Aliases
  PROVE  /\ WithRun(i, r, a) \in AnyIndex
         /\ WithRun(i, r, a).runs = i.runs \cup {r} /\ WithRun(i, r, a).sel = i.sel
         /\ WithRun(i, r, a).alias[r] = a /\ WithRun(i, r, a).names[a] = r
         /\ \A q \in Runs : q # r => WithRun(i, r, a).alias[q] = i.alias[q]
         /\ \A b \in Aliases : b # a => WithRun(i, r, a).names[b] = i.names[b]
<1>1. i.runs \cup {r} \in SUBSET Runs
    BY DEF AnyIndex
<1>2. [i.alias EXCEPT ![r] = a] \in [Runs -> 0..MaxAlias]
    BY RegistryAssumption DEF AnyIndex, Aliases
<1>3. [i.names EXCEPT ![a] = r] \in [Aliases -> Runs \cup {NoRun}]
    BY DEF AnyIndex
<1> QED
    BY <1>1, <1>2, <1>3 DEF AnyIndex, WithRun

LEMMA WithoutRunKeeps ==
  ASSUME NEW i \in AnyIndex, NEW r \in Runs
  PROVE  /\ WithoutRun(i, r) \in AnyIndex
         /\ WithoutRun(i, r).runs = i.runs \ {r}
         /\ \A q \in Runs \ {r} : WithoutRun(i, r).sel[q] = i.sel[q] /\ WithoutRun(i, r).alias[q] = i.alias[q]
         /\ WithoutRun(i, r).sel[r] = None
         /\ \A b \in Aliases : i.names[b] # r => WithoutRun(i, r).names[b] = i.names[b]
<1> DEFINE names == [a \in Aliases |-> IF i.names[a] = r THEN NoRun ELSE i.names[a]]
<1>1. i.runs \ {r} \in SUBSET Runs
    BY DEF AnyIndex
<1>2. [i.sel EXCEPT ![r] = None] \in [Runs -> AnyRecord]
    BY NoneIs DEF AnyIndex
<1>3. [i.alias EXCEPT ![r] = 0] \in [Runs -> 0..MaxAlias]
    BY RegistryAssumption DEF AnyIndex
<1>4. names \in [Aliases -> Runs \cup {NoRun}] /\ \A b \in Aliases : i.names[b] # r => names[b] = i.names[b]
    BY DEF AnyIndex
<1>5. WithoutRun(i, r) =
        [runs |-> i.runs \ {r}, alias |-> [i.alias EXCEPT ![r] = 0], names |-> names,
         sel |-> [i.sel EXCEPT ![r] = None]]
    BY DEF WithoutRun
<1> HIDE DEF names
<1>6. i.alias \in [Runs -> 0..MaxAlias] /\ i.sel \in [Runs -> AnyRecord]
    BY DEF AnyIndex
<1>7. WithoutRun(i, r) \in AnyIndex
    BY <1>1, <1>2, <1>3, <1>4, <1>5 DEF AnyIndex
<1> QED
    BY <1>4, <1>5, <1>6, <1>7

LEMMA WithSelectionKeeps ==
  ASSUME NEW i \in AnyIndex, NEW r \in Runs, NEW record \in AnyRecord
  PROVE  /\ WithSelection(i, r, record) \in AnyIndex
         /\ WithSelection(i, r, record).runs = i.runs /\ WithSelection(i, r, record).alias = i.alias
         /\ WithSelection(i, r, record).names = i.names
         /\ WithSelection(i, r, record).sel[r] = record
         /\ \A q \in Runs \ {r} : WithSelection(i, r, record).sel[q] = i.sel[q]
    BY DEF AnyIndex, WithSelection

LEMMA SavesKeeps ==
  ASSUME RegistryShape, NEW image \in AnyIndex, Saves(image)
  PROVE  index' \in AnyIndex /\ selLog' \in [Runs -> SUBSET AnyRecord]
<1>1. \A r \in Runs : image.sel[r] \in AnyRecord
    BY DEF AnyIndex
<1> QED
    BY <1>1 DEF Saves, RegistryShape

LEMMA WritesKeeps ==
  ASSUME RegistryShape, NEW r \in Runs, NEW s \in {"running", "succeeded", "cancelled"}, Writes(r, s)
  PROVE  /\ state' \in [Runs -> AnyRecord]
         /\ state'[r].ver = state[r].ver + 1 /\ state'[r].status = s
         /\ \A q \in Runs \ {r} : state'[q] = state[q]
<1>1. state[r] \in AnyRecord
    BY DEF RegistryShape
<1>2. [status |-> s, ver |-> state[r].ver + 1] \in AnyRecord
    BY <1>1 DEF AnyRecord, Terminal
<1> QED
    BY <1>2 DEF RegistryShape, Writes

LEMMA MergedIs ==
  ASSUME RegistryShape, NEW r \in Runs, wal[r] # "none"
  PROVE  Merged(r) \in {"running", "succeeded", "cancelled"}
    BY DEF RegistryShape, Merged, Terminal

LEMMA RegistryInvInit == RegistryInit => RegistryInv
<1> SUFFICES ASSUME RegistryInit PROVE RegistryInv
    OBVIOUS
<1> USE RegistryAssumption DEF RegistryInit, NoOp, EmptyIndex, None, Aliases
<1>2. RegistryShape
    BY NoOpIs, NoneIs DEF RegistryShape
<1>3. RegisteredIsResolvable /\ OpKnows
    BY DEF RegisteredIsResolvable, OpKnows
<1>4. \A r \in Runs : SelKnows(r)
    BY DEF SelKnows, NoNewer
<1> QED
    BY <1>2, <1>3, <1>4 DEF RegistryInv

LEMMA ShapeStep == RegistryInv /\ [RegistryNext]_registryVars => RegistryShape'
<1> SUFFICES ASSUME RegistryInv, [RegistryNext]_registryVars PROVE RegistryShape'
    OBVIOUS
<1>1. ASSUME NEW r \in Runs, RegisterClaims(r) PROVE RegistryShape'
  <2>1. PICK a \in Aliases :
          /\ claims' = [claims EXCEPT ![a] = "empty"]
          /\ op' = Registering(r, a)
      BY <1>1 DEF RegistryInv, RegistryShape, OpKnows, RegisterClaims
  <2>2. op' \in AnyOp
      BY <2>1, WithRunKeeps, NoOpIs DEF RegistryInv, RegistryShape, OpKnows, AnyOp, Registering
  <2> QED
      BY <1>1, <2>1, <2>2 DEF RegistryInv, RegistryShape, RegisterClaims
<1>2. ASSUME NEW r \in Runs, WriteWal(r) PROVE RegistryShape'
    BY <1>2 DEF WriteWal, RegistryInv, RegistryShape
<1>3. ASSUME NEW r \in Runs, ReplayWrites(r) PROVE RegistryShape'
  <2>1. state' \in [Runs -> AnyRecord]
      BY <1>3, WritesKeeps, MergedIs DEF RegistryInv, RegistryShape, ReplayWrites
  <2>2. op' \in AnyOp
      BY <1>3, NoOpIs DEF RegistryInv, RegistryShape, OpKnows, ReplayWrites, AnyOp
  <2> QED
      BY <1>3, <2>1, <2>2 DEF RegistryInv, RegistryShape, ReplayWrites
<1>4. ASSUME NEW r \in Runs, MarkState(r) PROVE RegistryShape'
  <2>1. state' \in [Runs -> AnyRecord]
      BY <1>4, WritesKeeps DEF RegistryInv, MarkState, Terminal
  <2> QED
      BY <1>4, <2>1 DEF RegistryInv, RegistryShape, MarkState
<1>5. ASSUME NEW r \in Runs, NEW s \in Terminal, PublishWrites(r, s) PROVE RegistryShape'
  <2>1. state' \in [Runs -> AnyRecord]
      BY <1>5, WritesKeeps DEF RegistryInv, PublishWrites, Terminal
  <2>2. op' \in AnyOp
      BY <1>5, NoOpIs DEF RegistryInv, RegistryShape, OpKnows, PublishWrites, AnyOp
  <2> QED
      BY <1>5, <2>1, <2>2 DEF RegistryInv, RegistryShape, PublishWrites
<1>6. ASSUME NEW r \in Runs, PruneReplays(r) PROVE RegistryShape'
  <2>1. state' \in [Runs -> AnyRecord]
      BY <1>6, WritesKeeps, MergedIs DEF RegistryInv, RegistryShape, PruneReplays
  <2>2. index' \in AnyIndex /\ selLog' \in [Runs -> SUBSET AnyRecord]
      BY <1>6, <2>1, WithSelectionKeeps, SavesKeeps DEF RegistryInv, RegistryShape, OpKnows, PruneReplays
  <2> QED
      BY <1>6, <2>1, <2>2 DEF RegistryInv, RegistryShape, OpKnows, PruneReplays
<1>7. ASSUME NEW r \in Runs, PruneSkips(r) PROVE RegistryShape'
    BY <1>7 DEF RegistryInv, RegistryShape, PruneSkips, AnyOp
<1>8. ASSUME NEW r \in Runs, PruneRemoves(r) PROVE RegistryShape'
  <2>1. op' \in AnyOp
      BY <1>8 DEF RegistryInv, RegistryShape, PruneRemoves, AnyOp
  <2> QED
      BY <1>8, <2>1, NoneIs DEF RegistryInv, RegistryShape, PruneRemoves
<1>9. CASE RegisterBinds
    BY <1>9 DEF RegistryInv, RegistryShape, OpKnows, RegisterBinds, AnyOp
<1>10. CASE RegisterMakesDir
    BY <1>10 DEF RegistryInv, RegistryShape, OpKnows, RegisterMakesDir, AnyOp
<1>11. CASE RegisterSaves
  <2>1. index' \in AnyIndex /\ selLog' \in [Runs -> SUBSET AnyRecord]
      BY <1>11, SavesKeeps DEF RegistryInv, RegistryShape, RegisterSaves, AnyOp
  <2>2. state' \in [Runs -> AnyRecord]
      BY <1>11 DEF RegistryInv, RegistryShape, OpKnows, RegisterSaves, AnyRecord
  <2> QED
      BY <1>11, <2>1, <2>2, NoOpIs DEF RegistryInv, RegistryShape, OpKnows, RegisterSaves
<1>12. CASE RegisterFails
    BY <1>12, NoOpIs DEF RegistryInv, RegistryShape, OpKnows, RegisterFails
<1>13. CASE PublishSelects
  <2>1. op' \in AnyOp
      BY <1>13, NoOpIs DEF RegistryInv, RegistryShape, PublishSelects, AnyOp
  <2>2. index' \in AnyIndex /\ selLog' \in [Runs -> SUBSET AnyRecord]
      BY <1>13, WithSelectionKeeps, SavesKeeps DEF RegistryInv, RegistryShape, OpKnows, PublishSelects
  <2> QED
      BY <1>13, <2>1, <2>2 DEF RegistryInv, RegistryShape, PublishSelects
<1>14. CASE PublishSkips
  <2>1. op' \in AnyOp
      BY <1>14, NoOpIs DEF RegistryInv, RegistryShape, PublishSkips, AnyOp
  <2> QED
      BY <1>14, <2>1 DEF RegistryInv, RegistryShape, PublishSkips
<1>15. CASE ReplayUnlinks
    BY <1>15, NoOpIs DEF RegistryInv, RegistryShape, OpKnows, ReplayUnlinks
<1>16. CASE PruneStarts
  <2>1. op' \in AnyOp
      BY <1>16, NoOpIs DEF RegistryInv, RegistryShape, OpKnows, PruneStarts, AnyOp, AnyIndex
  <2> QED
      BY <1>16, <2>1 DEF RegistryInv, RegistryShape, PruneStarts
<1>17. CASE PruneFrees
  <2>1. op.run \in Runs /\ op.image \in AnyIndex
      BY <1>17 DEF RegistryInv, RegistryShape, PruneFrees, AnyOp
  <2>2. op' \in AnyOp
      BY <1>17, <2>1, WithoutRunKeeps DEF RegistryInv, RegistryShape, OpKnows, PruneFrees, AnyOp
  <2>3. claims' \in [Aliases -> {"absent", "empty"} \cup Runs]
      BY <1>17 DEF RegistryInv, RegistryShape, PruneFrees
  <2> QED
      BY <1>17, <2>2, <2>3 DEF RegistryInv, RegistryShape, PruneFrees
<1>18. CASE PruneSaves
  <2>1. index' \in AnyIndex /\ selLog' \in [Runs -> SUBSET AnyRecord]
      BY <1>18, SavesKeeps DEF RegistryInv, RegistryShape, PruneSaves, AnyOp
  <2> QED
      BY <1>18, <2>1, NoOpIs DEF RegistryInv, RegistryShape, PruneSaves
<1>19. CASE HolderDies
    BY <1>19, NoOpIs DEF RegistryInv, RegistryShape, HolderDies
<1>20. CASE UNCHANGED registryVars
    BY <1>20 DEF registryVars, RegistryInv, RegistryShape
<1> QED
    BY <1>1, <1>2, <1>3, <1>4, <1>5, <1>6, <1>7, <1>8, <1>9, <1>10, <1>11, <1>12, <1>13, <1>14, <1>15,
       <1>16, <1>17, <1>18, <1>19, <1>20 DEF RegistryNext

LEMMA ResolvesStep == RegistryInv /\ [RegistryNext]_registryVars => (RegisteredIsResolvable /\ OpKnows)'
<1> SUFFICES ASSUME RegistryInv, [RegistryNext]_registryVars PROVE (RegisteredIsResolvable /\ OpKnows)'
    OBVIOUS
<1>1. ASSUME NEW r \in Runs, RegisterClaims(r) PROVE (RegisteredIsResolvable /\ OpKnows)'
  <2>1. PICK a \in Aliases :
          claims[a] = "absent" /\ claims' = [claims EXCEPT ![a] = "empty"] /\ op' = Registering(r, a)
      BY <1>1 DEF RegisterClaims
  <2>2. /\ op'.kind = "register" /\ op'.run = r /\ op'.at = "claimed"
        /\ op'.image = WithRun(index, r, a)
      BY <2>1, NoOpIs DEF Registering, AnyOp
  <2>3. ASSUME NEW q \in registered \cap dirs PROVE index.alias[q] # a /\ Resolves(index, q)
      BY <2>1, RegistryAssumption DEF RegistryInv, RegistryShape, RegisteredIsResolvable, Resolves
  <2>4. UNCHANGED <<index, dirs, registered>> /\ r \notin registered /\ launched' = launched \cup {r}
      BY <1>1 DEF RegisterClaims, RegistryInv, RegistryShape
  <2>5. RegisteredIsResolvable'
      BY <2>1, <2>3, <2>4 DEF RegistryInv, RegisteredIsResolvable
  <2>6. ASSUME NEW q \in registered \cap dirs
        PROVE  Resolves(op'.image, q) /\ op'.image.alias[q] = index.alias[q]
    <3>1. q \in Runs /\ q # r /\ index \in AnyIndex /\ index.alias[q] \in Aliases
        BY <2>3, <2>4 DEF RegistryInv, RegistryShape, Resolves
    <3>2. /\ op'.image.runs = index.runs \cup {r} /\ op'.image.alias[q] = index.alias[q]
          /\ op'.image.names[index.alias[q]] = index.names[index.alias[q]]
        BY <2>2, <2>3, <3>1, WithRunKeeps
    <3> QED
        BY <2>3, <3>2 DEF Resolves
  <2>7. Resolves(op'.image, r)
      BY <2>2, WithRunKeeps DEF RegistryInv, RegistryShape, Resolves
  <2> QED
      BY <2>2, <2>4, <2>5, <2>6, <2>7 DEF OpKnows, Resolves
<1>2. ASSUME NEW r \in Runs, WriteWal(r) PROVE (RegisteredIsResolvable /\ OpKnows)'
    BY <1>2 DEF WriteWal, RegistryInv, RegisteredIsResolvable, OpKnows
<1>3. ASSUME NEW r \in Runs, ReplayWrites(r) PROVE (RegisteredIsResolvable /\ OpKnows)'
    BY <1>3 DEF ReplayWrites, RegistryInv, RegisteredIsResolvable, OpKnows, Live
<1>4. ASSUME NEW r \in Runs, MarkState(r) PROVE (RegisteredIsResolvable /\ OpKnows)'
    BY <1>4 DEF MarkState, RegistryInv, RegisteredIsResolvable, OpKnows
<1>5. ASSUME NEW r \in Runs, NEW s \in Terminal, PublishWrites(r, s) PROVE (RegisteredIsResolvable /\ OpKnows)'
    BY <1>5 DEF PublishWrites, RegistryInv, RegisteredIsResolvable, OpKnows, Live
<1>6. ASSUME NEW r \in Runs, PruneReplays(r) PROVE (RegisteredIsResolvable /\ OpKnows)'
  <2>1. index' = index \/ index' = WithSelection(index, r, state'[r])
      BY <1>6 DEF PruneReplays, Saves
  <2>2. index'.runs = index.runs /\ index'.alias = index.alias /\ index'.names = index.names
      BY <2>1 DEF WithSelection, RegistryInv, RegistryShape, AnyIndex
  <2> QED
      BY <1>6, <2>2 DEF PruneReplays, RegistryInv, RegisteredIsResolvable, OpKnows
<1>7. ASSUME NEW r \in Runs, PruneSkips(r) PROVE (RegisteredIsResolvable /\ OpKnows)'
    BY <1>7 DEF PruneSkips, RegistryInv, RegisteredIsResolvable, OpKnows
<1>8. ASSUME NEW r \in Runs, PruneRemoves(r) PROVE (RegisteredIsResolvable /\ OpKnows)'
    BY <1>8 DEF PruneRemoves, RegistryInv, RegisteredIsResolvable, OpKnows
<1>9. CASE RegisterBinds
  <2> DEFINE a == op.image.alias[op.run]
  <2>1. a \in Aliases /\ op.run \in Runs \ registered /\ op.image.names[a] = op.run
      BY <1>9 DEF RegisterBinds, RegistryInv, OpKnows, Resolves
  <2>2. ASSUME NEW q \in registered \cap dirs PROVE index.alias[q] # a
      BY <1>9, <2>1 DEF RegisterBinds, RegistryInv, OpKnows, Resolves
  <2>3. claims' = [claims EXCEPT ![a] = op.run] /\ UNCHANGED <<index, registered, launched>> /\ dirs' \subseteq dirs
      BY <1>9 DEF RegisterBinds
  <2>4. RegisteredIsResolvable'
    <3> HIDE DEF a
    <3> QED
        BY <2>1, <2>2, <2>3 DEF RegistryInv, RegisteredIsResolvable
  <2> QED
      BY <1>9, <2>1, <2>3, <2>4 DEF RegisterBinds, RegistryInv, RegistryShape, OpKnows
<1>10. CASE RegisterMakesDir
    BY <1>10 DEF RegisterMakesDir, RegistryInv, RegisteredIsResolvable, OpKnows
<1>11. CASE RegisterSaves
    BY <1>11 DEF RegisterSaves, RegistryInv, RegisteredIsResolvable, OpKnows, Resolves, Saves, NoOp
<1>12. CASE RegisterFails
  <2> DEFINE a == op.image.alias[op.run]
  <2>1. a \in Aliases /\ op.run \in Runs \ registered /\ op.image.names[a] = op.run
      BY <1>12 DEF RegisterFails, RegistryInv, OpKnows, Resolves
  <2>2. ASSUME NEW q \in registered \cap dirs PROVE index.alias[q] # a
      BY <1>12, <2>1 DEF RegisterFails, RegistryInv, OpKnows, Resolves
  <2>3. claims' = [claims EXCEPT ![a] = "absent"] /\ UNCHANGED <<index, registered, launched>> /\ dirs' \subseteq dirs
      BY <1>12 DEF RegisterFails
  <2>4. RegisteredIsResolvable'
    <3> HIDE DEF a
    <3> QED
        BY <2>1, <2>2, <2>3 DEF RegistryInv, RegisteredIsResolvable
  <2> QED
      BY <1>12, <2>1, <2>3, <2>4, NoOpIs DEF RegisterFails, OpKnows
<1>13. CASE PublishSelects
    BY <1>13 DEF PublishSelects, RegistryInv, RegisteredIsResolvable, OpKnows, WithSelection, Saves, NoOp
<1>14. CASE PublishSkips
    BY <1>14 DEF PublishSkips, RegistryInv, RegisteredIsResolvable, OpKnows, NoOp
<1>15. CASE ReplayUnlinks
    BY <1>15 DEF ReplayUnlinks, RegistryInv, RegisteredIsResolvable, OpKnows, NoOp
<1>16. CASE PruneStarts
    BY <1>16, RegistryAssumption DEF PruneStarts, RegistryInv, RegistryShape, RegisteredIsResolvable,
       OpKnows, Resolves, NoOp
<1>17. CASE PruneFrees
  <2>1. /\ op.run \in Runs \ dirs /\ op.kind = "prune" /\ op.image \in AnyIndex
        /\ claims' = [a \in Aliases |-> IF op.image.names[a] = op.run THEN "absent" ELSE claims[a]]
        /\ UNCHANGED <<index, dirs, launched, registered>>
      BY <1>17 DEF PruneFrees, RegistryInv, RegistryShape, OpKnows, AnyOp
  <2>2. op'.kind = "prune" /\ op'.run = NoRun /\ op'.image = WithoutRun(op.image, op.run)
      BY <1>17, <2>1 DEF PruneFrees
  <2>3. ASSUME NEW q \in registered \cap dirs
        PROVE  /\ q # op.run /\ Resolves(op.image, q) /\ op.image.alias[q] = index.alias[q]
               /\ index.alias[q] \in Aliases /\ op.image.names[index.alias[q]] = q
      BY <2>1 DEF RegistryInv, OpKnows, Resolves
  <2>4. RegisteredIsResolvable'
      BY <2>1, <2>3 DEF RegistryInv, RegisteredIsResolvable
  <2>5. ASSUME NEW q \in registered \cap dirs
        PROVE  Resolves(op'.image, q) /\ op'.image.alias[q] = index.alias[q]
    <3>1. /\ op'.image.runs = op.image.runs \ {op.run} /\ op'.image.alias[q] = op.image.alias[q]
          /\ op'.image.names[index.alias[q]] = op.image.names[index.alias[q]]
        BY <2>1, <2>2, <2>3, WithoutRunKeeps DEF RegistryInv, RegistryShape
    <3> QED
        BY <2>3, <3>1 DEF Resolves
  <2> QED
      BY <2>1, <2>2, <2>4, <2>5, RegistryAssumption DEF OpKnows, RegistryInv, RegistryShape
<1>18. CASE PruneSaves
    BY <1>18 DEF PruneSaves, RegistryInv, RegisteredIsResolvable, OpKnows, Resolves, Saves, NoOp
<1>19. CASE HolderDies
    BY <1>19 DEF HolderDies, RegistryInv, RegisteredIsResolvable, OpKnows, NoOp
<1>20. CASE UNCHANGED registryVars
    BY <1>20 DEF registryVars, RegistryInv, RegisteredIsResolvable, OpKnows
<1> QED
    BY <1>1, <1>2, <1>3, <1>4, <1>5, <1>6, <1>7, <1>8, <1>9, <1>10, <1>11, <1>12, <1>13, <1>14, <1>15,
       <1>16, <1>17, <1>18, <1>19, <1>20 DEF RegistryNext

LEMMA SelStep == RegistryInv /\ [RegistryNext]_registryVars => \A r \in Runs : SelKnows(r)'
<1> SUFFICES ASSUME RegistryInv, [RegistryNext]_registryVars, NEW q \in Runs PROVE SelKnows(q)'
    OBVIOUS
<1>1. ASSUME NEW r \in Runs, RegisterClaims(r) PROVE SelKnows(q)'
  <2>1. PICK a \in Aliases : op' = Registering(r, a)
      BY <1>1 DEF RegisterClaims
  <2>2. op'.image.sel = index.sel
      BY <2>1, WithRunKeeps DEF Registering, RegistryInv, RegistryShape
  <2> QED
      BY <1>1, <2>2 DEF RegisterClaims, RegistryInv, SelKnows, NoNewer
<1>2. ASSUME NEW r \in Runs, WriteWal(r) PROVE SelKnows(q)'
    BY <1>2 DEF WriteWal, RegistryInv, SelKnows, NoNewer, Live
<1>3. ASSUME NEW r \in Runs, ReplayWrites(r) PROVE SelKnows(q)'
    BY <1>3 DEF ReplayWrites, RegistryInv, RegistryShape, AnyIndex, AnyRecord, SelKnows, NoNewer, Writes,
       NoOp, EmptyIndex
<1>4. ASSUME NEW r \in Runs, MarkState(r) PROVE SelKnows(q)'
    BY <1>4 DEF MarkState, RegistryInv, RegistryShape, AnyIndex, AnyRecord, SelKnows, NoNewer, Terminal,
       Free, Live, Writes, NoOp, EmptyIndex
<1>5. ASSUME NEW r \in Runs, NEW s \in Terminal, PublishWrites(r, s) PROVE SelKnows(q)'
    BY <1>5 DEF PublishWrites, RegistryInv, RegistryShape, AnyIndex, AnyRecord, SelKnows, NoNewer, Live,
       Writes, NoOp, EmptyIndex
<1>6. ASSUME NEW r \in Runs, PruneReplays(r) PROVE SelKnows(q)'
  <2>1. r \in registered /\ UNCHANGED <<dirs, registered, op>>
      BY <1>6 DEF PruneReplays, RegistryInv, SelKnows
  <2>2. state'[r] \in AnyRecord /\ \A p \in Runs \ {r} : state'[p] = state[p] /\ wal'[p] = wal[p]
      BY <1>6, WritesKeeps, MergedIs DEF PruneReplays, RegistryInv, RegistryShape
  <2>3. state'[r] = state[r] \/ state'[r].ver = state[r].ver + 1
      BY <1>6, WritesKeeps, MergedIs DEF PruneReplays, RegistryInv
  <2>4. index' = index \/ index' = WithSelection(index, r, state'[r])
      BY <1>6 DEF PruneReplays, Saves
  <2>5. index'.sel[q] = index.sel[q] \/ (q = r /\ index'.sel[q] = state'[q])
    <3>1. index \in AnyIndex
        BY DEF RegistryInv, RegistryShape
    <3> QED
        BY <2>2, <2>4, <3>1, WithSelectionKeeps
  <2>6. selLog'[q] \subseteq selLog[q] \cup {index'.sel[q]}
      BY <1>6, <2>4 DEF PruneReplays, Saves
  <2>7. \A sel \in AnyRecord : NoNewer(q, sel) => NoNewer(q, sel)'
      BY <2>2, <2>3 DEF NoNewer, AnyRecord, RegistryInv, RegistryShape
  <2>8. ASSUME NEW sel \in AnyRecord, sel = state'[q] PROVE NoNewer(q, sel)'
      BY <2>8 DEF NoNewer, AnyRecord
  <2>9. op.image.sel[q] \in AnyRecord /\ index.sel[q] \in AnyRecord /\ selLog[q] \subseteq AnyRecord
      BY DEF RegistryInv, RegistryShape, AnyOp, AnyIndex
  <2> QED
      BY <2>1, <2>2, <2>5, <2>6, <2>7, <2>8, <2>9 DEF RegistryInv, SelKnows
<1>7. ASSUME NEW r \in Runs, PruneSkips(r) PROVE SelKnows(q)'
    BY <1>7 DEF PruneSkips, RegistryInv, SelKnows, NoNewer
<1>8. ASSUME NEW r \in Runs, PruneRemoves(r) PROVE SelKnows(q)'
    BY <1>8 DEF PruneRemoves, RegistryInv, SelKnows, NoNewer
<1>9. CASE RegisterBinds
    BY <1>9 DEF RegisterBinds, RegistryInv, SelKnows, NoNewer
<1>10. CASE RegisterMakesDir
    BY <1>10 DEF RegisterMakesDir, RegistryInv, OpKnows, SelKnows, NoNewer
<1>11. CASE RegisterSaves
    BY <1>11 DEF RegisterSaves, RegistryInv, OpKnows, SelKnows, NoNewer, Saves, NoOp, EmptyIndex
<1>12. CASE RegisterFails
    BY <1>12 DEF RegisterFails, RegistryInv, SelKnows, NoNewer, NoOp, EmptyIndex
<1>13. CASE PublishSelects
    BY <1>13 DEF PublishSelects, RegistryInv, RegistryShape, AnyRecord, SelKnows, NoNewer, None,
       WithSelection, Saves, NoOp, EmptyIndex
<1>14. CASE PublishSkips
    BY <1>14 DEF PublishSkips, RegistryInv, SelKnows, NoNewer, NoOp, EmptyIndex
<1>15. CASE ReplayUnlinks
    BY <1>15 DEF ReplayUnlinks, RegistryInv, SelKnows, NoNewer, NoOp, EmptyIndex
<1>16. CASE PruneStarts
    BY <1>16 DEF PruneStarts, RegistryInv, SelKnows, NoNewer
<1>17. CASE PruneFrees
  <2>1. op.run \in Runs \ dirs /\ op.image \in AnyIndex
      BY <1>17 DEF PruneFrees, RegistryInv, RegistryShape, OpKnows, AnyOp
  <2>2. op'.image = WithoutRun(op.image, op.run)
      BY <1>17 DEF PruneFrees
  <2>3. op'.image.sel[q] \in {op.image.sel[q], None}
      BY <2>1, <2>2, WithoutRunKeeps
  <2> QED
      BY <1>17, <2>3 DEF PruneFrees, RegistryInv, SelKnows, NoNewer
<1>18. CASE PruneSaves
  <2>1. index'.sel[q] \in {index.sel[q], op.image.sel[q]} /\ selLog'[q] \subseteq selLog[q] \cup {op.image.sel[q]}
      BY <1>18 DEF PruneSaves, Saves
  <2> QED
      BY <1>18, <2>1, NoOpIs DEF PruneSaves, RegistryInv, SelKnows, NoNewer
<1>19. CASE HolderDies
    BY <1>19 DEF HolderDies, RegistryInv, SelKnows, NoNewer, NoOp, EmptyIndex
<1>20. CASE UNCHANGED registryVars
    BY <1>20 DEF registryVars, RegistryInv, SelKnows, NoNewer
<1> QED
    BY <1>1, <1>2, <1>3, <1>4, <1>5, <1>6, <1>7, <1>8, <1>9, <1>10, <1>11, <1>12, <1>13, <1>14, <1>15,
       <1>16, <1>17, <1>18, <1>19, <1>20 DEF RegistryNext

LEMMA RegistryInvStep == RegistryInv /\ [RegistryNext]_registryVars => RegistryInv'
    BY ShapeStep, ResolvesStep, SelStep DEF RegistryInv

(* For any number of runs, aliases and writes, a registered run whose       *)
(* directory is there is in the index under an alias that no other run and  *)
(* no crashed registration has taken from it.                               *)
THEOREM RunsStayResolvable == RegistrySpec => []RegisteredIsResolvable
<1>1. RegistryInv => RegisteredIsResolvable
    BY DEF RegistryInv
<1> QED
    BY RegistryInvInit, RegistryInvStep, <1>1, PTL DEF RegistrySpec

LEMMA SelectionTold == RegistryInv => SelectionIsCurrent
    BY DEF RegistryInv, RegistryShape, SelKnows, NoNewer, SelectionIsCurrent, Accepts, StatusNow, None, Terminal

(* A terminal selection that a list command takes from its cache is the     *)
(* status the record has now, whatever image it read before.                *)
THEOREM SelectionsAreCurrent == RegistrySpec => []SelectionIsCurrent
    BY RegistryInvInit, RegistryInvStep, SelectionTold, PTL DEF RegistrySpec

(* A record that still says it runs is the first one its launcher wrote, so *)
(* the fold of a pending WAL, which no bound guards in a prune, writes the  *)
(* second at most, and every other write starts below MaxWrites.            *)
RunningIsFirst == \A r \in Runs : state[r] \in Selection /\ (state[r].status = "running" => state[r].ver = 1)
SelectionsAreBounded ==
  \A r \in Runs : selLog[r] \subseteq Selection /\ index.sel[r] \in Selection /\ op.image.sel[r] \in Selection
VersionInv == RunningIsFirst /\ SelectionsAreBounded

LEMMA BoundedIs ==
  /\ None \in Selection /\ None.status = "none" /\ NoOp.image = EmptyIndex /\ \A r \in Runs : EmptyIndex.sel[r] = None
  /\ \A v \in 1..(MaxWrites + 1), s \in Terminal \cup {"running"} : [status |-> s, ver |-> v] \in Selection
    BY DEF None, NoOp, EmptyIndex, Selection

LEMMA BoundedSaves ==
  ASSUME RegistryShape, VersionInv, NEW image \in AnyIndex, Saves(image), \A r \in Runs : image.sel[r] \in Selection
  PROVE  \A r \in Runs : selLog'[r] \subseteq Selection /\ index'.sel[r] \in Selection
    BY DEF Saves, VersionInv, SelectionsAreBounded

LEMMA BoundedWrites ==
  ASSUME RegistryShape, VersionInv, NEW r \in Runs, NEW s \in Terminal, Writes(r, s),
         state[r].ver <= MaxWrites
  PROVE  RunningIsFirst'
<1>1. state[r].ver + 1 \in 1..(MaxWrites + 1)
    BY RegistryAssumption DEF RegistryShape, AnyRecord
<1>2. [status |-> s, ver |-> state[r].ver + 1] \in Selection
    BY <1>1, BoundedIs
<1> QED
    BY <1>2 DEF Writes, RegistryShape, VersionInv, RunningIsFirst, Terminal

LEMMA VersionStep == RegistryInv /\ VersionInv /\ [RegistryNext]_registryVars => VersionInv'
<1> SUFFICES ASSUME RegistryInv, VersionInv, [RegistryNext]_registryVars PROVE VersionInv'
    OBVIOUS
<1>1. RegistryShape /\ op \in AnyOp /\ index \in AnyIndex
    BY DEF RegistryInv, RegistryShape
<1>2. \A r \in Runs : index.sel[r] \in Selection /\ op.image.sel[r] \in Selection
    BY DEF VersionInv, SelectionsAreBounded
<1>3. \A r \in Runs : state[r] \in Selection /\ state[r].ver \in Nat
    BY <1>1 DEF VersionInv, RunningIsFirst, RegistryShape, AnyRecord
<1>4. ASSUME UNCHANGED <<index, selLog>>, RunningIsFirst', \A r \in Runs : op'.image.sel[r] \in Selection
      PROVE VersionInv'
    BY <1>4 DEF VersionInv, SelectionsAreBounded
<1>5. ASSUME UNCHANGED <<index, state, selLog>>, \A r \in Runs : op'.image.sel[r] \in Selection PROVE VersionInv'
    BY <1>5, <1>4 DEF VersionInv, RunningIsFirst
<1>6. ASSUME op'.image = EmptyIndex PROVE \A r \in Runs : op'.image.sel[r] \in Selection
    BY <1>6, BoundedIs
<1>7. ASSUME NEW r \in Runs, RegisterClaims(r) PROVE VersionInv'
  <2>1. PICK a \in Aliases : op' = Registering(r, a)
      BY <1>7 DEF RegisterClaims
  <2>2. op'.image.sel = index.sel
      BY <1>1, <2>1, WithRunKeeps DEF Registering
  <2> QED
      BY <1>7, <1>5, <1>2, <2>2 DEF RegisterClaims
<1>8. ASSUME NEW r \in Runs, WriteWal(r) PROVE VersionInv'
    BY <1>8, <1>5, <1>2 DEF WriteWal
<1>9. ASSUME NEW r \in Runs, ReplayWrites(r) PROVE VersionInv'
  <2>1. op'.image = EmptyIndex /\ UNCHANGED <<index, selLog>> /\ wal[r] # "none" /\ state[r].ver < MaxWrites
      BY <1>9 DEF ReplayWrites, NoOp
  <2>2. CASE Merged(r) = state[r].status
      BY <1>9, <1>5, <1>6, <2>1, <2>2 DEF ReplayWrites
  <2>3. CASE Merged(r) # state[r].status
    <3>1. Merged(r) \in Terminal /\ Writes(r, Merged(r))
        BY <1>1, <1>9, <2>1, <2>3 DEF ReplayWrites, Merged, RegistryShape, Terminal
    <3>2. state[r].ver <= MaxWrites
        BY <1>3, <2>1, RegistryAssumption
    <3> QED
        BY <1>1, <1>4, <1>6, <2>1, <3>1, <3>2, BoundedWrites
  <2> QED
      BY <2>2, <2>3
<1>10. ASSUME NEW r \in Runs, MarkState(r) PROVE VersionInv'
  <2>1. state[r].status \in Terminal /\ Writes(r, state[r].status) /\ state[r].ver < MaxWrites
      BY <1>10 DEF MarkState
  <2>2. state[r].ver <= MaxWrites
      BY <1>3, <2>1, RegistryAssumption
  <2> QED
      BY <1>1, <1>10, <1>2, <1>4, <2>1, <2>2, BoundedWrites DEF MarkState
<1>11. ASSUME NEW r \in Runs, NEW status \in Terminal, PublishWrites(r, status) PROVE VersionInv'
  <2>1. Writes(r, status) /\ state[r].ver < MaxWrites /\ op'.image = EmptyIndex
      BY <1>11 DEF PublishWrites, NoOp
  <2>2. state[r].ver <= MaxWrites
      BY <1>3, <2>1, RegistryAssumption
  <2> QED
      BY <1>1, <1>11, <1>4, <1>6, <2>1, <2>2, BoundedWrites DEF PublishWrites
<1>12. ASSUME NEW r \in Runs, PruneReplays(r) PROVE VersionInv'
  <2>1. wal[r] # "none" /\ op' = op
      BY <1>12 DEF PruneReplays
  <2>2. CASE Merged(r) = state[r].status
      BY <1>12, <1>5, <1>2, <2>1, <2>2 DEF PruneReplays
  <2>3. CASE Merged(r) # state[r].status
    <3>1. Merged(r) \in Terminal /\ state[r].status \notin Terminal /\ Writes(r, Merged(r))
        BY <1>1, <1>12, <2>1, <2>3 DEF PruneReplays, Merged, RegistryShape, Terminal
    <3>2. state[r].ver <= MaxWrites
        BY <3>1, RegistryAssumption DEF VersionInv, RunningIsFirst, Selection, None
    <3>3. RunningIsFirst'
        BY <1>1, <3>1, <3>2, BoundedWrites
    <3>4. CASE UNCHANGED <<index, selLog>>
        BY <1>2, <1>4, <2>1, <3>3, <3>4
    <3>5. CASE Saves(WithSelection(index, r, state'[r]))
      <4>1. state'[r] \in AnyRecord /\ state'[r] \in Selection
          BY <1>1, <3>1, <3>3, WritesKeeps DEF RunningIsFirst, Terminal
      <4>2. /\ WithSelection(index, r, state'[r]) \in AnyIndex
            /\ \A q \in Runs : WithSelection(index, r, state'[r]).sel[q] \in Selection
          BY <1>1, <1>2, <4>1, WithSelectionKeeps
      <4> QED
          BY <1>1, <1>2, <2>1, <3>3, <3>5, <4>2, BoundedSaves DEF VersionInv, SelectionsAreBounded
    <3> QED
        BY <1>12, <2>3, <3>4, <3>5 DEF PruneReplays
  <2> QED
      BY <2>2, <2>3
<1>13. ASSUME NEW r \in Runs, PruneSkips(r) PROVE VersionInv'
    BY <1>13, <1>5, <1>2 DEF PruneSkips
<1>14. ASSUME NEW r \in Runs, PruneRemoves(r) PROVE VersionInv'
  <2>1. RunningIsFirst'
      BY <1>1, <1>14, BoundedIs DEF PruneRemoves, RegistryShape, VersionInv, RunningIsFirst
  <2> QED
      BY <1>14, <1>2, <1>4, <2>1 DEF PruneRemoves
<1>15. CASE RegisterBinds \/ RegisterMakesDir
  <2>1. op' = [op EXCEPT !.at = op'.at] /\ UNCHANGED <<index, state, selLog>>
      BY <1>15 DEF RegisterBinds, RegisterMakesDir
  <2> QED
      BY <1>1, <1>5, <1>2, <2>1 DEF AnyOp
<1>16. CASE RegisterSaves
  <2>1. op.run \in Runs /\ op.image \in AnyIndex
      BY <1>1, <1>16 DEF RegisterSaves, RegistryInv, OpKnows, AnyOp
  <2>2. \A r \in Runs : selLog'[r] \subseteq Selection /\ index'.sel[r] \in Selection
      BY <1>1, <1>16, <1>2, <2>1, BoundedSaves DEF RegisterSaves
  <2>3. [status |-> "running", ver |-> 1] \in Selection
      BY RegistryAssumption DEF Selection
  <2>4. RunningIsFirst'
      BY <1>1, <1>16, <2>1, <2>3 DEF RegisterSaves, RegistryShape, VersionInv, RunningIsFirst
  <2> QED
      BY <1>16, <2>2, <2>4, BoundedIs DEF RegisterSaves, VersionInv, SelectionsAreBounded
<1>17. CASE RegisterFails \/ HolderDies
    BY <1>17, <1>5, <1>6, BoundedIs DEF RegisterFails, HolderDies
<1>18. CASE PublishSkips \/ ReplayUnlinks
  <2>1. op' = NoOp \/ op' = [op EXCEPT !.at = "selected"]
      BY <1>18 DEF PublishSkips, ReplayUnlinks
  <2>2. \A r \in Runs : op'.image.sel[r] \in Selection
      BY <1>1, <1>2, <2>1, BoundedIs DEF AnyOp
  <2> QED
      BY <1>18, <1>5, <2>2 DEF PublishSkips, ReplayUnlinks
<1>19. CASE PublishSelects
  <2>1. op.run \in Runs /\ state[op.run] \in AnyRecord
      BY <1>1, <1>19 DEF PublishSelects, RegistryInv, OpKnows, RegistryShape
  <2>2. \A r \in Runs : op'.image.sel[r] \in Selection
      BY <1>1, <1>19, <1>2, BoundedIs DEF PublishSelects, AnyOp
  <2>3. /\ WithSelection(index, op.run, state[op.run]) \in AnyIndex
        /\ \A q \in Runs : WithSelection(index, op.run, state[op.run]).sel[q] \in Selection
      BY <1>1, <1>2, <1>3, <2>1, WithSelectionKeeps
  <2>4. \A r \in Runs : selLog'[r] \subseteq Selection /\ index'.sel[r] \in Selection
      BY <1>1, <1>19, <2>3, BoundedSaves DEF PublishSelects
  <2> QED
      BY <1>19, <2>2, <2>4 DEF PublishSelects, VersionInv, RunningIsFirst, SelectionsAreBounded
<1>20. CASE PruneStarts
    BY <1>20, <1>5, <1>2 DEF PruneStarts, NoOp
<1>21. CASE PruneFrees
  <2>1. op.run \in Runs /\ op.image \in AnyIndex
      BY <1>1, <1>21 DEF PruneFrees, AnyOp
  <2>2. op'.image = WithoutRun(op.image, op.run)
      BY <1>1, <1>21 DEF PruneFrees, AnyOp
  <2>3. \A r \in Runs : op'.image.sel[r] \in {op.image.sel[r], None}
      BY <2>1, <2>2, WithoutRunKeeps
  <2> QED
      BY <1>21, <1>5, <1>2, <2>3, BoundedIs DEF PruneFrees
<1>22. CASE PruneSaves
  <2>1. op'.image = EmptyIndex /\ op.image \in AnyIndex
      BY <1>1, <1>22, BoundedIs DEF PruneSaves, AnyOp
  <2>2. \A r \in Runs : selLog'[r] \subseteq Selection /\ index'.sel[r] \in Selection
      BY <1>1, <1>22, <1>2, <2>1, BoundedSaves DEF PruneSaves, VersionInv, SelectionsAreBounded
  <2> QED
      BY <1>22, <1>6, <2>1, <2>2 DEF PruneSaves, VersionInv, RunningIsFirst, SelectionsAreBounded
<1>23. CASE UNCHANGED registryVars
    BY <1>23, <1>5, <1>2 DEF registryVars
<1> QED
    BY <1>7, <1>8, <1>9, <1>10, <1>11, <1>12, <1>13, <1>14, <1>15, <1>16, <1>17, <1>18, <1>19, <1>20, <1>21, <1>22,
       <1>23 DEF RegistryNext


LEMMA VersionInit == RegistryInit => VersionInv
    BY BoundedIs, RegistryAssumption
       DEF RegistryInit, VersionInv, RunningIsFirst, SelectionsAreBounded

LEMMA RegistryTyped == RegistryInv /\ VersionInv => RegistryTypeOK
<1> SUFFICES ASSUME RegistryInv, VersionInv PROVE RegistryTypeOK
    OBVIOUS
<1>0. RegistryShape
    BY DEF RegistryInv
<1>1. ASSUME NEW i \in AnyIndex, \A r \in Runs : i.sel[r] \in Selection PROVE i \in IndexType
    BY <1>1 DEF AnyIndex, IndexType
<1>2. index \in IndexType /\ op.image \in IndexType
    BY <1>0, <1>1 DEF RegistryShape, AnyOp, VersionInv, SelectionsAreBounded
<1>3. /\ op \in [kind : {"none", "register", "publish", "replay", "prune"}, run : Runs \cup {NoRun},
                at : {"start", "claimed", "bound", "made", "selected"}, image : IndexType, todo : SUBSET Runs]
    BY <1>0, <1>2 DEF RegistryShape, AnyOp
<1>4. state \in [Runs -> Selection] /\ selLog \in [Runs -> SUBSET Selection]
    BY <1>0 DEF RegistryShape, VersionInv, RunningIsFirst, SelectionsAreBounded
<1> QED
    BY <1>0, <1>2, <1>3, <1>4 DEF RegistryTypeOK, RegistryShape

(* Every variable of the registry has its type, the versions of the state   *)
(* files and of the selections their bound.                                 *)
THEOREM RegistryTypes == RegistrySpec => []RegistryTypeOK
    BY RegistryInvInit, RegistryInvStep, VersionInit, VersionStep, RegistryTyped, PTL DEF RegistrySpec

-----------------------------------------------------------------------------
(* All stores at once: a behaviour moves one of them, so each step is one of *)
(* its store and a stutter of the others.                                   *)
StoresInv ==
  /\ MailInv /\ RegistryInv /\ VersionInv /\ SliceInv /\ ReclaimInv /\ RetentionInv /\ LeaseInv
  /\ WatchInv /\ TripInv /\ HealthInv

LEMMA StoresInvInit == StoresInit => StoresInv
    BY MailStart, RegistryInvInit, VersionInit, SliceInvInit, ReclaimInvInit, RetentionInvInit, LeaseInvInit,
       WatchStart, TripStart, HealthInvInit DEF StoresInit, StoresInv

LEMMA StoresMove ==
  ASSUME [StoresNext]_<<focus, storesVars>>
  PROVE  /\ [MailNext]_mailVars /\ [RegistryNext]_registryVars /\ [SliceNext]_sliceVars
         /\ [RetentionNext]_retentionVars /\ [LeaseNext]_leaseVars /\ [WatchdogNext]_watchdogVars
         /\ [HealthNext]_healthVars
<1>1. CASE UNCHANGED <<focus, storesVars>>
    BY <1>1 DEF storesVars
<1>2. CASE StoresNext
    BY <1>2 DEF StoresNext, MailTurn, RegistryTurn, SliceTurn, RetentionTurn, LeaseTurn, WatchdogTurn, HealthTurn
<1> QED
    BY <1>1, <1>2

LEMMA StoresInvStep == StoresInv /\ [StoresNext]_<<focus, storesVars>> => StoresInv'
    BY StoresMove, MailStep, RegistryInvStep, VersionStep, SliceInvStep, ReclaimInvStep, RetentionInvStep,
       LeaseInvStep, WatchStep, TripStep, HealthInvStep DEF StoresInv

LEMMA StoresInvariant == StoresSpec => []StoresInv
    BY StoresInvInit, StoresInvStep, PTL DEF StoresSpec

(* The state of every store has its type, whichever of them moves.          *)
THEOREM StoresKeepTypes == StoresSpec => []StoresTypeOK
<1>1. StoresInv => StoresTypeOK
    BY RegistryTyped, MailTyped
       DEF StoresInv, SliceInv, RetentionInv, LeaseInv, WatchInv, HealthInv, StoresTypeOK
<1> QED
    BY StoresInvariant, <1>1, PTL

(* And every store keeps its promise there: mail, registry, slice, logs,    *)
(* worktrees, watchdog and markers, on every instance.                      *)
THEOREM StoresKeepPromises ==
  StoresSpec =>
    [](/\ PushHidesNothing /\ UnreadIsReported /\ StatusTellsDelivery
       /\ SelectionIsCurrent /\ RegisteredIsResolvable /\ SliceSparesLanes /\ SliceIsReclaimed
       /\ LogsReadBack /\ RemovalSparesUsers /\ StallsAreReal /\ TripsAreEarned
       /\ MarkerIsVerdict /\ DeferralIsSettled)
<1>1. StoresInv => /\ PushHidesNothing /\ UnreadIsReported /\ StatusTellsDelivery
                   /\ SelectionIsCurrent /\ RegisteredIsResolvable /\ SliceSparesLanes /\ SliceIsReclaimed
                   /\ LogsReadBack /\ RemovalSparesUsers /\ StallsAreReal /\ TripsAreEarned
                   /\ MarkerIsVerdict /\ DeferralIsSettled
    BY HidesNothing, StatusTold, SelectionTold, SliceTold, DeferralTold
       DEF StoresInv, MailInv, RegistryInv, SliceInv, RetentionInv, LeaseInv, WatchInv, TripInv, HealthInv
<1> QED
    BY StoresInvariant, <1>1, PTL
=============================================================================
