----------------------------- MODULE LaneHealth -----------------------------
(* The known-bad marker of a lane (lane_health.py) and the one automatic    *)
(* continuation of a run (auto_resume.py), over launch commands of one lane *)
(* (cli.py): each reads the marker, runs its child, tells the marker how    *)
(* the run ended, publishes its record and decides whether to go on.        *)
(*                                                                          *)
(* A marker is the time it expires at.  Markers and automatic resume are    *)
(* enabled; the record's lock and log are RunLifecycle's.                   *)
EXTENDS Naturals

CONSTANTS
  Launches,         \* launch commands on the lane
  Forcing,          \* those given --force-launch
  Modes,            \* which modes they are given: functions from Launches
  KnownBad,         \* knownBadLaneMinutes
  MaxWall,          \* bound of the wall clock
  HealthTrouble,    \* bound: cancels and killed commands
  NoMarker, Corrupt

ASSUME HealthAssumption ==
  /\ Modes \subseteq [Launches -> {"work", "safe", "call"}]
  /\ KnownBad \in Nat \ {0} /\ MaxWall \in Nat /\ HealthTrouble \in Nat
  /\ NoMarker \notin Nat /\ Corrupt \notin Nat /\ Corrupt # NoMarker

VARIABLES
  marker,    \* the marker file
  storeLock, \* the launch that holds the store's lock, as a set
  wall,      \* time.time()
  verdict,   \* history: the marker that the last finished run asked for
  job,       \* [Launches -> Jobs]: a launch command and the run it is at
  upsets     \* how many of HealthTrouble have happened
healthVars == <<marker, storeLock, wall, verdict, job, upsets>>

\* How a run ends for the provider: a transient drop of a saved session, a
\* broker refusal before any output, another persistent failure of the lane,
\* and the rest (request-scoped, unknown, or established by Delegate).
Ends == {"success", "drop", "refused", "lane", "other"}

Jobs ==
  [at     : {"check", "discard", "unlink", "run", "ended", "settle", "persist", "decide", "out", "dead"},
   mode   : {"work", "safe", "call"},
   auto   : BOOLEAN,            \* the run is the automatic one
   moment : 0..MaxWall,         \* the time that check compares with
   end    : Ends \cup {"none"},
   asked  : BOOLEAN,            \* cancelRequested is in the run's record
   told   : {"none", "cancelled", "cleared", "written", "unwritable", "deferred"},
   first  : {"none", "succeeded", "failed", "cancelled"}, \* the first run's record
   kept   : BOOLEAN]            \* its continuation could not be launched

LiveAt(m, t) == m \in Nat /\ m > t

HealthInit ==
  /\ marker \in {NoMarker, Corrupt, 1}
  /\ verdict = IF marker = Corrupt THEN NoMarker ELSE marker
  /\ storeLock = {} /\ wall = 0 /\ upsets = 0
  /\ \E mode \in Modes :
       job = [i \in Launches |->
                [at |-> "check", mode |-> mode[i], auto |-> FALSE, moment |-> 0, end |-> "none",
                 asked |-> FALSE, told |-> "none", first |-> "none", kept |-> FALSE]]

\* A command that is over: what it left is its last word to the store, the
\* first run's record, and whether a continuation could not be launched.
Over(i, where, kept) ==
  job' = [job EXCEPT ![i] = [@ EXCEPT !.at = where, !.end = "none", !.asked = FALSE, !.moment = 0, !.kept = kept]]

StoreUnchanged == UNCHANGED <<marker, storeLock, wall, verdict, upsets>>
Upset == upsets < HealthTrouble /\ upsets' = upsets + 1

\* A continuation of the session is launched without the flag, a rerun with it.
Forced(i) == i \in Forcing /\ ~(job[i].auto /\ job[i].mode = "work")

Proceeds(i) == job' = [job EXCEPT ![i].at = "run", ![i].moment = 0]

\* _enforce_lane_health: the marker is read without the lock.
CheckPasses(i) ==
  /\ job[i].at = "check"
  /\ (marker = NoMarker \/ (LiveAt(marker, wall) /\ Forced(i)))
  /\ Proceeds(i)
  /\ StoreUnchanged

CheckRefuses(i) ==
  /\ job[i].at = "check" /\ LiveAt(marker, wall) /\ ~Forced(i)
  /\ Over(i, "out", job[i].auto)
  /\ StoreUnchanged

CheckFindsStale(i) ==
  /\ job[i].at = "check" /\ marker # NoMarker /\ ~LiveAt(marker, wall)
  /\ job' = [job EXCEPT ![i].at = "discard", ![i].moment = wall]
  /\ StoreUnchanged

\* Slip: the marker is removed as it was read.
DiscardTrusts(i) ==
  /\ job[i].at = "discard" /\ storeLock = {}
  /\ job' = [job EXCEPT ![i].at = "unlink"] /\ storeLock' = {i}
  /\ UNCHANGED <<marker, wall, verdict, upsets>>

\* _discard reads it again under the lock, and compares with the same time.
DiscardLooks(i) ==
  /\ job[i].at = "discard" /\ storeLock = {}
  /\ IF LiveAt(marker, job[i].moment)
     THEN Proceeds(i) /\ UNCHANGED storeLock
     ELSE job' = [job EXCEPT ![i].at = "unlink"] /\ storeLock' = {i}
  /\ UNCHANGED <<marker, wall, verdict, upsets>>

DiscardUnlinks(i) ==
  /\ job[i].at = "unlink"
  /\ marker' = NoMarker /\ storeLock' = {} /\ Proceeds(i)
  /\ UNCHANGED <<wall, verdict, upsets>>

\* The wait for the lock ran out.
DiscardGivesUp(i) ==
  /\ job[i].at = "discard" /\ storeLock # {} /\ Proceeds(i)
  /\ StoreUnchanged

\* A call's workspace is gone when it is rerun, so its child cannot start.
RunEnds(i) ==
  /\ job[i].at = "run" /\ ~(job[i].auto /\ job[i].mode = "call")
  /\ \E e \in Ends : job' = [job EXCEPT ![i].at = "ended", ![i].end = e]
  /\ StoreUnchanged

LaunchFails(i) ==
  /\ job[i].at = "run"
  /\ Over(i, "out", job[i].auto)
  /\ StoreUnchanged

\* cancel stamps the record before it signals the child.
CancelStamps(i) ==
  /\ job[i].at \in {"run", "ended", "settle", "persist"} /\ ~job[i].asked /\ Upset
  /\ job' = [job EXCEPT ![i].asked = TRUE]
  /\ UNCHANGED <<marker, storeLock, wall, verdict>>

\* _finalize_tracked_run reads cancelRequested once, without the lock: a run
\* found cancelled neither tells the store nor leaves a note.
FinalReads(i) ==
  /\ job[i].at = "ended"
  /\ job' = IF job[i].asked
            THEN [job EXCEPT ![i].at = "persist", ![i].told = "cancelled"]
            ELSE [job EXCEPT ![i].at = "settle"]
  /\ StoreUnchanged

\* Slip: the automatic run defers as well.
DefersAgain(j) == j.mode # "work" /\ j.end = "refused"

\* defers_lane_marker: the retry decides whether the lane is really bad.
Defers(j) == ~j.auto /\ j.mode # "work" /\ j.end = "refused"

Earns(j) == j.end \in {"refused", "lane"} /\ ~Defers(j)

Told(i, what) == job' = [job EXCEPT ![i].at = "persist", ![i].told = what]

\* clear: under the lock, or without it once the wait for it ran out.
SettleClears(i) ==
  /\ job[i].at = "settle" /\ job[i].end = "success"
  /\ marker' = NoMarker /\ verdict' = NoMarker
  /\ Told(i, "cleared")
  /\ UNCHANGED <<storeLock, wall, upsets>>

SettleWrites(i) ==
  /\ job[i].at = "settle" /\ Earns(job[i]) /\ storeLock = {}
  /\ marker' = wall + KnownBad /\ verdict' = wall + KnownBad
  /\ Told(i, "written")
  /\ UNCHANGED <<storeLock, wall, upsets>>

SettleFails(i) ==
  /\ job[i].at = "settle" /\ Earns(job[i]) /\ storeLock # {}
  /\ Told(i, "unwritable")
  /\ StoreUnchanged

SettleSkips(i) ==
  /\ job[i].at = "settle" /\ job[i].end # "success" /\ ~Earns(job[i])
  /\ Told(i, IF Defers(job[i]) THEN "deferred" ELSE "none")
  /\ StoreUnchanged

\* _persist_final_progress reads the marker of a cancel again, under the lock.
Persists(i) ==
  /\ job[i].at = "persist"
  /\ job' = [job EXCEPT ![i].at = "decide",
       ![i].first = IF job[i].auto THEN @
                    ELSE IF job[i].asked THEN "cancelled"
                    ELSE IF job[i].end = "success" THEN "succeeded" ELSE "failed"]
  /\ StoreUnchanged

\* What _maybe_auto_resume decides on is the note that the finalizer left.
Noted(j) == ~j.auto /\ j.told # "cancelled"
Resumes(j) == Noted(j) /\ j.mode = "work" /\ j.end = "drop"
Reruns(j) ==
  /\ Noted(j)
  /\ \/ j.mode # "work" /\ j.end = "refused"
     \/ j.mode = "safe" /\ j.end = "drop"

\* build_followup_plan accepts any record that is not live, a cancelled one too.
Continues(i) ==
  /\ job[i].at = "decide" /\ (Resumes(job[i]) \/ Reruns(job[i]))
  /\ job' = [job EXCEPT ![i].at = "check", ![i].auto = TRUE, ![i].end = "none", ![i].asked = FALSE]
  /\ StoreUnchanged

KeepsFirst(i) ==
  /\ job[i].at = "decide" /\ Resumes(job[i])
  /\ Over(i, "out", TRUE)
  /\ StoreUnchanged

Finishes(i) ==
  /\ job[i].at = "decide" /\ ~Resumes(job[i]) /\ ~Reruns(job[i])
  /\ Over(i, "out", FALSE)
  /\ StoreUnchanged

CommandDies(i) ==
  /\ job[i].at \notin {"out", "dead"} /\ Upset
  /\ Over(i, "dead", FALSE) /\ storeLock' = storeLock \ {i}
  /\ UNCHANGED <<marker, wall, verdict>>

WallTicks ==
  /\ wall < MaxWall /\ wall' = wall + 1
  /\ UNCHANGED <<marker, storeLock, verdict, job, upsets>>

HealthNext ==
  \/ WallTicks
  \/ \E i \in Launches :
       \/ CheckPasses(i) \/ CheckRefuses(i) \/ CheckFindsStale(i)
       \/ DiscardLooks(i) \/ DiscardUnlinks(i) \/ DiscardGivesUp(i)
       \/ RunEnds(i) \/ LaunchFails(i) \/ CancelStamps(i) \/ FinalReads(i)
       \/ SettleClears(i) \/ SettleWrites(i) \/ SettleFails(i) \/ SettleSkips(i)
       \/ Persists(i) \/ Continues(i) \/ KeepsFirst(i) \/ Finishes(i) \/ CommandDies(i)

HealthSpec == HealthInit /\ [][HealthNext]_healthVars

HealthTypeOK ==
  /\ marker \in {NoMarker, Corrupt} \cup 1..(MaxWall + KnownBad)
  /\ verdict \in {NoMarker} \cup 1..(MaxWall + KnownBad)
  /\ storeLock \subseteq Launches /\ wall \in 0..MaxWall
  /\ job \in [Launches -> Jobs]

(* The marker that a launch can meet is the one the last finished run asked *)
(* for: no clean-up of an expired or corrupt one takes a fresh one with it, *)
(* and none outlives a success, with the lock stuck or its holder dead.     *)
MarkerIsVerdict == LiveAt(marker, wall) \/ LiveAt(verdict, wall) => marker = verdict

(* A refusal of a safe run that was let off, for a rerun to decide about    *)
(* the lane, is decided by it: the command ends with the lane unjudged only *)
(* when the rerun met another launch's marker or could not be started, and  *)
(* says so.  Calls are set apart: RefusedCallIsJudged does not hold.        *)
DeferralIsSettled ==
  \A i \in Launches :
    job[i].mode = "safe" /\ job[i].at = "out" /\ job[i].told = "deferred" => job[i].kept

(* A call is not covered by the reruns, so its refusal is not let off: a    *)
(* command that ends has judged the lane (auto_resume.rerun_skip_reason).   *)
RefusedCallIsJudged ==
  \A i \in Launches : job[i].mode = "call" /\ job[i].at = "out" => job[i].told # "deferred"

(* Only a run that fails is continued automatically: one that its operator  *)
(* cancelled stays as it is.                                                *)
CancelledIsLeft == \A i \in Launches : job[i].auto => job[i].first # "cancelled"
=============================================================================
