----------------------------- MODULE LaneSlice -----------------------------
(* The systemd slice that the lanes of one repository share (lane_slice.py, *)
(* used by runner.py around each attempt): a lane holds the slice lock      *)
(* shared, runs in a scope of its own, and the last one out stops the slice. *)
(*                                                                          *)
(* flock is the kernel's: a shared lock is converted by giving it up and    *)
(* asking for the exclusive one, and it goes with the process that holds it. *)
EXTENDS Naturals, FiniteSets

CONSTANTS
  SliceLanes,
  SliceTrouble  \* bound: runners killed and systemctl calls that fail

ASSUME SliceAssumption == SliceTrouble \in Nat

VARIABLES
  place,   \* [SliceLanes -> SlicePlaces]: where the lane's runner is
  flock,   \* [SliceLanes -> {"none", "shared", "exclusive"}]
  scope,   \* [SliceLanes -> {"none", "coming", "up"}]: the scope unit
  sliceUp, \* the slice's cgroup exists
  struck,  \* lanes whose scope went with the slice while their runner waited
  trouble
sliceVars == <<place, flock, scope, sliceUp, struck, trouble>>

SlicePlaces == {"idle", "locked", "bare", "running", "release", "converting", "exclusive", "empty", "out", "dead"}

SliceInit ==
  /\ place = [l \in SliceLanes |-> "idle"] /\ flock = [l \in SliceLanes |-> "none"]
  /\ scope = [l \in SliceLanes |-> "none"]
  /\ sliceUp = FALSE /\ struck = {} /\ trouble = 0

OthersHold(l, kinds) == \E k \in SliceLanes \ {l} : flock[k] \in kinds

\* acquire: polled until no one holds the lock exclusively.
SliceAcquires(l) ==
  /\ place[l] = "idle" /\ ~OthersHold(l, {"exclusive"})
  /\ place' = [place EXCEPT ![l] = "locked"] /\ flock' = [flock EXCEPT ![l] = "shared"]
  /\ UNCHANGED <<scope, sliceUp, struck, trouble>>

\* Slip: it starts in the slice all the same.
SliceStartsUnlocked(l) ==
  /\ place[l] = "idle" /\ OthersHold(l, {"exclusive"})
  /\ place' = [place EXCEPT ![l] = "locked"]
  /\ UNCHANGED <<flock, scope, sliceUp, struck, trouble>>

\* acquire: the wait ran out, so the lane is launched without a scope.
SliceGivesUp(l) ==
  /\ place[l] = "idle" /\ OthersHold(l, {"exclusive"})
  /\ place' = [place EXCEPT ![l] = "bare"]
  /\ UNCHANGED <<flock, scope, sliceUp, struck, trouble>>

\* Popen of systemd-run; systemd starts the scope, and with it the slice, later.
SliceLaunches(l) ==
  /\ place[l] = "locked"
  /\ place' = [place EXCEPT ![l] = "running"] /\ scope' = [scope EXCEPT ![l] = "coming"]
  /\ UNCHANGED <<flock, sliceUp, struck, trouble>>

\* The launch failed: there is no scope to stop.
SliceLaunchFails(l) ==
  /\ place[l] = "locked"
  /\ place' = [place EXCEPT ![l] = "release"]
  /\ UNCHANGED <<flock, scope, sliceUp, struck, trouble>>

ScopeStarts(l) ==
  /\ scope[l] = "coming"
  /\ scope' = [scope EXCEPT ![l] = "up"] /\ sliceUp' = TRUE
  /\ UNCHANGED <<place, flock, struck, trouble>>

\* The processes of a scope may end by themselves; --collect then removes it.
ScopeEmpties(l) ==
  /\ scope[l] = "up"
  /\ scope' = [scope EXCEPT ![l] = "none"]
  /\ UNCHANGED <<place, flock, sliceUp, struck, trouble>>

\* Slip: the lock is released before the scope is stopped.
SliceLeavesScope(l) ==
  /\ place[l] = "running"
  /\ place' = [place EXCEPT ![l] = "release"]
  /\ UNCHANGED <<flock, scope, sliceUp, struck, trouble>>

\* stop: the scope goes first (runner.py, the attempt's finally), then release.
SliceStopsScope(l) ==
  /\ place[l] = "running"
  /\ place' = [place EXCEPT ![l] = "release"] /\ scope' = [scope EXCEPT ![l] = "none"]
  /\ UNCHANGED <<flock, sliceUp, struck, trouble>>

\* The stop failed or timed out, and what was left in the scope stays.
SliceStopFails(l) ==
  /\ place[l] = "running" /\ trouble < SliceTrouble
  /\ place' = [place EXCEPT ![l] = "release"] /\ trouble' = trouble + 1
  /\ UNCHANGED <<flock, scope, sliceUp, struck>>

\* release: the conversion first gives the shared lock up ...
SliceUnlocks(l) ==
  /\ place[l] = "release"
  /\ place' = [place EXCEPT ![l] = "converting"] /\ flock' = [flock EXCEPT ![l] = "none"]
  /\ UNCHANGED <<scope, sliceUp, struck, trouble>>

\* ... and then succeeds only if no other user holds the slice.
SliceConverts(l) ==
  /\ place[l] = "converting"
  /\ IF OthersHold(l, {"shared", "exclusive"})
     THEN place' = [place EXCEPT ![l] = "out"] /\ UNCHANGED flock
     ELSE place' = [place EXCEPT ![l] = "exclusive"] /\ flock' = [flock EXCEPT ![l] = "exclusive"]
  /\ UNCHANGED <<scope, sliceUp, struck, trouble>>

Childless == \A k \in SliceLanes : scope[k] # "up"

\* _slice_is_childless: systemctl show and a look at the cgroup directory.
SliceProbes(l) ==
  /\ place[l] = "exclusive"
  /\ IF sliceUp /\ Childless
     THEN place' = [place EXCEPT ![l] = "empty"] /\ UNCHANGED flock
     ELSE place' = [place EXCEPT ![l] = "out"] /\ flock' = [flock EXCEPT ![l] = "none"]
  /\ UNCHANGED <<scope, sliceUp, struck, trouble>>

\* The slice is stopped with whatever has come into it; the lock goes after.
SliceStops(l) ==
  /\ place[l] = "empty"
  /\ sliceUp' = FALSE
  /\ struck' = struck \cup {k \in SliceLanes : scope[k] = "up" /\ place[k] = "running"}
  /\ scope' = [k \in SliceLanes |-> IF scope[k] = "up" THEN "none" ELSE scope[k]]
  /\ place' = [place EXCEPT ![l] = "out"] /\ flock' = [flock EXCEPT ![l] = "none"]
  /\ UNCHANGED trouble

\* systemctl failed: release lets the lock go all the same.
SliceReleaseFails(l) ==
  /\ place[l] \in {"exclusive", "empty"} /\ trouble < SliceTrouble
  /\ place' = [place EXCEPT ![l] = "out"] /\ flock' = [flock EXCEPT ![l] = "none"]
  /\ trouble' = trouble + 1
  /\ UNCHANGED <<scope, sliceUp, struck>>

\* The runner is killed: its lock is gone, its scope is not.
RunnerDies(l) ==
  /\ place[l] \notin {"idle", "bare", "out", "dead"} /\ trouble < SliceTrouble
  /\ place' = [place EXCEPT ![l] = "dead"] /\ flock' = [flock EXCEPT ![l] = "none"]
  /\ trouble' = trouble + 1
  /\ UNCHANGED <<scope, sliceUp, struck>>

SliceNext ==
  \E l \in SliceLanes :
     \/ SliceAcquires(l) \/ SliceGivesUp(l) \/ SliceLaunches(l) \/ SliceLaunchFails(l)
     \/ ScopeStarts(l) \/ ScopeEmpties(l) \/ SliceStopsScope(l) \/ SliceStopFails(l)
     \/ SliceUnlocks(l) \/ SliceConverts(l) \/ SliceProbes(l) \/ SliceStops(l)
     \/ SliceReleaseFails(l) \/ RunnerDies(l)

SliceSpec == SliceInit /\ [][SliceNext]_sliceVars

SliceTypeOK ==
  /\ place \in [SliceLanes -> SlicePlaces]
  /\ flock \in [SliceLanes -> {"none", "shared", "exclusive"}]
  /\ scope \in [SliceLanes -> {"none", "coming", "up"}]
  /\ sliceUp \in BOOLEAN /\ struck \subseteq SliceLanes /\ trouble \in 0..SliceTrouble

\* The last user of a slice stops it without hitting a lane that is about to
\* start in it: no lane whose runner waits for it loses its scope to a release
\* (acquire, release), whichever runners were killed.
SliceSparesLanes == struck = {}

\* The slice does not outlive its users: once every lane has been through its
\* release, nothing failed and no runner was killed, the slice is gone, although
\* a conversion gives up its lock before it knows that it is the last (release).
SliceIsReclaimed ==
  trouble = 0 /\ (\A l \in SliceLanes : place[l] \in {"idle", "bare", "out"} /\ scope[l] = "none") => ~sliceUp
=============================================================================
