--------------------------- MODULE MCRunLiveness ---------------------------
(* One cancel command and one reader of a small run, in two weathers: with  *)
(* every trouble RunLifecycle knows, and with none but a cancel that dies.  *)
EXTENDS RunReaders

CONSTANT c1

VARIABLE calm

Calm == INSTANCE RunLifecycle WITH
  LauncherMayCrash <- FALSE, LockMayTimeOut <- FALSE, OthersHoldLock <- FALSE,
  WritesMayFail <- FALSE

WeatherInit == ReaderInit /\ calm \in BOOLEAN

WeatherNext ==
  /\ \/ ~calm /\ ReaderNext
     \/ calm /\ Calm!Next /\ UNCHANGED look
  /\ UNCHANGED calm

\* FairSpec's fairness, in either weather, and none for the reader.
WeatherSpec ==
  /\ WeatherInit /\ [][WeatherNext]_<<readerVars, calm>>
  /\ WF_vars(~calm /\ LauncherStep) /\ WF_vars(calm /\ Calm!LauncherStep)
  /\ \A c \in Cancellers : WF_vars(~calm /\ CancelStep(c)) /\ WF_vars(calm /\ Calm!CancelStep(c))
  /\ WF_vars(OtherReleases)

(* When its children and its setup end by themselves, a run whose launcher  *)
(* is not killed ends with a terminal record, unless a cancel was killed    *)
(* half-way.                                                                *)
CalmSettles == calm => RunSettles

(* Once cancel signalled a marked run, readers end up with `cancelled`,     *)
(* also when the cancel command dies there and only the launcher is left to *)
(* say so.                                                                  *)
CalmCancels == calm => SignalledBecomesCancelled
=============================================================================
