----------------------------- MODULE Retention -----------------------------
(* The raw logs of one finished run and their archive (retention.py).       *)
(*                                                                          *)
(* One pass at a time holds the retention lock; it packs the logs without   *)
(* the registry lock and replaces them under it.  Files are reduced to      *)
(* their sizes: a log only ever grows, so a size names its contents.  A log *)
(* may grow after the record is terminal (a child that outlives a cancel),  *)
(* but not while the pass holds the registry lock, nor once its file is     *)
(* gone: the age that makes a run eligible (rawLogDays) stands for that.    *)
(* A reader of the logs takes no lock: it looks for the file, looks again    *)
(* and opens it, each in a step of its own.                                 *)
EXTENDS Naturals, FiniteSets

CONSTANTS
  Logs,           \* ARCHIVE_MEMBER_NAMES
  MaxBytes,       \* bound: what is written to a log
  RetentionDeaths \* bound: passes that are killed

ASSUME RetentionAssumption == MaxBytes \in Nat /\ RetentionDeaths \in Nat

\* A set of files is a function from the names that are there to their sizes.
Files == UNION {[names -> 0..MaxBytes] : names \in SUBSET Logs}
NoFiles == [f \in {} |-> 0]
Without(files, f) == [g \in DOMAIN files \ {f} |-> files[g]]
With(files, f, size) == [g \in DOMAIN files \cup {f} |-> IF g = f THEN size ELSE files[g]]

VARIABLES
  live,    \* the logs in the run's directory
  temp,    \* archive.tmp
  archive, \* the archive, NoFiles when there is none
  written, \* history: what the run wrote, as a set of files
  pass,    \* the pass: where it is, the members it saw with their sizes, what is left to do
  marked,  \* rawLogsArchivedAt with stdoutBytes and stderrBytes: a set of files
  passDeaths,
  reading, \* a `runs output`: where it is, the log, and what was written of it when it began
  cutShort \* history: how often a read of each log came back short, or failed
archivalVars == <<live, temp, archive, written, pass, marked, passDeaths>>
retentionVars == <<archivalVars, reading, cutShort>>

NoPass == [at |-> "idle", members |-> NoFiles, todo |-> {}]

ArchivalInit ==
  /\ live = NoFiles /\ temp = NoFiles /\ archive = NoFiles /\ written = NoFiles
  /\ pass = NoPass /\ marked = NoFiles /\ passDeaths = 0

NoRead == [at |-> "idle", log |-> "none", owed |-> 0]

RetentionInit == ArchivalInit /\ reading = NoRead /\ cutShort = [f \in Logs |-> 0]

LockedPass == pass.at \in {"replace", "unlink", "mark"}

LogGrows(f) ==
  /\ ~LockedPass /\ (f \in DOMAIN live \/ f \notin DOMAIN written)
  /\ f \in DOMAIN live => live[f] < MaxBytes
  /\ live' = With(live, f, IF f \in DOMAIN live THEN live[f] + 1 ELSE 0)
  /\ written' = With(written, f, live'[f])
  /\ UNCHANGED <<temp, archive, pass, marked, passDeaths>>

\* archive_run_raw_logs: an old archive is completed, otherwise one is packed.
PassLists ==
  /\ pass.at = "idle" /\ live # NoFiles
  /\ pass' = [at |-> IF archive = NoFiles THEN "pack" ELSE "resume", members |-> live, todo |-> DOMAIN live]
  /\ temp' = IF archive = NoFiles THEN NoFiles ELSE temp
  /\ UNCHANGED <<live, archive, written, marked, passDeaths>>

\* tarfile.add, one member after the other, each as long as it is by then.
PassPacks ==
  /\ pass.at = "pack"
  /\ \E f \in pass.todo :
       /\ temp' = With(temp, f, live[f])
       /\ pass' = [pass EXCEPT !.todo = @ \ {f}]
  /\ UNCHANGED <<live, archive, written, marked, passDeaths>>

\* _verify_archive_members: every member that was listed is there, as long as it was.
Verified(files, members) ==
  members # NoFiles /\ \A f \in DOMAIN members : f \in DOMAIN files /\ files[f] = members[f]

PassGivesUp ==
  /\ pass.at = "pack" /\ pass.todo = {} /\ ~Verified(temp, pass.members)
  /\ temp' = NoFiles /\ pass' = NoPass
  /\ UNCHANGED <<live, archive, written, marked, passDeaths>>

\* The lock, and _member_identities again: a log that grew meanwhile stops the pass.
Unchanged(members) == \A f \in DOMAIN members : live[f] = members[f]
PassLocks ==
  /\ pass.at = "pack" /\ pass.todo = {} /\ Verified(temp, pass.members)
  /\ IF Unchanged(pass.members)
     THEN pass' = [pass EXCEPT !.at = "replace"] /\ UNCHANGED temp
     ELSE pass' = NoPass /\ temp' = NoFiles
  /\ UNCHANGED <<live, archive, written, marked, passDeaths>>

PassReplaces ==
  /\ pass.at = "replace"
  /\ archive' = temp /\ temp' = NoFiles
  /\ pass' = [pass EXCEPT !.at = "unlink", !.todo = DOMAIN pass.members]
  /\ UNCHANGED <<live, written, marked, passDeaths>>

\* Slip: an archive that is there is taken to be complete.
ResumesBlind ==
  /\ pass.at = "resume"
  /\ pass' = [at |-> "unlink", members |-> [f \in DOMAIN pass.members |-> live[f]], todo |-> DOMAIN pass.members]
  /\ UNCHANGED <<live, temp, archive, written, marked, passDeaths>>

\* The archive of a pass that died: only under the lock, and only if what is
\* left of the logs is what it holds.
PassResumes ==
  /\ pass.at = "resume"
  /\ LET sizes == [f \in DOMAIN pass.members |-> live[f]] IN
     pass' = IF Verified(archive, sizes)
             THEN [at |-> "unlink", members |-> sizes, todo |-> DOMAIN sizes] ELSE NoPass
  /\ UNCHANGED <<live, temp, archive, written, marked, passDeaths>>

PassUnlinks ==
  /\ pass.at = "unlink"
  /\ \E f \in pass.todo :
       /\ live' = Without(live, f)
       /\ pass' = [pass EXCEPT !.todo = @ \ {f}, !.at = IF pass.todo = {f} THEN "mark" ELSE @]
  /\ UNCHANGED <<temp, archive, written, marked, passDeaths>>

\* _mark_raw_logs_archived: a log the pass did not see counts as empty.
PassMarks ==
  /\ pass.at = "mark"
  /\ marked' = [f \in Logs |-> IF f \in DOMAIN pass.members THEN pass.members[f] ELSE 0]
  /\ pass' = NoPass
  /\ UNCHANGED <<live, temp, archive, written, passDeaths>>

PassDies ==
  /\ pass.at # "idle" /\ passDeaths < RetentionDeaths
  /\ pass' = NoPass /\ passDeaths' = passDeaths + 1
  /\ UNCHANGED <<live, temp, archive, written, marked>>

ArchivalNext ==
  \/ \E f \in Logs : LogGrows(f)
  \/ PassLists \/ PassPacks \/ PassGivesUp \/ PassLocks \/ PassReplaces \/ PassResumes
  \/ PassUnlinks \/ PassMarks \/ PassDies

\* retention.read_log_output: the live log if it is there, else the archive.
ReadBegins(f) ==
  /\ reading.at = "idle"
  /\ reading' = [at |-> IF f \in DOMAIN live THEN "live" ELSE "archive", log |-> f,
                 owed |-> IF f \in DOMAIN written THEN written[f] ELSE 0]
  /\ UNCHANGED cutShort

ReadComesBack(short) ==
  /\ reading' = NoRead
  /\ cutShort' = IF short THEN [cutShort EXCEPT ![reading.log] = @ + 1] ELSE cutShort

\* log_output.read_log_output looks for the file it was sent to once more (and
\* for a tail again), and shows nothing when it is gone, ...
ReadLooksAgain ==
  /\ reading.at = "live"
  /\ IF reading.log \in DOMAIN live
     THEN reading' = [reading EXCEPT !.at = "open"] /\ UNCHANGED cutShort
     ELSE ReadComesBack(reading.owed > 0)

\* ... and an open of what was unlinked meanwhile fails; what is open stays
\* readable.
ReadOpens ==
  /\ reading.at = "open"
  /\ ReadComesBack(reading.log \in DOMAIN live => live[reading.log] < reading.owed)

\* No archive, or no such member: nothing.
ReadArchived ==
  /\ reading.at = "archive"
  /\ ReadComesBack(
       IF reading.log \in DOMAIN archive THEN archive[reading.log] < reading.owed ELSE reading.owed > 0)

ReadStep == (\E f \in Logs : ReadBegins(f)) \/ ReadLooksAgain \/ ReadOpens \/ ReadArchived

RetentionNext ==
  \/ ArchivalNext /\ UNCHANGED <<reading, cutShort>>
  \/ ReadStep /\ UNCHANGED archivalVars

RetentionSpec == RetentionInit /\ [][RetentionNext]_retentionVars

ArchivalTypeOK ==
  /\ {live, temp, archive, written, marked} \subseteq Files
  /\ pass \in [at : {"idle", "pack", "resume", "replace", "unlink", "mark"}, members : Files, todo : SUBSET Logs]
  /\ passDeaths \in 0..RetentionDeaths

RetentionTypeOK ==
  /\ ArchivalTypeOK
  /\ reading \in [at : {"idle", "live", "open", "archive"}, log : Logs \cup {"none"}, owed : 0..MaxBytes]
  /\ cutShort \in [Logs -> Nat]

\* `runs output` shows all that a log held when it began, while a pass packs,
\* after one died between any two files, and when a later pass completes or
\* refuses what that one left; except that the unlink may overtake one read,
\* which then comes back empty or fails, and from then on the archive has the
\* whole log (archive_run_raw_logs, read_log_output).
LogsReadBack ==
  \A f \in Logs : cutShort[f] > 0 =>
    /\ cutShort[f] = 1
    /\ f \notin DOMAIN live /\ f \in DOMAIN archive /\ archive[f] = written[f]
=============================================================================
