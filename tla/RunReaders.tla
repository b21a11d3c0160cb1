----------------------------- MODULE RunReaders -----------------------------
(* Commands that read the record of a run without any lock, again and again *)
(* (`delegate wait`, `runs status`, a workflow's supervisor), beside all    *)
(* that RunLifecycle does to it.  One reader is enough: readers change      *)
(* nothing, so each of several sees what it would see alone.                *)
EXTENDS RunLifecycle

VARIABLE look
(* at:   which file it looks at next                                        *)
(* held: what it has read so far                                            *)
(* owed: the launcher had reported when this read began                     *)
(* told: the last outcome a read came back with                             *)
(* late: the owed reads that came back without one                          *)

readerVars == <<vars, look>>

LookTypeOK ==
  look \in [at : {"record", "wal", "again"}, held : Records, owed : BOOLEAN,
            told : {"none"} \cup Terminal, late : Nat]

ReaderInit ==
  /\ Init
  /\ look = [at |-> "record", held |-> NoRecord, owed |-> FALSE, told |-> "none", late |-> 0]

\* The read comes back with the record `r`.
Tells(r) ==
  look' = [at |-> "record", held |-> NoRecord, owed |-> FALSE,
           told |-> IF r.status \in Terminal THEN r.status ELSE look.told,
           late |-> IF look.owed /\ r.status \notin Terminal THEN look.late + 1 ELSE look.late]

ReaderStarts ==
  /\ look.at = "record"
  /\ look' = [look EXCEPT !.at = "wal", !.held = rec, !.owed = (reported # "none")]

\* Slip: readers take state.json alone.
ReaderIgnoresWal == look.at = "wal" /\ wal # NoRecord /\ Tells(look.held)

ReaderFindsWal ==
  /\ look.at = "wal" /\ wal # NoRecord
  /\ look' = [look EXCEPT !.at = "again", !.held = wal]

ReaderFindsNoWal == look.at = "wal" /\ wal = NoRecord /\ Tells(look.held)
ReaderMerges == look.at = "again" /\ Tells(MergeTerminal(rec, look.held))

ReaderStep ==
  /\ ReaderStarts \/ ReaderFindsWal \/ ReaderFindsNoWal \/ ReaderMerges
  /\ UNCHANGED vars

ReaderNext == ReaderStep \/ (Next /\ UNCHANGED look)

ReaderSpec == ReaderInit /\ [][ReaderNext]_readerVars

(* Once the launcher has reported, a reader that asks again gets an         *)
(* outcome: at most one read, the one the fold of the WAL overtakes between *)
(* its two looks, comes back without, and none when the launcher persisted  *)
(* under the lock.  The outcome it got is the record's, or the cancellation *)
(* that was written over it (record_io.load_run_state).                     *)
ReportedIsReadable ==
  /\ look.late <= 1 /\ (via = "lock" => look.late = 0)
  /\ look.told # "none" => View.status \in {look.told, "cancelled"}
=============================================================================
