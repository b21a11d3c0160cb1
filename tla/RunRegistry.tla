---------------------------- MODULE RunRegistry ----------------------------
(* The registry of one workspace (run_registry.py): index.json, the alias   *)
(* claims, the run directories, the cached terminal selection, the finalize *)
(* WAL's replay and `runs prune`.                                           *)
(*                                                                          *)
(* Every operation but the WAL's write runs under the registry lock, so one *)
(* operation is under way at a time and `op` holds its program counter and  *)
(* the index image it loaded.  Each file is replaced in one step; a killed  *)
(* holder leaves what it has written.                                       *)
EXTENDS Naturals, FiniteSets, FiniteSetsExt

CONSTANTS
  Runs, NoRun,
  MaxAlias,   \* bound: alias numbers
  MaxWrites   \* bound: versions of a state file

Aliases == 1..MaxAlias
Terminal == {"succeeded", "cancelled"}
None == [status |-> "none", ver |-> 0]

ASSUME RegistryAssumption ==
  /\ NoRun \notin Runs /\ {"absent", "empty"} \cap Runs = {}
  /\ MaxAlias \in Nat /\ MaxWrites \in Nat \ {0}

VARIABLES
  index,   \* index.json: [runs, alias, names, sel]
  claims,  \* [Aliases -> {"absent", "empty"} \cup Runs]: the files of aliases/
  dirs,    \* the run directories
  state,   \* [Runs -> [status, ver]]: state.json and its identity on disk
  wal,     \* [Runs -> "none" or the status of finalize.wal.json]
  op,      \* the operation that holds the lock
  launched, registered, \* histories: runs that asked for, and got, an entry
  selLog   \* [Runs -> set of selections ever saved]: what a reader may hold
registryVars == <<index, claims, dirs, state, wal, op, launched, registered, selLog>>

EmptyIndex == [runs |-> {}, alias |-> [r \in Runs |-> 0],
               names |-> [a \in Aliases |-> NoRun], sel |-> [r \in Runs |-> None]]
NoOp == [kind |-> "none", run |-> NoRun, at |-> "start", image |-> EmptyIndex, todo |-> {}]

RegistryInit ==
  /\ index = EmptyIndex /\ claims = [a \in Aliases |-> "absent"] /\ dirs = {}
  /\ state = [r \in Runs |-> None] /\ wal = [r \in Runs |-> "none"]
  /\ op = NoOp /\ launched = {} /\ registered = {}
  /\ selLog = [r \in Runs |-> {}]

Free == op = NoOp
\* What a registration, a prune and a publication change in an image of the index.
WithRun(image, r, a) == [image EXCEPT !.runs = @ \cup {r}, !.alias[r] = a, !.names[a] = r]
WithoutRun(image, r) ==
  [runs |-> image.runs \ {r}, alias |-> [image.alias EXCEPT ![r] = 0],
   names |-> [a \in Aliases |-> IF image.names[a] = r THEN NoRun ELSE image.names[a]],
   sel |-> [image.sel EXCEPT ![r] = None]]
WithSelection(image, r, record) == [image EXCEPT !.sel[r] = record]
Saves(image) ==
  /\ index' = image
  /\ selLog' = [r \in Runs |-> IF r \in image.runs THEN selLog[r] \cup {image.sel[r]} ELSE selLog[r]]

-----------------------------------------------------------------------------
(* register_run *)

Registering(r, a) ==
  [NoOp EXCEPT !.kind = "register", !.run = r, !.at = "claimed", !.image = WithRun(index, r, a)]

\* allocate_alias: the first number whose claim can be created exclusively.
RegisterClaims(r) ==
  /\ Free /\ r \notin launched
  /\ \E a \in Aliases :
       /\ claims[a] = "absent" /\ \A b \in Aliases : claims[b] = "absent" => a <= b
       /\ claims' = [claims EXCEPT ![a] = "empty"]
       /\ op' = Registering(r, a)
  /\ launched' = launched \cup {r}
  /\ UNCHANGED <<index, dirs, state, wal, registered, selLog>>

RegisterBinds ==
  /\ op.kind = "register" /\ op.at = "claimed"
  /\ claims' = [claims EXCEPT ![op.image.alias[op.run]] = op.run]
  /\ op' = [op EXCEPT !.at = "bound"]
  /\ UNCHANGED <<index, dirs, state, wal, launched, registered, selLog>>

RegisterMakesDir ==
  /\ op.kind = "register" /\ op.at = "bound"
  /\ dirs' = dirs \cup {op.run}
  /\ op' = [op EXCEPT !.at = "made"]
  /\ UNCHANGED <<index, claims, state, wal, launched, registered, selLog>>

\* The index is saved; the launcher then writes the first state.
RegisterSaves ==
  /\ op.kind = "register" /\ op.at = "made"
  /\ Saves(op.image)
  /\ registered' = registered \cup {op.run}
  /\ state' = [state EXCEPT ![op.run] = [status |-> "running", ver |-> 1]]
  /\ op' = NoOp
  /\ UNCHANGED <<claims, dirs, wal, launched>>

\* A step raised: the claim and the directory that was made go away again.
RegisterFails ==
  /\ op.kind = "register"
  /\ claims' = [claims EXCEPT ![op.image.alias[op.run]] = "absent"]
  /\ dirs' = dirs \ {op.run}
  /\ op' = NoOp
  /\ UNCHANGED <<index, state, wal, launched, registered, selLog>>

-----------------------------------------------------------------------------
(* Terminal records *)

\* merge_terminal_record: a cancel owns the outcome, and a terminal record stays.
Merged(r) == IF state[r].status \in Terminal THEN state[r].status ELSE wal[r]
\* load_run_state: the state with a pending WAL laid over it.
StatusNow(r) == IF wal[r] = "none" THEN state[r].status ELSE Merged(r)

Live(r) == r \in registered /\ r \in dirs
Writes(r, status) == state' = [state EXCEPT ![r] = [status |-> status, ver |-> @.ver + 1]]

\* publish_terminal_record_locked: state.json first.  A cancel may follow a
\* terminal record; nothing else may.
PublishWrites(r, status) ==
  /\ Free /\ Live(r) /\ wal[r] = "none" /\ state[r].ver < MaxWrites
  /\ state[r].status = "running" \/ (state[r].status = "succeeded" /\ status = "cancelled")
  /\ Writes(r, status)
  /\ op' = [NoOp EXCEPT !.kind = "publish", !.run = r]
  /\ UNCHANGED <<index, claims, dirs, wal, launched, registered, selLog>>

\* update_terminal_selection_locked: then the index, with the new file's identity.
PublishSelects ==
  /\ op.kind \in {"publish", "replay"} /\ op.at = "start"
  /\ Saves(WithSelection(index, op.run, state[op.run]))
  /\ op' = IF op.kind = "replay" THEN [op EXCEPT !.at = "selected"] ELSE NoOp
  /\ UNCHANGED <<claims, dirs, state, wal, launched, registered>>

\* The selection is best effort: its OSError is dropped.
PublishSkips ==
  /\ op.kind \in {"publish", "replay"} /\ op.at = "start"
  /\ op' = IF op.kind = "replay" THEN [op EXCEPT !.at = "selected"] ELSE NoOp
  /\ UNCHANGED <<index, claims, dirs, state, wal, launched, registered, selLog>>

\* A finalizer without the lock leaves its record in the WAL.
WriteWal(r) ==
  /\ Live(r) /\ wal[r] = "none" /\ state[r].status = "running"
  /\ wal' = [wal EXCEPT ![r] = "succeeded"]
  /\ UNCHANGED <<index, claims, dirs, state, op, launched, registered, selLog>>

\* reconcile_finalize_wal_locked, by the next holder: record, selection, unlink.
ReplayWrites(r) ==
  /\ Free /\ Live(r) /\ wal[r] # "none" /\ state[r].ver < MaxWrites
  /\ IF Merged(r) = state[r].status THEN UNCHANGED state ELSE Writes(r, Merged(r))
  /\ op' = [NoOp EXCEPT !.kind = "replay", !.run = r,
              !.at = IF Merged(r) = state[r].status THEN "selected" ELSE "start"]
  /\ UNCHANGED <<index, claims, dirs, wal, launched, registered, selLog>>

ReplayUnlinks ==
  /\ op.kind = "replay" /\ op.at = "selected"
  /\ wal' = [wal EXCEPT ![op.run] = "none"]
  /\ op' = NoOp
  /\ UNCHANGED <<index, claims, dirs, state, launched, registered, selLog>>

\* The archival and reclaim marks rewrite state.json and leave the selection.
MarkState(r) ==
  /\ Free /\ Live(r) /\ wal[r] = "none" /\ state[r].status \in Terminal /\ state[r].ver < MaxWrites
  /\ Writes(r, state[r].status)
  /\ UNCHANGED <<index, claims, dirs, wal, op, launched, registered, selLog>>

\* Slip: the file's identity is not compared.
AcceptsCached(r, sel) == sel # None /\ wal[r] = "none"

\* terminal_selection_state: the cached answer of a loaded selection, refused
\* while a WAL is pending and once state.json is another file.
Accepts(r, sel) == sel # None /\ wal[r] = "none" /\ sel.ver = state[r].ver

-----------------------------------------------------------------------------
(* prune_runs: one image of the index, loaded at the start, saved at the end *)

PruneStarts ==
  /\ Free /\ index.runs # {}
  /\ op' = [NoOp EXCEPT !.kind = "prune", !.image = index, !.todo = index.runs]
  /\ UNCHANGED <<index, claims, dirs, state, wal, launched, registered, selLog>>

\* A pending WAL is folded first, if it says anything new; that saves the index
\* on disk, not the image, and only if it can.
PruneReplays(r) ==
  /\ op.kind = "prune" /\ r \in op.todo /\ op.run = NoRun /\ wal[r] # "none" /\ r \in dirs
  /\ IF Merged(r) = state[r].status THEN UNCHANGED <<index, state, selLog>>
     ELSE /\ Writes(r, Merged(r))
          /\ Saves(WithSelection(index, r, state'[r])) \/ UNCHANGED <<index, selLog>>
  /\ wal' = [wal EXCEPT ![r] = "none"]
  /\ UNCHANGED <<claims, dirs, op, launched, registered>>

\* Slip: an entry goes although its directory could not be removed.
PruneForgets(r) ==
  /\ op.kind = "prune" /\ r \in op.todo /\ op.run = NoRun /\ (r \in dirs => wal[r] = "none")
  /\ op' = [op EXCEPT !.todo = @ \ {r}, !.image.runs = @ \ {r}]
  /\ UNCHANGED <<index, claims, dirs, state, wal, launched, registered, selLog>>

\* Running, too young, still needed, or its artifacts could not be removed.
PruneSkips(r) ==
  /\ op.kind = "prune" /\ r \in op.todo /\ op.run = NoRun /\ (r \in dirs => wal[r] = "none")
  /\ op' = [op EXCEPT !.todo = @ \ {r}]
  /\ UNCHANGED <<index, claims, dirs, state, wal, launched, registered, selLog>>

\* _remove_run_record_artifacts: the directory and everything in it, of a terminal
\* run or of a stale one, which still says that it runs.
PruneRemoves(r) ==
  /\ op.kind = "prune" /\ r \in op.todo /\ op.run = NoRun /\ wal[r] = "none"
  /\ state[r].status \in Terminal \cup {"running"}
  /\ dirs' = dirs \ {r} /\ state' = [state EXCEPT ![r] = None]
  /\ op' = [op EXCEPT !.run = r]
  /\ UNCHANGED <<index, claims, wal, launched, registered, selLog>>

\* Only then the claims of the aliases that name it, and the image's entries.
PruneFrees ==
  /\ op.kind = "prune" /\ op.run # NoRun
  /\ claims' = [a \in Aliases |-> IF op.image.names[a] = op.run THEN "absent" ELSE claims[a]]
  /\ op' = [op EXCEPT !.run = NoRun, !.todo = @ \ {op.run}, !.image = WithoutRun(@, op.run)]
  /\ UNCHANGED <<index, dirs, state, wal, launched, registered, selLog>>

PruneSaves ==
  /\ op.kind = "prune" /\ op.run = NoRun /\ op.todo = {}
  /\ IF op.image.runs = index.runs THEN UNCHANGED <<index, selLog>> ELSE Saves(op.image)
  /\ op' = NoOp
  /\ UNCHANGED <<claims, dirs, state, wal, launched, registered>>

\* The holder is killed; flock lets go.
HolderDies ==
  /\ ~Free /\ op' = NoOp
  /\ UNCHANGED <<index, claims, dirs, state, wal, launched, registered, selLog>>

-----------------------------------------------------------------------------

RegistryNext ==
  \/ \E r \in Runs :
       \/ RegisterClaims(r) \/ WriteWal(r) \/ ReplayWrites(r) \/ MarkState(r)
       \/ \E status \in Terminal : PublishWrites(r, status)
       \/ PruneReplays(r) \/ PruneSkips(r) \/ PruneRemoves(r)
  \/ RegisterBinds \/ RegisterMakesDir \/ RegisterSaves \/ RegisterFails
  \/ PublishSelects \/ PublishSkips \/ ReplayUnlinks
  \/ PruneStarts \/ PruneFrees \/ PruneSaves \/ HolderDies

RegistrySpec == RegistryInit /\ [][RegistryNext]_registryVars

Selection == [status : Terminal \cup {"running"}, ver : 1..(MaxWrites + 1)] \cup {None}
IndexType == [runs : SUBSET Runs, alias : [Runs -> 0..MaxAlias],
              names : [Aliases -> Runs \cup {NoRun}], sel : [Runs -> Selection]]

RegistryTypeOK ==
  /\ index \in IndexType
  /\ claims \in [Aliases -> {"absent", "empty"} \cup Runs] /\ dirs \subseteq Runs
  /\ state \in [Runs -> Selection] /\ wal \in [Runs -> {"none", "succeeded"}]
  /\ op \in [kind : {"none", "register", "publish", "replay", "prune"}, run : Runs \cup {NoRun},
             at : {"start", "claimed", "bound", "made", "selected"}, image : IndexType, todo : SUBSET Runs]
  /\ registered \subseteq launched /\ launched \subseteq Runs
  /\ selLog \in [Runs -> SUBSET Selection]

\* The cached terminal selection answers what the record says: whichever index
\* a reader loaded, a selection it may still use has the status that reading
\* the state file with its WAL would give (terminal_selection_state).
SelectionIsCurrent ==
  \A r \in Runs : \A sel \in selLog[r] : r \in dirs /\ Accepts(r, sel) => sel.status = StatusNow(r)

\* A registered run that still has its directory is reachable by its alias and
\* no other run is reached by it: through registrations that fail, prunes that
\* fail half-way and holders that die (register_run, prune_runs).
RegisteredIsResolvable ==
  \A r \in registered \cap dirs :
     LET a == index.alias[r] IN
     r \in index.runs /\ a \in Aliases /\ index.names[a] = r /\ claims[a] = r
=============================================================================
