--------------------------- MODULE WorktreeLease ---------------------------
(* One persistent worktree, the run that owns it, the runs that use it and  *)
(* its removal (worktree_remove.py, worktree_mgmt.py, worktree_records.py,  *)
(* cli.py, resume_command.py).                                              *)
(*                                                                          *)
(* An attached run (a resume) is registered beside the owner; a nested run  *)
(* (--cwd inside the worktree) in the worktree's own registry, which goes   *)
(* with it.  The only leases are the run records: a removal looks at them   *)
(* and at the processes they name.  `remove`, `prune` and the retirement at *)
(* completion share remove_worktree; `reap` deletes in a way of its own.    *)
(* --kill-live and the removal of nested worktrees are left out.            *)
EXTENDS FiniteSets

CONSTANTS Owner, Attached, Nested, Remover, NoHolder

Users == {Owner} \cup Attached \cup Nested

ASSUME LeaseAssumption ==
  /\ Owner \notin Attached \cup Nested /\ Attached \cap Nested = {}
  /\ Remover \notin Users /\ NoHolder \notin Users \cup {Remover}

VARIABLES
  path,      \* the worktree is on disk, and registered with git
  retired,   \* worktreeStatus is "removed"
  nestReg,   \* the index of the worktree's own registry exists
  rec,       \* [Users -> RecStates]: state.json of the run
  child,     \* [Users -> ChildStates]: its last process group
  named,     \* the users whose record names that group
  at,        \* [Users -> Places]: its launcher
  regLock, nestLock, \* holders of the two registry locks
  removal,   \* [at, by, absent]: the removal, its command and what it found
  hit        \* history: pairs of a user and the command that took its worktree
leaseVars == <<path, retired, nestReg, rec, child, named, at, regLock, nestLock, removal, hit>>

RecStates == {"none", "registered", "running", "terminal", "lost"}
ChildStates == {"none", "leader", "kids", "gone"}
Places == {"idle", "checked", "ensured", "registered", "valid", "spawned", "up", "done", "dead"}
NoRemoval == [at |-> "idle", by |-> "remove", absent |-> FALSE]

LeaseInit ==
  /\ path = TRUE /\ retired = FALSE /\ nestReg = FALSE
  /\ rec = [r \in Users |-> IF r = Owner THEN "running" ELSE "none"]
  /\ child = [r \in Users |-> IF r = Owner THEN "leader" ELSE "none"]
  /\ at = [r \in Users |-> IF r = Owner THEN "up" ELSE "idle"]
  /\ named = {Owner} /\ regLock = NoHolder /\ nestLock = NoHolder
  /\ removal = NoRemoval /\ hit = {}

LockFree(r) == IF r \in Nested THEN nestLock = NoHolder ELSE regLock = NoHolder
Takes(r) == IF r \in Nested THEN nestLock' = r /\ UNCHANGED regLock ELSE regLock' = r /\ UNCHANGED nestLock
Drops(r) ==
  /\ regLock' = IF regLock = r THEN NoHolder ELSE regLock
  /\ nestLock' = IF nestLock = r THEN NoHolder ELSE nestLock

\* status_fields: a record without a state file is unknown, and a running one
\* whose pid is dead is stale.
Effective(r) ==
  IF rec[r] = "registered" THEN "unknown"
  ELSE IF rec[r] # "running" THEN rec[r]
  ELSE IF r \in named /\ child[r] = "leader" THEN "running" ELSE "stale"

GroupAlive(r) == child[r] \in {"leader", "kids"}
GroupSeen(r) == r \in named /\ GroupAlive(r)
LauncherAlive(r) == at[r] \in {"registered", "valid", "spawned", "up"}
\* launcher_lease_held: a non-terminal state names its launcher, which lives.
Leased(r) == rec[r] = "running" /\ LauncherAlive(r)

-----------------------------------------------------------------------------
(* Launches *)

\* resume: the target is looked at before anything is registered.
AttachChecks(a) ==
  /\ at[a] = "idle" /\ path /\ ~retired /\ Effective(Owner) # "running"
  /\ at' = [at EXCEPT ![a] = "checked"]
  /\ UNCHANGED <<path, retired, nestReg, named, rec, child, regLock, nestLock, removal, hit>>

\* register_run, with the attachment in the index entry: the lease begins.
AttachRegisters(a) ==
  /\ at[a] = "checked" /\ LockFree(a)
  /\ rec' = [rec EXCEPT ![a] = "registered"] /\ at' = [at EXCEPT ![a] = "registered"]
  /\ UNCHANGED <<path, retired, nestReg, named, child, regLock, nestLock, removal, hit>>

\* revalidate_attached_target, under the lock; a target that went away fails the run.
AttachRevalidates(a) ==
  /\ at[a] = "registered" /\ LockFree(a)
  /\ IF path /\ ~retired
     THEN at' = [at EXCEPT ![a] = "valid"] /\ UNCHANGED rec
     ELSE at' = [at EXCEPT ![a] = "done"] /\ rec' = [rec EXCEPT ![a] = "terminal"]
  /\ UNCHANGED <<path, retired, nestReg, named, child, regLock, nestLock, removal, hit>>

NestChecks(n) ==
  /\ at[n] = "idle" /\ path
  /\ at' = [at EXCEPT ![n] = "checked"]
  /\ UNCHANGED <<path, retired, nestReg, named, rec, child, regLock, nestLock, removal, hit>>

\* ensure_registry: one hold of the nested lock, whose directory it makes.
NestEnsures(n) ==
  /\ at[n] = "checked" /\ path /\ LockFree(n)
  /\ nestReg' = TRUE /\ at' = [at EXCEPT ![n] = "ensured"]
  /\ UNCHANGED <<path, named, retired, rec, child, regLock, nestLock, removal, hit>>

NestRegisters(n) ==
  /\ at[n] = "ensured" /\ nestReg /\ LockFree(n)
  /\ rec' = [rec EXCEPT ![n] = "registered"] /\ at' = [at EXCEPT ![n] = "valid"]
  /\ UNCHANGED <<path, retired, nestReg, named, child, regLock, nestLock, removal, hit>>

\* The worktree went away first: what the launch makes now is another directory.
NestMisses(n) ==
  /\ at[n] \in {"checked", "ensured"} /\ ~path
  /\ at' = [at EXCEPT ![n] = "done"]
  /\ UNCHANGED <<path, retired, nestReg, named, rec, child, regLock, nestLock, removal, hit>>

\* Admission and Popen, a first attempt or a retry, in one hold with the
\* publication that follows.
Spawns(r) ==
  /\ LockFree(r) /\ path
  /\ at[r] = "valid" \/ (at[r] = "up" /\ child[r] = "gone" /\ rec[r] = "running")
  /\ Takes(r)
  /\ child' = [child EXCEPT ![r] = "leader"] /\ named' = named \ {r}
  /\ at' = [at EXCEPT ![r] = "spawned"]
  /\ UNCHANGED <<path, retired, nestReg, rec, removal, hit>>

Publishes(r) ==
  /\ at[r] = "spawned"
  /\ rec' = [rec EXCEPT ![r] = "running"] /\ named' = named \cup {r}
  /\ at' = [at EXCEPT ![r] = "up"]
  /\ Drops(r)
  /\ UNCHANGED <<path, retired, nestReg, child, removal, hit>>

\* A leader may leave others of its group behind.
ChildEnds(r) ==
  /\ GroupAlive(r)
  /\ \E c \in {"kids", "gone"} : c # child[r] /\ child' = [child EXCEPT ![r] = c]
  /\ UNCHANGED <<path, retired, nestReg, named, rec, at, regLock, nestLock, removal, hit>>

\* Finalization; the WAL makes a record terminal without the lock.
RunFinalizes(r) ==
  /\ at[r] \in {"valid", "up"} /\ child[r] # "leader"
  /\ rec' = [rec EXCEPT ![r] = IF @ = "lost" THEN @ ELSE "terminal"]
  /\ at' = [at EXCEPT ![r] = "done"]
  /\ UNCHANGED <<path, retired, nestReg, named, child, regLock, nestLock, removal, hit>>

UserDies(r) ==
  /\ at[r] \notin {"idle", "done", "dead"}
  /\ at' = [at EXCEPT ![r] = "dead"] /\ Drops(r)
  /\ UNCHANGED <<path, retired, nestReg, named, rec, child, removal, hit>>

-----------------------------------------------------------------------------
(* remove_worktree: one hold of the registry lock *)

OwnerBlocks ==
  \/ Effective(Owner) \in {"running", "unknown"}
  \/ Leased(Owner) \/ GroupSeen(Owner)
NestBlocks == nestReg /\ \E n \in Nested : Effective(n) \in {"running", "unknown"}
\* live_attachments_for_path
AttachmentBlocks == \E a \in Attached : Effective(a) \in {"running", "unknown"} \/ Leased(a)

\* inspect_worktree and evaluate_worktree_safety.
RemoveInspects ==
  /\ removal.at = "idle" /\ regLock = NoHolder /\ ~retired /\ path
  /\ ~OwnerBlocks /\ ~NestBlocks /\ ~AttachmentBlocks
  /\ regLock' = Remover /\ removal' = [removal EXCEPT !.at = "planned"]
  /\ UNCHANGED <<path, retired, nestReg, named, rec, child, at, nestLock, hit>>

\* A removal that died after the path: only the record is left to be marked.
RemoveMarksMissing ==
  /\ removal.at = "idle" /\ regLock = NoHolder /\ ~retired /\ ~path
  /\ ~OwnerBlocks /\ ~AttachmentBlocks
  /\ retired' = TRUE
  /\ UNCHANGED <<path, named, nestReg, rec, child, at, regLock, nestLock, removal, hit>>

\* _collect_nested_worktrees: an existing nested registry is locked, a missing
\* one noted.
RemoveWalks ==
  /\ removal.at = "planned" /\ removal.by = "remove" /\ (nestReg => nestLock = NoHolder)
  /\ nestLock' = IF nestReg THEN Remover ELSE nestLock
  /\ removal' = [removal EXCEPT !.at = "walked", !.absent = ~nestReg]
  /\ UNCHANGED <<path, retired, nestReg, named, rec, child, at, regLock, hit>>

\* Slip: only the owner is looked at again.
RechecksOwner ==
  /\ removal.at = "walked"
  /\ ~(removal.absent /\ nestReg) /\ ~OwnerBlocks
  /\ removal' = [removal EXCEPT !.at = "cleared"]
  /\ UNCHANGED <<path, retired, nestReg, named, rec, child, at, regLock, nestLock, hit>>

\* _refuse_if_registry_appeared, and the blocks once more before the delete.
RemoveRechecks ==
  /\ removal.at = "walked"
  /\ ~(removal.absent /\ nestReg) /\ ~OwnerBlocks /\ ~NestBlocks
  /\ removal' = [removal EXCEPT !.at = "cleared"]
  /\ UNCHANGED <<path, retired, nestReg, named, rec, child, at, regLock, nestLock, hit>>

\* The users whose worktree this is, as the processes are.  A nested run counts
\* if its registry was there to be locked, a child if a record or a live
\* launcher knows it.
Known(r) == r \in named \/ LauncherAlive(r)
InUseBy(r) ==
  IF r \in Nested THEN ~removal.absent /\ child[r] = "leader" /\ Known(r)
  ELSE IF r = Owner THEN (GroupAlive(r) /\ Known(r)) \/ Leased(r)
  ELSE (child[r] = "leader" /\ Known(r)) \/ (rec[r] \in {"registered", "running"} /\ at[r] \in {"valid", "spawned", "up"})

\* git worktree remove: the nested registry and its records go with the path.
RemoveDeletes ==
  /\ removal.at = "cleared"
  /\ path' = FALSE /\ nestReg' = FALSE
  /\ rec' = [r \in Users |-> IF r \in Nested /\ rec[r] # "none" THEN "lost" ELSE rec[r]]
  /\ hit' = {<<r, removal.by>> : r \in {x \in Users : InUseBy(x)}}
  /\ removal' = [removal EXCEPT !.at = "deleted"]
  /\ UNCHANGED <<retired, named, child, at, regLock, nestLock>>

RemoveMarks ==
  /\ removal.at = "deleted"
  /\ retired' = TRUE /\ removal' = NoRemoval /\ Drops(Remover)
  /\ UNCHANGED <<path, named, nestReg, rec, child, at, hit>>

\* reap_worktrees: the safety of the record is judged as for a removal ...
ReapInspects ==
  /\ removal.at = "idle" /\ regLock = NoHolder /\ ~retired /\ path
  /\ ~OwnerBlocks /\ ~NestBlocks /\ ~AttachmentBlocks
  /\ regLock' = Remover /\ removal' = [removal EXCEPT !.at = "planned", !.by = "reap"]
  /\ UNCHANGED <<path, retired, nestReg, named, rec, child, at, nestLock, hit>>

\* ... and then the nested registry is locked and searched for worktrees, not
\* for runs (nested_worktrees_reap_block).
ReapLocks ==
  /\ removal.at = "planned" /\ removal.by = "reap" /\ (nestReg => nestLock = NoHolder)
  /\ nestLock' = IF nestReg THEN Remover ELSE nestLock
  /\ removal' = [removal EXCEPT !.at = "cleared", !.absent = ~nestReg]
  /\ UNCHANGED <<path, retired, nestReg, named, rec, child, at, regLock, hit>>

\* A lock wait ran out, a nested worktree is dirty, a recheck refused, git
\* failed, or the remover was killed.
RemoveEnds ==
  /\ removal.at # "idle"
  /\ removal' = NoRemoval /\ Drops(Remover)
  /\ UNCHANGED <<path, retired, nestReg, named, rec, child, at, hit>>

-----------------------------------------------------------------------------

LeaseNext ==
  \/ \E a \in Attached : AttachChecks(a) \/ AttachRegisters(a) \/ AttachRevalidates(a)
  \/ \E n \in Nested : NestChecks(n) \/ NestEnsures(n) \/ NestRegisters(n) \/ NestMisses(n)
  \/ \E r \in Users : Spawns(r) \/ Publishes(r) \/ ChildEnds(r) \/ RunFinalizes(r) \/ UserDies(r)
  \/ RemoveInspects \/ RemoveMarksMissing \/ RemoveWalks \/ RemoveRechecks
  \/ ReapInspects \/ ReapLocks \/ RemoveDeletes \/ RemoveMarks \/ RemoveEnds

LeaseSpec == LeaseInit /\ [][LeaseNext]_leaseVars

LeaseTypeOK ==
  /\ {path, retired, nestReg} \subseteq BOOLEAN
  /\ rec \in [Users -> RecStates] /\ child \in [Users -> ChildStates] /\ at \in [Users -> Places]
  /\ named \subseteq Users /\ {regLock, nestLock} \subseteq Users \cup {Remover, NoHolder}
  /\ removal \in [at : {"idle", "planned", "walked", "cleared", "deleted"},
                  by : {"remove", "reap"}, absent : BOOLEAN]
  /\ hit \subseteq Users \X {"remove", "reap"}

\* A worktree in use is not removed, although nothing but the run records says
\* who uses it: not under a process of its owner or a launcher that may retry,
\* nor under an attached run that has revalidated it; and by remove_worktree not
\* under the child of a nested run whose registry the walk could lock
\* (live_attachments_for_path, revalidate_attached_target), whoever is killed.
RemovalSparesUsers ==
  \A r \in Users : <<r, "remove">> \notin hit /\ (r \notin Nested => <<r, "reap">> \notin hit)

\* The documentation's promise for `reap` too: without --kill-live it does not
\* take the worktree from under a nested run.
ReapSparesNested == \A n \in Nested : <<n, "reap">> \notin hit
=============================================================================
