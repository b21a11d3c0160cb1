--------------------------- MODULE WorkflowCalls ---------------------------
(***************************************************************************)
(* agent() across the lives of a workflow's supervisor: the key of a step, *)
(* the journal that remembers what it came to, the budget, the child run   *)
(* it launches, and what a resume does with a child its predecessor left.  *)
(* Each step is one call site, called by a thread of its own; a child is a *)
(* process that outlives the supervisor and reports through its run record.*)
(*                                                                         *)
(* A run record appears here by its effective status only (RunLifecycle    *)
(* has its transitions): "starting" has not registered yet, "registered"   *)
(* has published no pid, "unlaunched" never will, "lost" has a pid that    *)
(* died, "failed" ended without an answer the call's schema accepts.       *)
(***************************************************************************)
EXTENDS Naturals, Integers, Sequences, FiniteSets

CONSTANTS
  Steps,        \* the agent() calls of the script
  Keyed,        \* those that pass key=...
  Total,        \* the budget
  Lives,        \* bound: supervisors launched
  Tries,        \* bound: children one call launches
  Rejections,   \* bound: rejections of one step
  LateChildren  \* may a supervisor be lost while a child has yet to register

ASSUME CallsAssumption ==
  /\ IsFiniteSet(Steps) /\ Keyed \subseteq Steps
  /\ Total \in Nat /\ Lives \in Nat \ {0} /\ Tries \in Nat \ {0}
  /\ Rejections \in Nat /\ LateChildren \in BOOLEAN

VARIABLES
  sup,      \* the supervisor: "up", "exited" by itself or "lost"
  life,     \* supervisors launched; replayAttempt is life - 1
  cancel,   \* cancel_event
  disk,     \* status.json: budget.spent
  spent,    \* Budget._spent
  journal,  \* step -> the journal rows of its keys
  claimed,  \* step -> claimed_keys
  mem,      \* step -> the rest of the supervisor's replay state
  pc,       \* step -> where its call is
  call,     \* step -> the call: its key, what the lookup found, children tried
  runs      \* step -> the child runs, in launch order

vars == <<sup, life, cancel, disk, spent, journal, claimed, mem, pc, call, runs>>

Biggest(a, b) == IF a >= b THEN a ELSE b

(* The keys of one step: its retry identities, 0 the original.  A keyed    *)
(* step counts rejections, a positional one the lives.                     *)
Ids == 0 .. Biggest(Rejections, Lives)

Results == {"missing", "none", "answer"}
Phases == {"starting", "registered", "running", "succeeded", "failed",
           "cancelled", "lost", "unlaunched", "gone"}
Alive == {"starting", "registered", "running"}
Unrecorded == {"starting", "gone"}

-----------------------------------------------------------------------------
(* The journal and its two readers.                                        *)

Row(type, n, result) == [type |-> type, n |-> n, result |-> result]

Blank == [replay |-> [n \in Ids |-> "missing"], started |-> {}, exhausted |-> {},
          tomb |-> {}, restarted |-> {}, scoped |-> {}, mine |-> {}]

(* What _load_replay makes of one row.                                     *)
ReadRow(m, row) ==
  LET n == row.n
      settled == [m EXCEPT !.tomb = @ \ {n}, !.restarted = @ \ {n},
                           !.replay[n] = row.result, !.started = @ \ {n}]
      refused == [m EXCEPT !.tomb = @ \cup {n}, !.restarted = @ \ {n}]
  IN CASE row.type = "started" ->
            [m EXCEPT !.started = @ \cup {n}, !.scoped = @ \cup {n},
                      !.restarted = IF n \in m.tomb THEN @ \cup {n} ELSE @]
       [] row.type = "finished" -> [settled EXCEPT !.exhausted = @ \ {n}]
       [] row.type = "exhausted" -> [settled EXCEPT !.exhausted = @ \cup {n}]
       [] row.type = "rejected" ->
            IF m.replay[n] = "missing" THEN refused
            ELSE [refused EXCEPT !.replay[n] = "missing", !.started = @ \ {n},
                                 !.exhausted = @ \ {n}]
       [] OTHER -> m

(* _load_replay: the memory of a fresh supervisor.                         *)
Load(rows) ==
  LET read[i \in 0 .. Len(rows)] ==
        IF i = 0 THEN Blank ELSE ReadRow(read[i - 1], rows[i])
  IN read[Len(rows)]

(* The keys charged to the budget, which a resume does not charge again.   *)
Charged(rows) == {rows[i].n : i \in {j \in DOMAIN rows : rows[j].type = "budget"}}
ChargedKeys == {k \in Steps \X Ids : k[2] \in Charged(journal[k[1]])}

\* Slip: a finished row leaves its key among those under way.
LiveKeepsStarted(m, row) ==
  LET read == ReadRow(m, row)
  IN IF row.type = "started"
     THEN [read EXCEPT !.mine = @ \cup {row.n}]
     ELSE [read EXCEPT !.started = m.started \cup @]

(* What append_event does to the memory of the supervisor that appends it. *)
Live(m, row) ==
  LET n == row.n
  IN CASE row.type = "started" ->
            [m EXCEPT !.started = @ \cup {n}, !.scoped = @ \cup {n},
                      !.mine = @ \cup {n},
                      !.restarted = IF n \in m.tomb THEN @ \cup {n} ELSE @]
       [] row.type \in {"finished", "exhausted"} ->
            [m EXCEPT !.replay[n] = row.result, !.started = @ \ {n},
                      !.tomb = @ \ {n}, !.restarted = @ \ {n},
                      !.exhausted = IF row.type = "exhausted"
                                    THEN @ \cup {n} ELSE @ \ {n}]
       [] row.type = "rejected" ->
            IF m.replay[n] # "missing"
            THEN [m EXCEPT !.tomb = @ \cup {n}, !.restarted = @ \ {n},
                           !.replay[n] = "missing", !.started = @ \ {n},
                           !.exhausted = @ \ {n}]
            ELSE [m EXCEPT !.tomb = @ \cup {n}, !.restarted = @ \ {n}]
       [] OTHER -> m

(* A budget row reaches status.json in a step of its own (SaveStatus), all *)
(* under journal_lock, which nobody else has meanwhile.                    *)
LockFree == \A t \in Steps : pc[t] # "saving"

Journals(s, row) ==
  /\ LockFree
  /\ journal' = [journal EXCEPT ![s] = Append(@, row)]
  /\ mem' = [mem EXCEPT ![s] = Live(@, row)]
  /\ disk' = spent

-----------------------------------------------------------------------------
(* Child runs.                                                             *)

(* Cancelling one child: a process is stopped, a dead one sealed.  A child *)
(* without a pid is refused, unless its launcher is gone and it has been   *)
(* quiet for the grace time.                                               *)
AfterCancel(phase, quiet) ==
  IF phase \in {"running", "lost"} \/ (phase = "unlaunched" /\ quiet)
  THEN "cancelled" ELSE phase

CancelRuns(rs, K, quiet) ==
  [i \in DOMAIN rs |->
     IF rs[i].n \in K THEN [rs[i] EXCEPT !.phase = AfterCancel(@, quiet)] ELSE rs[i]]

CancelFails(rs, K, quiet) ==
  \E i \in DOMAIN rs : /\ rs[i].n \in K
                       /\ AfterCancel(rs[i].phase, quiet)
                            \in {"registered", "running", "lost", "unlaunched"}

(* The key's latest run by registration, 0 when it has none.               *)
Latest(s, n) ==
  LET mine == {i \in DOMAIN runs[s] : /\ runs[s][i].n = n
                                      /\ runs[s][i].phase \notin Unrecorded}
  IN IF mine = {} THEN 0
     ELSE CHOOSE i \in mine : \A j \in mine : runs[s][j].ord <= runs[s][i].ord

\* Slip: the wait is given up and the launcher lives on.
AfterNoKill(phase) == {phase}

(* Killing the launcher of a child: what its record comes to.              *)
AfterKill(phase) ==
  CASE phase = "starting" -> {"gone"}
    [] phase = "registered" -> {"unlaunched"}
    [] phase = "running" -> {"failed", "lost"}
    [] OTHER -> {phase}

Child(s) == Len(runs[s])
Phase(s) == runs[s][Child(s)].phase

-----------------------------------------------------------------------------
(* The call, up to the decision to launch.                                 *)

\* Slip: keyed steps, too, take the life's retry identity.
TakesByLife(s, n) == n = IF 0 \in mem[s].tomb THEN Biggest(life - 1, 1) ELSE 0

(* agent(): a keyed step takes the first identity that is not rejected, a  *)
(* positional one whose key is rejected takes the life's retry identity.   *)
Free(m) == {n \in Ids : n \notin m.tomb \/ n \in m.restarted}
Takes(s, n) ==
  IF s \in Keyed
  THEN n \in Free(mem[s]) /\ \A k \in Free(mem[s]) : n <= k
  ELSE n = IF 0 \in mem[s].tomb THEN Biggest(life - 1, 1) ELSE 0

\* Slip: a step that started and has no result counts as new.
FoundNoChild(m, n) ==
  IF m.replay[n] # "missing" /\ n \notin m.tomb
  THEN IF n \in m.exhausted THEN "exhausted" ELSE "cached"
  ELSE "fresh"

(* What the lookup under journal_lock finds.                               *)
Found(m, n) ==
  IF m.replay[n] # "missing" /\ n \notin m.tomb
  THEN IF n \in m.exhausted THEN "exhausted" ELSE "cached"
  ELSE IF n \in m.started /\ (n \notin m.tomb \/ n \in m.restarted)
       THEN "unfinished" ELSE "fresh"

(* The lookup, then the sweep of unfinished children an earlier life left  *)
(* at this position under another key.                                     *)
Call(s) ==
  /\ sup = "up" /\ pc[s] = "idle" /\ LockFree
  /\ \E n \in Ids, quiet \in BOOLEAN :
       LET m == mem[s]
           stale == (m.scoped \cap m.started) \ (m.mine \cup {n})
       IN /\ Takes(s, n)
          /\ call' = [call EXCEPT ![s] = [n |-> n, found |-> Found(m, n), tries |-> 0]]
          /\ runs' = [runs EXCEPT ![s] = CancelRuns(@, stale, quiet)]
          /\ IF CancelFails(runs[s], stale, quiet)
             THEN pc' = [pc EXCEPT ![s] = "raised"] /\ UNCHANGED mem
             ELSE /\ pc' = [pc EXCEPT ![s] =
                              CASE Found(m, n) = "cached" -> "hit"
                                [] Found(m, n) = "fresh" -> "claim"
                                [] OTHER -> "adopt"]
                  /\ mem' = [mem EXCEPT ![s].started = @ \ stale]
  /\ UNCHANGED <<sup, life, cancel, disk, spent, journal, claimed>>

CacheHit(s) ==
  /\ sup = "up" /\ pc[s] = "hit" /\ LockFree
  /\ disk' = spent
  /\ pc' = [pc EXCEPT ![s] = "done"]
  /\ UNCHANGED <<sup, life, cancel, spent, journal, claimed, mem, call, runs>>

(* Nothing to adopt: an exhausted step replays its None, another launches. *)
NothingToAdopt(s) == IF call[s].found = "exhausted" THEN "hit" ELSE "claim"

(* The exhausted mark is dropped before the attempt to adopt.              *)
Unexhausted(s) == IF call[s].found = "exhausted"
                  THEN [mem[s] EXCEPT !.exhausted = @ \ {call[s].n}] ELSE mem[s]

AdoptAnswer(s, result) ==
  LET row == Row("finished", call[s].n, result)
  IN /\ LockFree
     /\ journal' = [journal EXCEPT ![s] = Append(@, row)]
     /\ mem' = [mem EXCEPT ![s] = Live(Unexhausted(s), row)]
     /\ disk' = spent
     /\ pc' = [pc EXCEPT ![s] = "done"]

(* _adopt_existing_agent_run, up to its wait: a run that is cancelled,     *)
(* stale or will never launch is sealed and skipped; one that may still    *)
(* answer is waited for; an answer is taken over.                          *)
Adopt(s) ==
  /\ sup = "up" /\ pc[s] = "adopt"
  /\ \E quiet \in BOOLEAN :
       LET n == call[s].n
           i == Latest(s, n)
           phase == IF i = 0 THEN "gone" ELSE runs[s][i].phase
           dead == \/ phase \in {"cancelled", "lost"}
                   \/ phase = "unlaunched" /\ quiet /\ n \notin mem[s].mine
       IN \/ /\ dead \/ phase \in {"failed", "gone"}
             /\ runs' = [runs EXCEPT ![s] = IF dead
                                            THEN CancelRuns(@, {n}, quiet) ELSE @]
             /\ mem' = [mem EXCEPT ![s] = Unexhausted(s)]
             /\ pc' = [pc EXCEPT ![s] = NothingToAdopt(s)]
             /\ UNCHANGED <<journal, disk>>
          \/ /\ ~dead /\ phase \in {"registered", "running", "unlaunched"}
             /\ mem' = [mem EXCEPT ![s] = Unexhausted(s)]
             /\ pc' = [pc EXCEPT ![s] = "waiting"]
             /\ UNCHANGED <<journal, disk, runs>>
          \/ /\ phase = "succeeded"
             /\ AdoptAnswer(s, "answer")
             /\ UNCHANGED runs
  /\ UNCHANGED <<sup, life, cancel, spent, claimed, call>>

WaitEnds(s) ==
  /\ sup = "up" /\ pc[s] = "waiting"
  /\ LET i == Latest(s, call[s].n)
     IN /\ runs[s][i].phase \notin {"registered", "running", "unlaunched"}
        /\ IF runs[s][i].phase = "succeeded"
           THEN AdoptAnswer(s, "answer")
           ELSE /\ pc' = [pc EXCEPT ![s] = NothingToAdopt(s)]
                /\ UNCHANGED <<journal, mem, disk>>
  /\ UNCHANGED <<sup, life, cancel, spent, claimed, call, runs>>

(* A wait that times out cancels the run; the timeout settles an           *)
(* unfinished step with None.                                              *)
WaitTimesOut(s) ==
  /\ sup = "up" /\ pc[s] = "waiting"
  /\ runs[s][Latest(s, call[s].n)].phase \in {"registered", "running", "unlaunched"}
  /\ \E quiet \in BOOLEAN :
       LET n == call[s].n
       IN /\ runs' = [runs EXCEPT ![s] = CancelRuns(@, {n}, quiet)]
          /\ IF CancelFails(runs[s], {n}, quiet)
             THEN pc' = [pc EXCEPT ![s] = "raised"] /\ UNCHANGED <<journal, mem, disk>>
             ELSE IF call[s].found = "exhausted"
             THEN pc' = [pc EXCEPT ![s] = "hit"] /\ UNCHANGED <<journal, mem, disk>>
             ELSE AdoptAnswer(s, "none")
  /\ UNCHANGED <<sup, life, cancel, spent, claimed, call>>

-----------------------------------------------------------------------------
(* The budget, and the children.                                           *)

\* Slip: one claim too many.
ClaimPastTotal(s) ==
  /\ sup = "up" /\ pc[s] = "claim"
  /\ IF call[s].n \in claimed[s]
     THEN pc' = [pc EXCEPT ![s] = "charge"] /\ UNCHANGED <<spent, claimed>>
     ELSE IF spent > Total
     THEN pc' = [pc EXCEPT ![s] = "raised"] /\ UNCHANGED <<spent, claimed>>
     ELSE /\ spent' = spent + 1
          /\ claimed' = [claimed EXCEPT ![s] = @ \cup {call[s].n}]
          /\ pc' = [pc EXCEPT ![s] = "charge"]
  /\ UNCHANGED <<sup, life, cancel, disk, journal, mem, call, runs>>

Claim(s) ==
  /\ sup = "up" /\ pc[s] = "claim"
  /\ IF call[s].n \in claimed[s]
     THEN pc' = [pc EXCEPT ![s] = "charge"] /\ UNCHANGED <<spent, claimed>>
     ELSE IF spent >= Total
     THEN pc' = [pc EXCEPT ![s] = "raised"] /\ UNCHANGED <<spent, claimed>>
     ELSE /\ spent' = spent + 1
          /\ claimed' = [claimed EXCEPT ![s] = @ \cup {call[s].n}]
          /\ pc' = [pc EXCEPT ![s] = "charge"]
  /\ UNCHANGED <<sup, life, cancel, disk, journal, mem, call, runs>>

Charge(s) ==
  /\ sup = "up" /\ pc[s] = "charge" /\ LockFree
  /\ journal' = [journal EXCEPT ![s] = Append(@, Row("budget", call[s].n, "missing"))]
  /\ pc' = [pc EXCEPT ![s] = "saving"]
  /\ UNCHANGED <<sup, life, cancel, disk, spent, claimed, mem, call, runs>>

SaveStatus(s) ==
  /\ sup = "up" /\ pc[s] = "saving"
  /\ disk' = spent
  /\ pc' = [pc EXCEPT ![s] = "admit"]
  /\ UNCHANGED <<sup, life, cancel, spent, journal, claimed, mem, call, runs>>

Start(s) ==
  /\ sup = "up" /\ pc[s] = "admit"
  /\ IF cancel
     THEN pc' = [pc EXCEPT ![s] = "unwound"] /\ UNCHANGED <<journal, mem, disk>>
     ELSE /\ Journals(s, Row("started", call[s].n, "missing"))
          /\ pc' = [pc EXCEPT ![s] = "launch"]
  /\ UNCHANGED <<sup, life, cancel, spent, claimed, call, runs>>

Launch(s) ==
  /\ sup = "up" /\ pc[s] = "launch"
  /\ runs' = [runs EXCEPT ![s] = Append(@, [n |-> call[s].n, life |-> life,
                                            phase |-> "starting", ord |-> 0])]
  /\ call' = [call EXCEPT ![s].tries = @ + 1]
  /\ pc' = [pc EXCEPT ![s] = "child"]
  /\ UNCHANGED <<sup, life, cancel, disk, spent, journal, claimed, mem>>

Finish(s, type, result) ==
  /\ Journals(s, Row(type, call[s].n, result))
  /\ pc' = [pc EXCEPT ![s] = "done"]

(* A failed attempt is tried again or was the last one.                    *)
FailedAttempt(s) ==
  \/ /\ call[s].tries < Tries
     /\ pc' = [pc EXCEPT ![s] = "backoff"]
     /\ UNCHANGED <<journal, mem, disk>>
  \/ Finish(s, "exhausted", "none")

ChildReturns(s) ==
  /\ sup = "up" /\ pc[s] = "child" /\ Phase(s) \notin Alive
  /\ IF Phase(s) = "succeeded" THEN Finish(s, "finished", "answer") ELSE FailedAttempt(s)
  /\ UNCHANGED <<sup, life, cancel, spent, claimed, call, runs>>

(* The launcher is killed and the key's runs cancelled, though its record  *)
(* may have become terminal just before.  When the cancel is refused the   *)
(* error ends the call's attempts.                                         *)
ChildTimesOut(s) ==
  /\ sup = "up" /\ pc[s] = "child"
  /\ Phase(s) \in Alive \cup {"succeeded", "failed"}
  /\ \E phase \in AfterKill(Phase(s)), quiet \in BOOLEAN :
       LET n == call[s].n
           killed == [runs[s] EXCEPT ![Child(s)].phase = phase]
       IN /\ runs' = [runs EXCEPT ![s] = CancelRuns(killed, {n}, quiet)]
          /\ IF CancelFails(killed, {n}, quiet)
             THEN Finish(s, "exhausted", "none") ELSE FailedAttempt(s)
  /\ UNCHANGED <<sup, life, cancel, spent, claimed, call>>

\* Slip: the call unwinds and its launcher is left alone.
ChildAbandoned(s) ==
  /\ sup = "up" /\ pc[s] = "child" /\ cancel
  /\ pc' = [pc EXCEPT ![s] = "unwound"]
  /\ UNCHANGED <<sup, life, cancel, disk, spent, journal, claimed, mem, call, runs>>

\* Slip: the wait looks at cancel_event only once the child has ended.
ChildOutlastsCancel(s) ==
  /\ sup = "up" /\ pc[s] = "child" /\ cancel /\ Phase(s) \notin Alive
  /\ pc' = [pc EXCEPT ![s] = "unwound"]
  /\ UNCHANGED <<sup, life, cancel, disk, spent, journal, claimed, mem, call, runs>>

(* The wait for a child that sees cancel_event kills the launcher.         *)
ChildCancelled(s) ==
  /\ sup = "up" /\ pc[s] = "child" /\ cancel
  /\ \E phase \in AfterKill(Phase(s)) :
       runs' = [runs EXCEPT ![s][Child(s)].phase = phase]
  /\ pc' = [pc EXCEPT ![s] = "unwound"]
  /\ UNCHANGED <<sup, life, cancel, disk, spent, journal, claimed, mem, call>>

Backoff(s) ==
  /\ sup = "up" /\ pc[s] = "backoff"
  /\ pc' = [pc EXCEPT ![s] = IF cancel THEN "unwound" ELSE "launch"]
  /\ UNCHANGED <<sup, life, cancel, disk, spent, journal, claimed, mem, call, runs>>

(* A child process on its own: it registers, publishes its pid, ends, or   *)
(* dies without a word.                                                    *)
NextPhases(phase) ==
  CASE phase = "starting" -> {"registered", "gone"}
    [] phase = "registered" -> {"running", "failed", "unlaunched"}
    [] phase = "running" -> {"succeeded", "failed", "lost"}
    [] OTHER -> {}

ChildSteps(s) ==
  \E i \in DOMAIN runs[s] : \E phase \in NextPhases(runs[s][i].phase) :
    LET registered == {j \in DOMAIN runs[s] : runs[s][j].ord # 0}
    IN /\ runs' = [runs EXCEPT ![s][i].phase = phase,
                               ![s][i].ord = IF phase = "registered"
                                             THEN Cardinality(registered) + 1 ELSE @]
       /\ UNCHANGED <<sup, life, cancel, disk, spent, journal, claimed, mem, pc, call>>

-----------------------------------------------------------------------------
(* Rejections and the supervisor.                                          *)

Refusals(s) == Cardinality({i \in DOMAIN journal[s] : journal[s][i].type = "rejected"})

(* reject() from the script.  A keyed step whose call returned is called   *)
(* again.                                                                  *)
ScriptRejects(s) ==
  /\ sup = "up" /\ pc[s] \notin {"idle", "saving"} /\ Refusals(s) < Rejections
  /\ Journals(s, Row("rejected", call[s].n, "missing"))
  /\ pc' = [pc EXCEPT ![s] = IF @ = "done" /\ s \in Keyed THEN "idle" ELSE @]
  /\ UNCHANGED <<sup, life, cancel, spent, claimed, call, runs>>

(* workflow reject: only while no supervisor is alive, and the label names *)
(* the key that started or finished last.                                  *)
OperatorRejects(s) ==
  /\ sup # "up" /\ Refusals(s) < Rejections
  /\ LET named == {i \in DOMAIN journal[s] :
                     journal[s][i].type \in {"started", "finished"}}
     IN \E i \in named :
          /\ \A j \in named : j <= i
          /\ journal' = [journal EXCEPT ![s] =
                           Append(@, Row("rejected", journal[s][i].n, "missing"))]
  /\ UNCHANGED <<sup, life, cancel, disk, spent, claimed, mem, pc, call, runs>>

NoCall == [n |-> 0, found |-> "none", tries |-> 0]

(* A supervisor's process ends, and its memory with it.                    *)
Gone(how) ==
  /\ sup' = how /\ cancel' = FALSE /\ spent' = 0
  /\ claimed' = [s \in Steps |-> {}]
  /\ mem' = [s \in Steps |-> Blank]
  /\ pc' = [s \in Steps |-> "idle"]
  /\ call' = [s \in Steps |-> NoCall]
  /\ UNCHANGED <<life, journal>>

(* The script is over when no call is under way; a cancelled one cancels   *)
(* the children that are left.                                             *)
ScriptEnds ==
  /\ sup = "up" /\ \A s \in Steps : pc[s] \in {"idle", "done", "raised", "unwound"}
  /\ Gone("exited") /\ disk' = spent
  /\ \E quiet \in BOOLEAN :
       runs' = IF \E s \in Steps : pc[s] = "unwound"
               THEN [s \in Steps |-> CancelRuns(runs[s], Ids, quiet)] ELSE runs

Signal ==
  /\ sup = "up" /\ ~cancel
  /\ cancel' = TRUE
  /\ UNCHANGED <<sup, life, disk, spent, journal, claimed, mem, pc, call, runs>>

Crash ==
  /\ sup = "up"
  /\ LateChildren \/ \A s \in Steps : \A i \in DOMAIN runs[s] : runs[s][i].phase # "starting"
  /\ Gone("lost")
  /\ UNCHANGED <<disk, runs>>

\* Slip: the spent budget is what status.json says.
BootsByStatus ==
  /\ sup' = "up" /\ life' = life + 1 /\ cancel' = FALSE
  /\ claimed' = [s \in Steps |-> Charged(journal[s])]
  /\ mem' = [s \in Steps |-> Load(journal[s])]
  /\ spent' = disk /\ UNCHANGED disk
  /\ pc' = [s \in Steps |-> "idle"]
  /\ call' = [s \in Steps |-> NoCall]
  /\ UNCHANGED journal

(* A supervisor boots: it folds the journal and raises the spent budget    *)
(* status.json recorded to the number of keys charged.                     *)
Boots ==
  /\ sup' = "up" /\ life' = life + 1 /\ cancel' = FALSE
  /\ claimed' = [s \in Steps |-> Charged(journal[s])]
  /\ mem' = [s \in Steps |-> Load(journal[s])]
  /\ spent' = Biggest(disk, Cardinality(ChargedKeys))
  /\ disk' = spent'
  /\ pc' = [s \in Steps |-> "idle"]
  /\ call' = [s \in Steps |-> NoCall]
  /\ UNCHANGED journal

(* workflow run --resume: every child still under way is cancelled first;  *)
(* one that cannot be sealed refuses the resume, and a launch may fail.    *)
Resume ==
  /\ sup # "up" /\ life < Lives
  /\ \E quiet \in BOOLEAN :
       /\ runs' = [s \in Steps |-> CancelRuns(runs[s], Ids, quiet)]
       /\ \/ (\A s \in Steps : ~CancelFails(runs[s], Ids, quiet)) /\ Boots
          \/ UNCHANGED <<sup, life, cancel, disk, spent, journal, claimed, mem, pc, call>>

Init ==
  /\ sup = "up" /\ life = 1 /\ cancel = FALSE /\ disk = 0 /\ spent = 0
  /\ journal = [s \in Steps |-> <<>>]
  /\ claimed = [s \in Steps |-> {}]
  /\ mem = [s \in Steps |-> Blank]
  /\ pc = [s \in Steps |-> "idle"]
  /\ call = [s \in Steps |-> NoCall]
  /\ runs = [s \in Steps |-> <<>>]

(* What a supervisor thread does without waiting for anyone but the journal *)
(* lock, a child that has ended, cancel_event or a bounded wait.           *)
CallStep(s) ==
  \/ Call(s) \/ CacheHit(s) \/ Adopt(s) \/ WaitEnds(s) \/ WaitTimesOut(s)
  \/ Claim(s) \/ Charge(s) \/ SaveStatus(s) \/ Start(s) \/ Launch(s)
  \/ ChildReturns(s) \/ ChildCancelled(s) \/ Backoff(s)

Next ==
  \/ \E s \in Steps : CallStep(s) \/ ChildTimesOut(s)
  \/ \E s \in Steps : ChildSteps(s) \/ ScriptRejects(s) \/ OperatorRejects(s)
  \/ ScriptEnds \/ Signal \/ Crash \/ Resume

Spec == Init /\ [][Next]_vars

(* Threads are scheduled, and the script comes to its end.                 *)
FairSpec == Spec /\ WF_vars(ScriptEnds) /\ \A s \in Steps : WF_vars(CallStep(s))

-----------------------------------------------------------------------------
(* Properties.                                                             *)

CallPcs == {"idle", "hit", "adopt", "waiting", "claim", "charge", "saving", "admit",
            "launch", "child", "backoff", "done", "raised", "unwound"}
Rows == [type : {"budget", "started", "finished", "exhausted", "rejected"},
         n : Ids, result : Results]
ChildRuns == [n : Ids, life : 1 .. Lives, phase : Phases, ord : Nat]
Memory == [replay : [Ids -> Results], started : SUBSET Ids, exhausted : SUBSET Ids,
           tomb : SUBSET Ids, restarted : SUBSET Ids, scoped : SUBSET Ids,
           mine : SUBSET Ids]

(* Every variable has its type; the replay memory, which a fold of the     *)
(* journal makes, apart.                                                   *)
BookTypeOK ==
  /\ sup \in {"up", "exited", "lost"} /\ life \in 1 .. Lives /\ cancel \in BOOLEAN
  /\ disk \in 0 .. Total /\ spent \in 0 .. Total
  /\ journal \in [Steps -> Seq(Rows)] /\ claimed \in [Steps -> SUBSET Ids]
  /\ pc \in [Steps -> CallPcs] /\ runs \in [Steps -> Seq(ChildRuns)]
  /\ call \in [Steps -> [n : Ids, tries : Nat,
                         found : {"none", "cached", "exhausted", "unfinished", "fresh"}]]
TypeOK == BookTypeOK /\ mem \in [Steps -> Memory]

(* Two agents never work on one step at once: not the retry and the try it *)
(* replaces, not the relaunch and what a dead supervisor left behind.      *)
OneChild ==
  \A s \in Steps :
    \A i, j \in DOMAIN runs[s] :
      runs[s][i].phase \in Alive /\ runs[s][j].phase \in Alive => i = j

(* Why, when no child registers behind a dead supervisor's back: a child   *)
(* at work is the last one launched, its call is waiting for it or its     *)
(* supervisor was lost, and it is one the resume can cancel.               *)
ChildInv ==
  \A s \in Steps : \A i \in DOMAIN runs[s] :
    runs[s][i].phase \in Alive =>
      /\ i = Child(s) /\ sup # "exited"
      /\ sup = "up" => pc[s] = "child"
      /\ sup = "lost" => runs[s][i].phase # "starting"

(* The keys that were ever given a child are within the budget, whatever   *)
(* crashes lost of status.json: each was charged first, and durably.       *)
LaunchedKeys ==
  {k \in Steps \X Ids : \E i \in DOMAIN runs[k[1]] : runs[k[1]][i].n = k[2]}
NeverOverspent ==
  /\ LaunchedKeys \subseteq ChargedKeys
  /\ Cardinality(ChargedKeys) <= Total

(* Why: a claim is counted before its row is written, the row before the   *)
(* child is launched, and a successor counts the rows.                     *)
ClaimedKeys == {k \in Steps \X Ids : k[2] \in claimed[k[1]]}
BudgetInv ==
  /\ BookTypeOK
  /\ sup = "up" => /\ \A s \in Steps : Charged(journal[s]) \subseteq claimed[s]
                   /\ Cardinality(ClaimedKeys) <= spent
  /\ Cardinality(ChargedKeys) <= Total
  /\ \A s \in Steps :
       /\ pc[s] = "charge" => call[s].n \in claimed[s]
       /\ pc[s] \in {"saving", "admit", "launch", "child", "backoff"}
            => call[s].n \in Charged(journal[s])
       /\ \A i \in DOMAIN runs[s] : runs[s][i].n \in Charged(journal[s])

(* What the supervisor remembers is what its successor will read: every    *)
(* update append_event makes in memory is the one _load_replay makes of    *)
(* the row, except the marks an adoption or a sweep has dropped.           *)
Agrees(m, read) ==
  /\ m.replay = read.replay /\ m.tomb = read.tomb
  /\ m.restarted = read.restarted /\ m.scoped = read.scoped
  /\ m.started \subseteq read.started /\ m.exhausted \subseteq read.exhausted
ReplayAgrees ==
  sup = "up" =>
    \A s \in Steps : /\ Agrees(mem[s], Load(journal[s]))
                     /\ Charged(journal[s]) \subseteq claimed[s]

(* A step that has an answer gets another only after a rejection of it.    *)
SettlesOnce(rows) ==
  \A i, j \in DOMAIN rows :
    i < j /\ rows[i].type = "finished" /\ rows[j].type \in {"finished", "exhausted"}
    => \E k \in i + 1 .. j - 1 : rows[k].type = "rejected" /\ rows[k].n = rows[i].n
KeyedSettleOnce == \A s \in Keyed : SettlesOnce(journal[s])
AllSettleOnce == \A s \in Steps : SettlesOnce(journal[s])

(* Why, for a keyed step: the identities before the one that has an answer *)
(* stay rejected, so that a call takes that one, and finds the answer; a   *)
(* call past the lookup has none, and the identities before its own stay   *)
(* rejected while it works.                                                *)
Answers(rows) ==
  {i \in DOMAIN rows :
     /\ rows[i].type = "finished"
     /\ \A k \in DOMAIN rows :
          k > i => ~(rows[k].type = "rejected" /\ rows[k].n = rows[i].n)}
Passed(read, n) == \A k \in Ids : k < n => k \in read.tomb \ read.restarted
Answered(read, n) ==
  read.replay[n] # "missing" /\ n \notin read.tomb \cup read.exhausted /\ Passed(read, n)
Working == {"adopt", "waiting", "claim", "charge", "saving", "admit", "launch",
            "child", "backoff"}
Settled(rows) ==
  SettlesOnce(rows) /\ \A i \in Answers(rows) : Answered(Load(rows), rows[i].n)
SettleInv ==
  \A s \in Keyed :
    /\ Settled(journal[s])
    /\ pc[s] \in Working
         => Answers(journal[s]) = {} /\ Passed(Load(journal[s]), call[s].n)

(* A key whose latest child of an earlier life succeeded is not launched   *)
(* again: the answer is adopted.                                           *)
AdoptsFinished ==
  [][\A s \in Steps :
       LET n == call[s].n
           i == Latest(s, n)
       IN Launch(s) /\ i # 0 /\ runs[s][i].life < life
            => runs[s][i].phase # "succeeded"]_vars

(* Why, when no child registers behind a dead supervisor's back.  Runs are *)
(* numbered as they register, and none of an earlier life is at work.      *)
Recorded(r) == r.phase \notin Unrecorded
Numbered(rs) ==
  LET registered == {i \in DOMAIN rs : rs[i].ord # 0}
  IN \A i \in DOMAIN rs :
       /\ rs[i].phase = "starting" => rs[i].ord = 0
       /\ Recorded(rs[i]) =>
            /\ rs[i].ord \in 1 .. Cardinality(registered)
            /\ \A j \in DOMAIN rs : Recorded(rs[j]) /\ rs[j].ord = rs[i].ord => i = j
AgeInv ==
  \A s \in Steps :
    /\ Numbered(runs[s])
    /\ \A i \in DOMAIN runs[s] :
         /\ runs[s][i].life <= life
         /\ sup = "up" /\ runs[s][i].life < life => runs[s][i].phase \notin Alive

(* A key with a run is one the journal has started, and a started key is   *)
(* under way, answered or rejected.  A keyed step never comes back to an   *)
(* identity below the last it started, which its memory alone may have     *)
(* swept; a positional one starts an identity of its own in each life, or  *)
(* the original, which it has not swept when it calls.                     *)
Kept(read) ==
  /\ read.scoped \subseteq read.started \cup read.tomb \cup {k \in Ids : read.replay[k] # "missing"}
  /\ read.restarted \subseteq read.started
KeyedScope(read, m, at, n) ==
  /\ \A k \in read.scoped : Passed(read, k) /\ (at \in Working => k <= n)
  /\ sup = "up" => read.started \ m.started \subseteq read.tomb \ read.restarted
LifeScope(read, m, at, n) ==
  /\ \A k \in read.scoped : k = 0 \/ k < life
  /\ at \in Working => n = 0 \/ n < life
  /\ sup = "up" /\ at = "idle" =>
       /\ m.started = read.started
       /\ \A k \in read.scoped : k = 0 \/ k < life - 1
       /\ life = 1 => read.tomb = {}
Scope(s, read, m, at, n, rs) ==
  /\ Kept(read)
  /\ at \in {"launch", "child", "backoff"} => n \in read.scoped
  /\ \A i \in DOMAIN rs : rs[i].n \in read.scoped
  /\ IF s \in Keyed THEN KeyedScope(read, m, at, n) ELSE LifeScope(read, m, at, n)
ScopeInv ==
  \A s \in Steps : Scope(s, Load(journal[s]), mem[s], pc[s], call[s].n, runs[s])

(* So a call that launches has found no run of its key, or one that did    *)
(* not succeed: a success of an earlier life has a later run after it.     *)
Overtaken(rs, n, now) ==
  \A i \in DOMAIN rs :
    rs[i].n = n /\ rs[i].life < now /\ rs[i].phase = "succeeded" =>
      \E j \in DOMAIN rs : rs[j].n = n /\ Recorded(rs[j]) /\ rs[j].ord > rs[i].ord
LaunchInv ==
  sup = "up" =>
    \A s \in Steps :
      pc[s] \in Working \ {"adopt", "waiting"} => Overtaken(runs[s], call[s].n, life)

(* A supervisor that ended by itself leaves no child at work.              *)
ExitLeavesNoChild ==
  sup = "exited" =>
    \A s \in Steps : \A i \in DOMAIN runs[s] : runs[s][i].phase \notin Alive

(* The calls keep the promises of StepLedger, through any number of        *)
(* supervisors, crashes, rejections and timeouts: what is charged is what  *)
(* the journal says, an agent is a child that may still work, an answer a  *)
(* finished row that no later row rejects.                                 *)
AtWork(rs) == {i \in DOMAIN rs : rs[i].phase \in Alive}
AnsweredSteps == {s \in Keyed : Answers(journal[s]) # {}}
Ledger == INSTANCE StepLedger WITH
            Keys <- Ids, charged <- ChargedKeys, answered <- AnsweredSteps,
            agents <- [s \in Steps |-> Cardinality(AtWork(runs[s]))]
ImplementsLedger == Ledger!Spec

(* Why: an adopted child is waited for under a key that was charged.       *)
WaitInv == \A s \in Steps : pc[s] = "waiting" => call[s].n \in Charged(journal[s])

(* A signalled supervisor stops, even while its children never would.      *)
SignalStops == cancel ~> ~cancel
=============================================================================
