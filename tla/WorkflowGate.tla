---------------------------- MODULE WorkflowGate ----------------------------
(***************************************************************************)
(* Human checkpoints of a workflow: a script thread parks at a gate, the   *)
(* supervisor stops admitting agents, drains the ones in flight, projects  *)
(* "paused" onto status.json and exits; an operator answers from another   *)
(* process and a new supervisor replays the script.  The script's threads, *)
(* the item pool of parallel() and pipeline() with its start barrier, the  *)
(* gate rows of journal.jsonl, approval.json, a signal during the drain    *)
(* and the death of the supervisor at any step are modelled.               *)
(*                                                                         *)
(* What the agents compute is not: a call only matters here as something   *)
(* admitted, in flight and finished.  Scripts are arbitrary: every thread  *)
(* may make any call in any order, MaxSteps calls at most.                 *)
(***************************************************************************)
EXTENDS Naturals, Sequences, FiniteSets

CONSTANTS
  Main,         \* the thread that executes the script body
  Items,        \* the item threads parallel() and pipeline() may start
  Gates,        \* gate keys
  PlainGates,   \* those of workflow(gate=...), which offer no actions
  Results,      \* the results a gate may be asked about
  Offers,       \* the action lists park_gate() may declare
  Approve,      \* the action a bare approval stands for
  Cap,          \* workflows.itemThreads
  MaxLives,     \* bound: supervisors launched
  MaxSteps,     \* bound: calls one thread makes in one lifetime
  Catches       \* whether the script catches the GateExit a call raises

ASSUME GateAssumption ==
  /\ Main \notin Items /\ IsFiniteSet(Items)
  /\ PlainGates \subseteq Gates
  /\ \A o \in Offers : o # {}
  /\ Cap \in Nat \ {0} /\ MaxLives \in Nat \ {0} /\ MaxSteps \in Nat
  /\ Catches \in BOOLEAN

Threads == {Main} \cup Items
Actions == {Approve} \cup UNION Offers

(* A hash identifies the question: the result, and for a question asked    *)
(* again because its answer lapsed, also the actions on offer.             *)
Hashes == [result : Results, offer : Offers \cup {{}}]
Asks == [gate : Gates, hash : Hashes]
NoAsk == [gate |-> "none"]
NoCall == [gate |-> "none"]
Calls == [gate : Gates, hash : Hashes, actions : Offers \cup {{}}]

ResultHash(r) == [result |-> r, offer |-> {}]
ReaskHash(r, o) == [result |-> r, offer |-> o]
AskOf(c) == [gate |-> c.gate, hash |-> c.hash]

VARIABLES
  rows,       \* gate rows of the journal, oldest first
  approvals,  \* approval.json: [gate, hash, action]
  status,     \* status.json: its phase and the gate it names
  up,         \* a supervisor holds the workflow lock
  life,       \* supervisors launched so far
  pc,         \* thread -> where it is
  call,       \* thread -> the gate call it is making
  exc,        \* thread -> the exception unwinding it
  steps,      \* thread -> calls made
  stop,       \* gate_state["stop_admitting"]
  inflight,   \* gate_state["in_flight_agents"]
  pending,    \* pending_gate[-1]
  cancel,     \* cancel_event
  wave,       \* the items of the primitive Main is executing
  started,    \* those whose thread has been started
  firstGate,  \* gate_errors[0]
  keyError,   \* key_errors is not empty
  passed,     \* history: gate calls that returned a decision
  last        \* history: how the last supervisor ended, what it had parked at, and whether
              \* its script caught the gate

disk == <<rows, approvals, status>>
pool == <<wave, started, firstGate, keyError>>
admission == <<stop, inflight, pending>>
vars == <<rows, approvals, status, up, life, pc, call, exc, steps, stop, inflight,
          pending, cancel, wave, started, firstGate, keyError, passed, last>>

Phases == {"starting", "running", "paused", "succeeded", "failed"}
ThreadPcs == {"idle", "barrier", "run", "agent", "decided", "row", "close", "drain", "project",
              "unwind", "done", "boot", "check", "acquire", "join", "exit"}
Exceptions == {"none", "gate", "watchdog", "conflict"}
NoExc == [kind |-> "none", ask |-> NoAsk]

(* A supervisor dies, or its script returns, raises, leaves at a gate or is *)
(* cancelled; "stuck" is cancelled with a child that could not be.          *)
Endings == {"none", "crashed", "returned", "raised", "gate", "cancelled", "stuck"}
Lasts == [how : Endings, parked : Asks \cup {NoAsk}, caught : BOOLEAN]
NotEnded == [how |-> "none", parked |-> NoAsk, caught |-> FALSE]

Statuses == [phase : Phases, ask : Asks \cup {NoAsk}]
Unwindings == [kind : Exceptions, ask : Asks \cup {NoAsk}]

TypedDisk ==
  /\ rows \in Seq(Calls)
  /\ approvals \subseteq [gate : Gates, hash : Hashes, action : Actions]
  /\ status \in Statuses
TypedThreads ==
  /\ pc \in [Threads -> ThreadPcs]
  /\ call \in [Threads -> Calls \cup {NoCall}]
  /\ exc \in [Threads -> Unwindings]
  /\ steps \in [Threads -> 0..MaxSteps]
TypedGate ==
  /\ up \in BOOLEAN /\ stop \in BOOLEAN /\ cancel \in BOOLEAN
  /\ pending \in Asks \cup {NoAsk}
TypedPool ==
  /\ wave \subseteq Items /\ started \subseteq wave
  /\ firstGate \in Asks \cup {NoAsk} /\ keyError \in BOOLEAN
TypedHistory ==
  /\ life \in 0..MaxLives
  /\ passed \subseteq Calls
  /\ last \in Lasts

Typed == TypedDisk /\ TypedThreads /\ TypedGate /\ TypedPool /\ TypedHistory
TypeOK == Typed /\ inflight \in 0..Cardinality(Threads)

Init ==
  /\ rows = <<>> /\ approvals = {}
  /\ status = [phase |-> "starting", ask |-> NoAsk]
  /\ up = TRUE /\ life = 1
  /\ pc = [t \in Threads |-> IF t = Main THEN "boot" ELSE "idle"]
  /\ call = [t \in Threads |-> NoCall]
  /\ exc = [t \in Threads |-> NoExc]
  /\ steps = [t \in Threads |-> 0]
  /\ stop = FALSE /\ inflight = 0 /\ pending = NoAsk /\ cancel = FALSE
  /\ wave = {} /\ started = {} /\ firstGate = NoAsk /\ keyError = FALSE
  /\ passed = {}
  /\ last = NotEnded

-----------------------------------------------------------------------------
(* The journal, approval.json and status.json                              *)

Goto(t, where) == pc' = [pc EXCEPT ![t] = where]
Raise(t, kind, ask) ==
  /\ exc' = [exc EXCEPT ![t] = [kind |-> kind, ask |-> ask]]
  /\ Goto(t, "unwind")

(* append_event() rewrites status.json after every row: "running", unless  *)
(* it names a paused gate.                                                 *)
AfterAppend(s) ==
  IF s.phase = "paused" /\ s.ask # NoAsk THEN s ELSE [phase |-> "running", ask |-> NoAsk]

Projection(ask) == [phase |-> "paused", ask |-> ask]

Declared(row) == IF row.actions = {} THEN {Approve} ELSE row.actions

(* approval_decision(): the action recorded for this gate and result.      *)
Answers(ask) == {a.action : a \in {b \in approvals : AskOf(b) = ask}}

\* Slip: the file holds the latest approval only.
RecordedAlone(ask, decision) ==
  {[gate |-> ask.gate, hash |-> ask.hash, action |-> d] :
     d \in IF decision = {} THEN {Approve} ELSE decision}

(* record_approval() keeps every earlier approval; a decision replaces the *)
(* one on the same gate and result, a bare approval does not.              *)
Recorded(ask, decision) ==
  IF decision = {}
  THEN IF Answers(ask) = {}
       THEN approvals \cup {[gate |-> ask.gate, hash |-> ask.hash, action |-> Approve]}
       ELSE approvals
  ELSE {a \in approvals : AskOf(a) # ask}
       \cup {[gate |-> ask.gate, hash |-> ask.hash, action |-> d] : d \in decision}

Latest(indices) == {i \in indices : \A j \in indices : j <= i}
Questions == {AskOf(rows[i]) : i \in DOMAIN rows}
RowsAt(ask) == {i \in DOMAIN rows : AskOf(rows[i]) = ask}
PendingRows(gates) ==
  {i \in DOMAIN rows : rows[i].gate \in gates /\ Answers(AskOf(rows[i])) = {}}

-----------------------------------------------------------------------------
(* One agent() call: active_agent() around the child                       *)

Calling(t) == up /\ pc[t] = "run" /\ steps[t] < MaxSteps
Counted(t) == steps' = [steps EXCEPT ![t] = @ + 1]

(* active_agent(): a cancelled lifetime admits nothing, a closed gate      *)
(* raises GateExit with the metadata of the gate that closed it.           *)
AgentAdmitted(t) ==
  /\ Calling(t) /\ ~cancel /\ ~stop
  /\ Goto(t, "agent") /\ Counted(t)
  /\ inflight' = inflight + 1
  /\ status' = AfterAppend(status)
  /\ UNCHANGED <<rows, approvals, up, life, call, exc, stop, pending, cancel, pool, passed, last>>

AgentRefused(t) ==
  /\ Calling(t) /\ (cancel \/ stop)
  /\ Counted(t)
  /\ IF cancel THEN Raise(t, "watchdog", NoAsk) ELSE Raise(t, "gate", pending)
  /\ UNCHANGED <<disk, up, life, call, admission, cancel, pool, passed, last>>

\* Slip: a child that ends is never taken off the count.
AgentEndsForgotten(t) ==
  /\ up /\ pc[t] = "agent"
  /\ Goto(t, "run")
  /\ status' = AfterAppend(status)
  /\ UNCHANGED <<rows, approvals, up, life, call, exc, steps, admission, cancel, pool, passed, last>>

(* The child ends, or the cancellation kills it.                           *)
AgentEnds(t) ==
  /\ up /\ pc[t] = "agent"
  /\ inflight' = inflight - 1
  /\ \/ /\ Goto(t, "run")
        /\ status' = AfterAppend(status)
        /\ UNCHANGED exc
     \/ /\ cancel
        /\ Raise(t, "watchdog", NoAsk)
        /\ UNCHANGED status
  /\ UNCHANGED <<rows, approvals, up, life, call, steps, stop, pending, cancel, pool, passed, last>>

-----------------------------------------------------------------------------
(* One gate call: park_gate(), or workflow(gate=...) once its child is done *)

InCall(t) == pc[t] \in {"decided", "row", "close", "drain", "project"}

(* A gate call that finds its answer returns it; one that finds none, or   *)
(* an answer this call does not offer, asks.  An answer not on offer is a  *)
(* new question under a hash of its own, unless that too is answered.      *)
Question(g, r, o) ==
  LET first == [gate |-> g, hash |-> ResultHash(r)]
      again == [gate |-> g, hash |-> ReaskHash(r, o)]
  IN IF o = {} \/ Answers(first) = {} \/ Answers(first) \cap o # {} THEN first ELSE again

Answered(ask, o) ==
  /\ Answers(ask) # {}
  /\ o # {} => Answers(ask) \cap o # {}

OffersOf(g) == IF g \in PlainGates THEN {{}} ELSE Offers

GateCall(t, g, r, o) ==
  /\ Calling(t) /\ o \in OffersOf(g)
  /\ g \in PlainGates => ~ \E u \in Threads : InCall(u) /\ call[u].gate = g
  /\ Counted(t)
  /\ LET ask == Question(g, r, o)
         held == \E u \in Threads : InCall(u) /\ call[u].gate = g
         next == IF Answered(ask, o) THEN "decided" ELSE "row"
     IN \/ /\ held                            \* claim_gate_key()
           /\ Raise(t, "conflict", NoAsk)
           /\ UNCHANGED <<call, status>>
        \/ /\ ~held
           /\ call' = [call EXCEPT ![t] = [gate |-> g, hash |-> ask.hash, actions |-> o]]
           /\ Goto(t, next)
           /\ status' = IF ask.hash.offer = {} THEN status ELSE AfterAppend(status)
           /\ UNCHANGED exc
  /\ UNCHANGED <<rows, approvals, up, life, admission, cancel, pool, passed, last>>

(* The call returns its answer, a gate_decided row behind it, and lets go  *)
(* of the key.                                                             *)
GateReturns(t) ==
  /\ up /\ pc[t] = "decided"
  /\ passed' = passed \cup {[call[t] EXCEPT !.hash = ResultHash(@.result)]}
  /\ status' = IF call[t].actions = {} THEN status ELSE AfterAppend(status)
  /\ call' = [call EXCEPT ![t] = NoCall]
  /\ Goto(t, "run")
  /\ UNCHANGED <<rows, approvals, up, life, exc, steps, admission, cancel, pool, last>>

\* Slip: a thread that finds a gate already parked writes no row of its own.
ParkRowOnce(t) ==
  /\ up /\ pc[t] = "row"
  /\ rows' = IF pending # NoAsk THEN rows ELSE Append(rows, call[t])
  /\ Goto(t, "close")
  /\ UNCHANGED <<approvals, status, up, life, call, exc, steps, admission, cancel, pool, passed, last>>

(* state.park_gate(): the row is durable before admission closes.  A row   *)
(* for the same question is reused unless the actions on offer changed.    *)
ParkRow(t) ==
  /\ up /\ pc[t] = "row"
  /\ LET known == RowsAt(AskOf(call[t]))
         reuse == /\ known # {}
                  /\ \/ call[t].actions = {}
                     \/ \E i \in Latest(known) : Declared(rows[i]) = call[t].actions
     IN rows' = IF reuse THEN rows ELSE Append(rows, call[t])
  /\ Goto(t, "close")
  /\ UNCHANGED <<approvals, status, up, life, call, exc, steps, admission, cancel, pool, passed, last>>

ParkClose(t) ==
  /\ up /\ pc[t] = "close"
  /\ pending' = AskOf(call[t])
  /\ stop' = TRUE
  /\ Goto(t, "drain")
  /\ UNCHANGED <<disk, up, life, call, exc, steps, inflight, cancel, pool, passed, last>>

\* Slip: admission is closed but nothing is waited for.
ParkNotDrained(t) ==
  /\ up /\ pc[t] = "drain"
  /\ exc' = [exc EXCEPT ![t] = [kind |-> "gate", ask |-> AskOf(call[t])]]
  /\ Goto(t, "project")
  /\ UNCHANGED <<disk, up, life, call, steps, admission, cancel, pool, passed, last>>

(* close_gate_and_wait(): the drain ends, or the cancellation ends it.     *)
ParkDrained(t) ==
  /\ up /\ pc[t] = "drain"
  /\ \/ inflight = 0 /\ exc' = [exc EXCEPT ![t] = [kind |-> "gate", ask |-> AskOf(call[t])]]
     \/ inflight > 0 /\ cancel /\ exc' = [exc EXCEPT ![t] = [kind |-> "watchdog", ask |-> NoAsk]]
  /\ Goto(t, "project")
  /\ UNCHANGED <<disk, up, life, call, steps, admission, cancel, pool, passed, last>>

ParkProjects(t) ==
  /\ up /\ pc[t] = "project"
  /\ status' = Projection(AskOf(call[t]))
  /\ call' = [call EXCEPT ![t] = NoCall]
  /\ Goto(t, "unwind")
  /\ UNCHANGED <<rows, approvals, up, life, exc, steps, admission, cancel, pool, passed, last>>

-----------------------------------------------------------------------------
(* parallel() and pipeline() at the top level of the script                *)

HasBarrier == Cardinality(wave) <= Cap
Slots == {i \in started : pc[i] # "done"}

(* The start loop stops when a gate closed or an item failed to key.       *)
MustBreak == stop \/ firstGate # NoAsk \/ keyError
LoopEnd == IF HasBarrier THEN "barrier" ELSE "join"

Primitive(W) ==
  /\ Calling(Main) /\ W # {}
  /\ wave' = W /\ started' = {} /\ firstGate' = NoAsk /\ keyError' = FALSE
  /\ Counted(Main) /\ Goto(Main, "check")
  /\ UNCHANGED <<disk, up, life, call, exc, admission, cancel, passed, last>>

StartCheck ==
  /\ up /\ pc[Main] = "check"
  /\ Goto(Main, IF MustBreak \/ started = wave THEN LoopEnd ELSE "acquire")
  /\ UNCHANGED <<disk, up, life, call, exc, steps, admission, cancel, pool, passed, last>>

(* item_semaphore.acquire(), the second look at the gate, thread.start()   *)
StartItem ==
  /\ up /\ pc[Main] = "acquire" /\ Cardinality(Slots) < Cap
  /\ IF MustBreak
     THEN Goto(Main, LoopEnd) /\ UNCHANGED <<started, steps>>
     ELSE \E i \in wave \ started :
            /\ started' = started \cup {i}
            /\ steps' = [steps EXCEPT ![i] = 0]
            /\ pc' = [pc EXCEPT ![i] = IF HasBarrier THEN "barrier" ELSE "run", ![Main] = "check"]
  /\ UNCHANGED <<disk, up, life, call, exc, admission, cancel, wave, firstGate, keyError, passed, last>>

(* The barrier was made for every item of the wave and the caller.         *)
BarrierOpens ==
  /\ up /\ pc[Main] = "barrier"
  /\ \A i \in wave : pc[i] = "barrier"
  /\ pc' = [t \in Threads |-> IF t = Main THEN "join" ELSE IF t \in wave THEN "run" ELSE pc[t]]
  /\ UNCHANGED <<disk, up, life, call, exc, steps, admission, cancel, pool, passed, last>>

(* Every thread started has ended.  Cancellation outranks a gate, a gate   *)
(* outranks a key conflict.                                                *)
Join ==
  /\ up /\ pc[Main] = "join" /\ \A i \in started : pc[i] = "done"
  /\ pc' = [t \in Threads |->
              IF t \in started THEN "idle"
              ELSE IF t # Main THEN pc[t]
              ELSE IF cancel \/ firstGate # NoAsk \/ stop \/ keyError THEN "unwind" ELSE "run"]
  /\ exc' = [exc EXCEPT ![Main] =
       IF cancel THEN [kind |-> "watchdog", ask |-> NoAsk]
       ELSE IF firstGate # NoAsk THEN [kind |-> "gate", ask |-> firstGate]
       ELSE IF stop THEN [kind |-> "gate", ask |-> pending]
       ELSE IF keyError THEN [kind |-> "conflict", ask |-> NoAsk] ELSE NoExc]
  /\ status' = IF ~cancel /\ firstGate # NoAsk THEN Projection(firstGate) ELSE status
  /\ wave' = {} /\ started' = {} /\ firstGate' = NoAsk /\ keyError' = FALSE
  /\ UNCHANGED <<rows, approvals, up, life, call, steps, admission, cancel, passed, last>>

(* An item's callback returns, or its exception is put in the list the     *)
(* caller raises from; a watchdog exit ends the thread.                    *)
ItemReturns(i) ==
  /\ up /\ i \in Items /\ pc[i] = "run"
  /\ Goto(i, "done")
  /\ UNCHANGED <<disk, up, life, call, exc, steps, admission, cancel, pool, passed, last>>

ItemUnwinds(i) ==
  /\ up /\ i \in Items /\ pc[i] = "unwind"
  /\ Goto(i, "done")
  /\ exc' = [exc EXCEPT ![i] = NoExc]
  /\ firstGate' = IF exc[i].kind = "gate" /\ firstGate = NoAsk THEN exc[i].ask ELSE firstGate
  /\ keyError' = (keyError \/ exc[i].kind = "conflict")
  /\ UNCHANGED <<disk, up, life, call, steps, admission, cancel, wave, started, passed, last>>

(* log(), phase() and the rows of a failed item, also while unwinding.     *)
ScriptLogs(t) ==
  /\ up /\ pc[t] \in {"run", "unwind"}
  /\ status' = AfterAppend(status)
  /\ UNCHANGED <<rows, approvals, up, life, pc, call, exc, steps, admission, cancel, pool, passed, last>>

(* GateExit is a RuntimeError: a script may catch it and go on.            *)
ScriptCatches(t) ==
  /\ Catches
  /\ up /\ pc[t] = "unwind" /\ exc[t].kind = "gate"
  /\ exc' = [exc EXCEPT ![t] = NoExc]
  /\ Goto(t, "run")
  /\ last' = [last EXCEPT !.caught = TRUE]
  /\ UNCHANGED <<disk, up, life, call, steps, admission, cancel, pool, passed>>

-----------------------------------------------------------------------------
(* run_supervisor(): how a lifetime begins and ends                        *)

Boot ==
  /\ up /\ pc[Main] = "boot"
  /\ status' = [phase |-> "running", ask |-> NoAsk]
  /\ Goto(Main, "run")
  /\ UNCHANGED <<rows, approvals, up, life, call, exc, steps, admission, cancel, pool, passed, last>>

Ends(how) ==
  /\ up' = FALSE
  /\ last' = [last EXCEPT !.how = how, !.parked = pending]
  /\ pc' = [t \in Threads |-> "idle"]
  /\ call' = [t \in Threads |-> NoCall]
  /\ exc' = [t \in Threads |-> NoExc]
  /\ steps' = [t \in Threads |-> 0]
  /\ stop' = FALSE /\ inflight' = 0 /\ pending' = NoAsk /\ cancel' = FALSE
  /\ wave' = {} /\ started' = {} /\ firstGate' = NoAsk /\ keyError' = FALSE
  /\ UNCHANGED <<rows, approvals, life, passed>>

Fails == status' = [phase |-> "failed", ask |-> NoAsk]

ScriptReturns ==
  /\ up /\ pc[Main] = "run"
  /\ status' = [phase |-> "succeeded", ask |-> NoAsk]
  /\ Ends("returned")

Unwinding(kind) == up /\ pc[Main] = "unwind" /\ exc[Main].kind = kind

(* except GateExit: ensure_gate_durable() projects the gate once more.     *)
ExitAtGate ==
  /\ Unwinding("gate")
  /\ status' = Projection(exc[Main].ask)
  /\ Ends("gate")

\* Slip: a cancelled attempt failed, whatever it had parked.
ExitCancelledFailed ==
  /\ Unwinding("watchdog")
  /\ Fails
  /\ Ends("cancelled")

(* except SupervisorWatchdogExit: where a child could not be cancelled the *)
(* attempt failed; else a gate the journal still holds without an approval *)
(* is put back as a pause.                                                 *)
ExitCancelled ==
  /\ Unwinding("watchdog")
  /\ \/ Fails /\ Ends("stuck")
     \/ /\ IF PendingRows(Gates) # {}
           THEN \E i \in Latest(PendingRows(Gates)) : status' = Projection(AskOf(rows[i]))
           ELSE Fails
        /\ Ends("cancelled")

(* A key conflict, or any exception of the script's own.                   *)
ExitFailed ==
  /\ Unwinding("conflict") \/ (up /\ pc[Main] = "run")
  /\ Fails
  /\ Ends("raised")

(* SIGTERM or SIGINT: the relay sets cancel_event.                         *)
Signal ==
  /\ up /\ pc[Main] # "boot" /\ ~cancel
  /\ cancel' = TRUE
  /\ UNCHANGED <<disk, up, life, pc, call, exc, steps, admission, pool, passed, last>>

Crash ==
  /\ up
  /\ UNCHANGED status
  /\ Ends("crashed")

-----------------------------------------------------------------------------
(* delegate workflow approve and delegate workflow run --resume, which     *)
(* hold the workflow lock from their first read to the launch              *)

Launches ==
  /\ up' = TRUE /\ life' = life + 1
  /\ pc' = [pc EXCEPT ![Main] = "boot"]
  /\ last' = NotEnded

Commanding == ~up /\ life < MaxLives

(* A resume of a paused gate approves it, with no action chosen.           *)
ResumeRecords == IF status.phase = "paused" /\ status.ask # NoAsk
                 THEN Recorded(status.ask, {}) ELSE approvals

Resume ==
  /\ Commanding
  /\ approvals' = ResumeRecords
  /\ status' = [status EXCEPT !.phase = "starting"]
  /\ Launches
  /\ UNCHANGED <<rows, call, exc, steps, admission, cancel, pool, passed>>

(* The command dies between approval.json and the launch.                  *)
ResumeDies ==
  /\ Commanding
  /\ approvals' = ResumeRecords
  /\ UNCHANGED <<rows, status, up, life, pc, call, exc, steps, admission, cancel, pool, passed, last>>

(* approve finds the latest unapproved gate row, of the gate it names when *)
(* it names one, and falls back on the gate status.json names.             *)
ApproveTargets(gates) ==
  IF PendingRows(gates) # {}
  THEN {AskOf(rows[i]) : i \in Latest(PendingRows(gates))}
  ELSE IF gates = Gates THEN {status.ask} \ {NoAsk} ELSE {}

(* What the latest row of a question offers; a bare approve needs Approve. *)
Offered(ask) ==
  IF RowsAt(ask) = {} THEN {Approve}
  ELSE UNION {Declared(rows[i]) : i \in Latest(RowsAt(ask))}

Accepts(ask, choice) == (IF choice = {} THEN {Approve} ELSE choice) \subseteq Offered(ask)

ApproveLaunches(gates, choice) ==
  /\ Commanding
  /\ \E ask \in ApproveTargets(gates) :
       /\ Accepts(ask, choice)
       /\ approvals' = Recorded(ask, choice)
       /\ status' = [phase |-> "starting", ask |-> ask]
  /\ Launches
  /\ UNCHANGED <<rows, call, exc, steps, admission, cancel, pool, passed>>

(* The launch fails: approval.json is restored, the projection recovered   *)
(* from the journal stays.                                                 *)
ApproveFails(gates, choice) ==
  /\ Commanding /\ PendingRows(gates) # {}
  /\ \E ask \in ApproveTargets(gates) : Accepts(ask, choice) /\ status' = Projection(ask)
  /\ UNCHANGED <<rows, approvals, up, life, pc, call, exc, steps, admission, cancel, pool, passed, last>>

Named == {Gates} \cup {{g} : g \in Gates}
Choices == {{}} \cup {{a} : a \in Actions}

-----------------------------------------------------------------------------

ThreadStep(t) ==
  \/ AgentAdmitted(t) \/ AgentRefused(t) \/ AgentEnds(t)
  \/ \E g \in Gates, r \in Results, o \in Offers \cup {{}} : GateCall(t, g, r, o)
  \/ GateReturns(t) \/ ScriptLogs(t)
  \/ ParkRow(t) \/ ParkClose(t) \/ ParkDrained(t) \/ ParkProjects(t)
  \/ ScriptCatches(t)
  \/ ItemReturns(t) \/ ItemUnwinds(t)

MainStep ==
  \/ \E W \in SUBSET Items : Primitive(W)
  \/ StartCheck \/ StartItem \/ BarrierOpens \/ Join
  \/ Boot \/ ScriptReturns \/ ExitAtGate \/ ExitCancelled \/ ExitFailed

Command ==
  \/ Resume \/ ResumeDies
  \/ \E gates \in Named, choice \in Choices :
       ApproveLaunches(gates, choice) \/ ApproveFails(gates, choice)

Next ==
  \/ \E t \in Threads : ThreadStep(t)
  \/ MainStep
  \/ Signal \/ Crash
  \/ Command

Spec == Init /\ [][Next]_vars

(* The interpreter runs every thread, and a child ends: it has a timeout.  *)
Fairness == (\A t \in Threads : WF_vars(ThreadStep(t))) /\ WF_vars(MainStep)
FairSpec == Spec /\ Fairness

-----------------------------------------------------------------------------
(* Properties                                                              *)

(* While a supervisor lives and is not being cancelled, a status.json that *)
(* says "paused" at a gate means every agent it admitted has been drained: *)
(* the row, the closing of admission and the projection keep that order    *)
(* against agents that start and finish in other threads.                  *)
PausedIsQuiet ==
  up /\ ~cancel /\ status.phase = "paused" => \A t \in Threads : pc[t] # "agent"

(* Whatever is interrupted, and whichever of several gates in one wave     *)
(* projects last, a paused status names a gate whose row is in the journal *)
(* so that approve has a question to validate an answer against.           *)
PausedIsAnswerable == status.phase = "paused" => status.ask \in Questions

(* A supervisor that parked at a gate and ended by itself, drained or      *)
(* cancelled, alone or with other items failing, leaves "paused".  The     *)
(* exceptions: a child could not be cancelled; the cancelled gate asks     *)
(* again what an approval that it does not offer has answered (see         *)
(* ParkedEndsPaused); and a script that catches the gate goes on to an end *)
(* of its own.                                                             *)
GateExitsPaused ==
  ~up /\ last.parked # NoAsk =>
    /\ last.how = "gate" => status.phase = "paused"
    /\ last.how = "cancelled" => status.phase = "paused" \/ Answers(last.parked) # {}
    /\ last.how \in {"returned", "raised"} => last.caught

(* A cancelled attempt keeps its checkpoint rather than overwriting it with *)
(* a failed state (run_supervisor, except SupervisorWatchdogExit).         *)
ParkedEndsPaused ==
  ~up /\ last.how = "cancelled" /\ last.parked # NoAsk => status.phase = "paused"

(* approval.json only ever answers questions that were asked: an approval  *)
(* has a gate row with its key and hash, and an action chosen by name was  *)
(* declared by such a row.                                                 *)
AnswersWereAsked ==
  \A a \in approvals : \E i \in RowsAt(AskOf(a)) :
    a.action # Approve => a.action \in Declared(rows[i])

(* A resume replays the whole script, so every gate already passed is      *)
(* reached again: one asked about the same result with the same actions    *)
(* never parks a second time, whatever was approved or asked in between.   *)
PassedStaysPassed ==
  [][\A t \in Threads :
       pc[t] # "row" /\ pc'[t] = "row" =>
         [call'[t] EXCEPT !.hash = ResultHash(call'[t].hash.result)] \notin passed]_vars

-----------------------------------------------------------------------------
(* The inductive invariant behind the safety properties                    *)

AgentsIn == {t \in Threads : pc[t] = "agent"}
AgentsCounted == inflight = Cardinality(AgentsIn)

(* Threads are idle unless a primitive started them; all are, between      *)
(* supervisors.                                                            *)
IdleElsewhere ==
  /\ ~up => \A t \in Threads : pc[t] = "idle"
  /\ \A i \in Items \ started : pc[i] = "idle"
  /\ pc[Main] \notin {"check", "acquire", "barrier", "join"} => started = {}

(* Nothing unwinds with a gate before admission closed, and a gate call    *)
(* that has left the drain uncancelled left no agent behind.               *)
GatesClose ==
  /\ firstGate # NoAsk => stop
  /\ \A t \in Threads :
       /\ exc[t].kind = "gate" => stop
       /\ pc[t] \in {"drain", "project"} => stop
       /\ pc[t] = "project" /\ ~cancel => inflight = 0
  /\ up /\ ~cancel /\ status.phase = "paused" => stop /\ inflight = 0

(* Whatever names a question names one the journal holds.                  *)
StatusAsked ==
  /\ status.ask \in Questions \cup {NoAsk}
  /\ status.phase = "paused" => status.ask # NoAsk
GateAsked ==
  /\ pending \in Questions \cup {NoAsk} /\ (stop <=> pending # NoAsk)
  /\ firstGate \in Questions \cup {NoAsk}
ThreadsAsked ==
  \A t \in Threads :
    /\ exc[t].ask \in Questions \cup {NoAsk}
    /\ exc[t].kind = "gate" => exc[t].ask # NoAsk
    /\ InCall(t) => call[t] \in Calls
    /\ pc[t] \in {"close", "drain", "project"} => AskOf(call[t]) \in Questions

QuestionsAsked == StatusAsked /\ GateAsked /\ ThreadsAsked

GateInv ==
  /\ TypeOK /\ AgentsCounted /\ IdleElsewhere /\ GatesClose /\ QuestionsAsked
  /\ AnswersWereAsked

(* Why what passed stays passed.  While a supervisor lives nothing is      *)
(* approved, so the first question about a result that anyone is parked at *)
(* or unwinds with has no answer; a question asked again is only ever      *)
(* asked with the actions of its hash, so that any answer to it is one of  *)
(* them; and an answer can only be replaced on the question status.json    *)
(* names, which is not the one a gate with actions has just passed at.     *)
Unanswered(ask) == ask.hash.offer = {} => Answers(ask) = {}
Unanswerable(ask) == ask # NoAsk => Unanswered(ask)
NothingIsAnswered ==
  up =>
    /\ status.phase = "paused" => Unanswered(status.ask)
    /\ Unanswerable(pending) /\ Unanswerable(firstGate)
    /\ \A t \in Threads :
         /\ Unanswerable(exc[t].ask)
         /\ pc[t] \in {"row", "close", "drain", "project"} => Unanswered(AskOf(call[t]))

NothingIsLeft ==
  ~up => pending = NoAsk /\ firstGate = NoAsk /\ \A t \in Threads : exc[t] = NoExc

Reasks(c) == c.hash.offer # {} => c.actions = c.hash.offer
ReasksAreTheSame ==
  /\ \A i \in DOMAIN rows : Reasks(rows[i])
  /\ \A t \in Threads : InCall(t) => Reasks(call[t])

DecidedIsAnswered ==
  \A t \in Threads : pc[t] = "decided" =>
     /\ AskOf(call[t]) = Question(call[t].gate, call[t].hash.result, call[t].actions)
     /\ Answered(AskOf(call[t]), call[t].actions)

Again(p) == [gate |-> p.gate, hash |-> ReaskHash(p.hash.result, p.actions)]
StaysAnswered(p) ==
  /\ p.hash.offer = {} /\ Answers(AskOf(p)) # {}
  /\ p.actions # {} => \/ Answers(Again(p)) \cap p.actions # {}
                       \/ Answers(AskOf(p)) \cap p.actions # {} /\ status.ask # AskOf(p)

PassedInv ==
  /\ NothingIsAnswered /\ NothingIsLeft /\ ReasksAreTheSame /\ DecidedIsAnswered
  /\ \A p \in passed : StaysAnswered(p)

(* Why a parked supervisor exits "paused".  What is pending has a row, so   *)
(* either it is answered or the journal has a row that pends; and once     *)
(* admission is closed, a body that has not caught the gate is inside the  *)
(* primitive that closed it or on its way out, with nothing but the gate   *)
(* or the cancellation to raise.                                           *)
Leaving == {"drain", "project", "unwind"}
ClosedIsLeaving ==
  /\ stop => up
  /\ stop /\ ~last.caught =>
       /\ pc[Main] \in {"check", "acquire", "barrier", "join"} \cup Leaving
       /\ pc[Main] \in {"project", "unwind"} => exc[Main].kind \in {"gate", "watchdog"}

ExitInv == ClosedIsLeaving /\ GateExitsPaused

(* Once a gate closes admission the supervisor ends: the drain, the items  *)
(* still starting and the join all come to an end, at any wave size and    *)
(* any number of item slots.                                               *)
GateEndsSupervisor == (up /\ stop) ~> ~up
=============================================================================
