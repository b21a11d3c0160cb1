--------------------------- MODULE StallWatchdog ---------------------------
(* The stall watchdog of one attempt (stall_watchdog.py) and the capture    *)
(* loop that polls it (runner.py): the stdout thread accounts every line    *)
(* while the loop judges, probes the worktree, samples the process group    *)
(* and confirms before it signals.                                          *)
(*                                                                          *)
(* A line is what a codex stream says: text, a command or patch that starts *)
(* or finishes, an error item, the end of the turn.  Commands (Calls) are   *)
(* normalized into tool events; a patch is not.  The deadline, output       *)
(* limits and the completion report of text streams are left out.           *)
EXTENDS Integers, Sequences, FiniteSets, SequencesExt

CONSTANTS
  Calls, Patch, ErrorItem,
  Texts,
  StallSeconds, TerminalGrace,
  FailureLimit,  \* REPEATED_TOOL_FAILURE_LIMIT
  OutputLimit,   \* RUNAWAY_OUTPUT_CHARS_DEFAULT
  PendingLimit,  \* PENDING_TOOL_LIMIT
  Sessions       \* bounds: the lines of a child, how many, until when, its commits, and the last time

Limits == {StallSeconds, TerminalGrace, FailureLimit, OutputLimit, PendingLimit}
ASSUME WatchdogAssumption ==
  /\ Limits \subseteq Nat \ {0}
  /\ Patch # ErrorItem /\ Patch \notin Calls /\ ErrorItem \notin Calls

VARIABLES
  clock,    \* time.monotonic()
  watchdog, \* the fields of StallWatchdog
  terminal, \* "no", "read" (the line is accounted), "set" (terminal_signal)
  loop,     \* [at, now, seenAt, token]: the capture loop
  stopped,  \* "no" or what ended the loop
  process,  \* "up" or "gone"
  head,     \* commits in the execution worktree
  seen,     \* history: the lines accounted
  quiet,    \* history: time since the last progress, tools not counted
  session   \* the element of Sessions that bounds this behaviour
watchdogVars == <<clock, watchdog, terminal, loop, stopped, process, head, seen, quiet, session>>

NoCall == [what |-> ErrorItem, ok |-> FALSE]
NoStreak == [what |-> ErrorItem, count |-> 0]
NoTime == -1
NewWatchdog ==
  [armed |-> FALSE, last |-> 0, pending |-> <<>>, toolAt |-> NoTime, toolSeconds |-> 0,
   recent |-> {}, chars |-> 0, done |-> NoCall, streak |-> NoStreak, stray |-> NoStreak,
   trip |-> "none", token |-> 0]

\* prime_probe runs before the child can act.
WatchdogInit ==
  /\ clock = 0 /\ watchdog = NewWatchdog /\ terminal = "no"
  /\ loop = [at |-> "top", now |-> 0, seenAt |-> NoTime, token |-> 0]
  /\ stopped = "no" /\ process = "up" /\ head = 0 /\ seen = <<>> /\ quiet = 0
  /\ session \in Sessions

-----------------------------------------------------------------------------
(* observe_line *)

Line(kind, what, ok) == [kind |-> kind, what |-> what, ok |-> ok]
Lines ==
  [kind : {"say"}, what : Texts, ok : {TRUE}]
  \cup [kind : {"start"}, what : Calls \cup {Patch}, ok : {TRUE}]
  \cup [kind : {"finish"}, what : Calls \cup {Patch}, ok : BOOLEAN]
  \cup [kind : {"error"}, what : {ErrorItem}, ok : {FALSE}]
  \cup [kind : {"done"}, what : {Patch}, ok : {TRUE}]

ASSUME SessionAssumption ==
  Sessions \subseteq [lines : SUBSET Lines, count : Nat, until : Nat, commits : Nat, horizon : Nat]

Activity(x) == x.kind \in {"start", "finish"}

\* _repeats_locked: the call that completed last, again.
Repeats(w, x) ==
  /\ Activity(x) /\ x.what \in Calls /\ w.done.what = x.what
  /\ x.kind = "finish" => w.done.ok = x.ok

Fresh(w, x) == x.kind = "say" /\ x.what \notin w.recent
Progresses(w, x) ==
  Fresh(w, x) \/ x.kind = "done" \/ (Activity(x) /\ x.ok /\ ~Repeats(w, x))

\* _record_outcomes_locked and _record_unmatched_failure_locked: two streaks,
\* one of failing commands and one of failing patches and error items; what
\* succeeds ends both.
Succeeds(x) == x.kind = "finish" /\ x.ok
Tally(s, what) == IF s.what = what THEN [s EXCEPT !.count = @ + 1] ELSE [what |-> what, count |-> 1]
FailsCall(x) == x.kind = "finish" /\ ~x.ok /\ x.what \in Calls
FailsStray(x) == x.kind = "error" \/ (x.kind = "finish" /\ ~x.ok /\ x.what = Patch)
\* Slip: what succeeds does not end the streak.
StreakSurvives(s, x, fails) == IF fails THEN Tally(s, x.what) ELSE s
Streak(s, x, fails) == IF Succeeds(x) THEN NoStreak ELSE IF fails THEN Tally(s, x.what) ELSE s
LastDone(w, x) ==
  IF x.kind = "finish" /\ x.what \in Calls THEN [what |-> x.what, ok |-> x.ok]
  ELSE IF Succeeds(x) THEN NoCall ELSE w.done

\* Of too many the oldest is dropped; a finish that names none closes the oldest.
Pending(w, x) ==
  IF x.kind = "start"
  THEN LET q == Append(w.pending, x.what) IN IF Len(q) > PendingLimit THEN Tail(q) ELSE q
  ELSE IF x.kind # "finish" \/ w.pending = <<>> THEN w.pending
  ELSE IF x.what \in ToSet(w.pending) THEN RemoveFirst(w.pending, x.what) ELSE Tail(w.pending)

\* Idle time leaves out the time inside tools.
Timed(w, x, pending, now) ==
  LET had == w.pending # <<>>
      has == pending # <<>>
      ended == had /\ ~has IN
  IF Progresses(w, x)
  THEN [last |-> now, toolSeconds |-> 0, toolAt |-> IF has THEN now ELSE NoTime]
  ELSE [last |-> IF w.armed THEN w.last ELSE now,
        toolSeconds |-> IF ended THEN w.toolSeconds + now - w.toolAt ELSE w.toolSeconds,
        toolAt |-> IF ended THEN NoTime ELSE IF ~had /\ has THEN now ELSE w.toolAt]

Trip(w, streak, stray, chars) ==
  IF w.trip # "none" THEN w.trip
  ELSE IF streak.count >= FailureLimit \/ stray.count >= FailureLimit THEN "failing"
  ELSE IF chars > OutputLimit THEN "runaway" ELSE "none"

\* _apply_locked, under the watchdog's lock.
Applied(w, x, now) ==
  LET pending == Pending(w, x)
      time == Timed(w, x, pending, now)
      streak == Streak(w.streak, x, FailsCall(x))
      stray == Streak(w.stray, x, FailsStray(x))
      chars == IF Activity(x) THEN 0 ELSE IF Fresh(w, x) THEN w.chars + 1 ELSE w.chars IN
  [armed |-> TRUE, pending |-> pending, last |-> time.last, toolAt |-> time.toolAt,
   toolSeconds |-> time.toolSeconds, done |-> LastDone(w, x), streak |-> streak, stray |-> stray,
   chars |-> chars, trip |-> Trip(w, streak, stray, chars), token |-> w.token,
   recent |-> IF Fresh(w, x) THEN w.recent \cup {x.what} ELSE IF Progresses(w, x) THEN {} ELSE w.recent]

Observe ==
  /\ stopped = "no" /\ terminal # "read" /\ Len(seen) < session.count /\ clock <= session.until
  /\ \E x \in session.lines :
       /\ watchdog' = Applied(watchdog, x, clock)
       /\ quiet' = IF Progresses(watchdog, x) \/ ~watchdog.armed THEN 0 ELSE quiet
       /\ terminal' = IF x.kind = "done" THEN "read" ELSE terminal
       /\ seen' = Append(seen, x)
  /\ UNCHANGED <<clock, loop, stopped, process, head, session>>

\* handle_stdout_line: the signal comes after the line was accounted.
SetTerminal ==
  /\ stopped = "no" /\ terminal = "read" /\ terminal' = "set"
  /\ UNCHANGED <<clock, watchdog, loop, stopped, process, head, seen, quiet, session>>

-----------------------------------------------------------------------------
(* The capture loop *)

\* _stalled_idle_locked
Stalled(w, now) ==
  /\ w.armed
  /\ w.trip # "none" \/ (w.pending = <<>> /\ now - w.last - w.toolSeconds >= StallSeconds)

\* The end of the turn stops a child that lingers.
LoopReads ==
  /\ stopped = "no" /\ loop.at = "top"
  /\ LET since == IF terminal # "set" THEN NoTime ELSE IF loop.seenAt = NoTime THEN clock ELSE loop.seenAt IN
     /\ loop' = [loop EXCEPT !.at = "judge", !.now = clock, !.seenAt = since]
     /\ stopped' = IF since # NoTime /\ clock - since >= TerminalGrace THEN "completed" ELSE "no"
  /\ UNCHANGED <<clock, watchdog, terminal, process, head, seen, quiet, session>>

\* stalled_for, up to the probe
LoopJudges ==
  /\ stopped = "no" /\ loop.at = "judge"
  /\ loop' = [loop EXCEPT !.at =
       IF terminal = "set" \/ ~Stalled(watchdog, loop.now) THEN "exit"
       ELSE IF watchdog.trip # "none" THEN "sample" ELSE "probe"]
  /\ UNCHANGED <<clock, watchdog, terminal, stopped, process, head, seen, quiet, session>>

\* _run_probe, outside the lock; a probe that fails knows nothing.
LoopProbes ==
  /\ stopped = "no" /\ loop.at = "probe"
  /\ \E token \in {head, watchdog.token} : loop' = [loop EXCEPT !.at = "weigh", !.token = token]
  /\ UNCHANGED <<clock, watchdog, terminal, stopped, process, head, seen, quiet, session>>

\* Slip: the probe's token is not kept, so one commit is progress for ever.
LoopWeighsForgets ==
  /\ stopped = "no" /\ loop.at = "weigh"
  /\ IF loop.token # watchdog.token
     THEN /\ watchdog' = [watchdog EXCEPT !.toolSeconds = 0, !.recent = {}, !.last = IF loop.now > @ THEN loop.now ELSE @]
          /\ quiet' = 0 /\ loop' = [loop EXCEPT !.at = "exit"]
     ELSE /\ loop' = [loop EXCEPT !.at = IF Stalled(watchdog, loop.now) THEN "sample" ELSE "exit"]
          /\ UNCHANGED <<watchdog, quiet>>
  /\ UNCHANGED <<clock, terminal, stopped, process, head, seen, session>>

\* stalled_for, after the probe: a commit is progress, and otherwise what the
\* stdout thread did meanwhile counts.
LoopWeighs ==
  /\ stopped = "no" /\ loop.at = "weigh"
  /\ IF loop.token # watchdog.token
     THEN /\ watchdog' = [watchdog EXCEPT !.token = loop.token, !.toolSeconds = 0, !.recent = {},
                            !.last = IF loop.now > @ THEN loop.now ELSE @]
          /\ quiet' = 0 /\ loop' = [loop EXCEPT !.at = "exit"]
     ELSE /\ loop' = [loop EXCEPT !.at = IF Stalled(watchdog, loop.now) THEN "sample" ELSE "exit"]
          /\ UNCHANGED <<watchdog, quiet>>
  /\ UNCHANGED <<clock, terminal, stopped, process, head, seen, session>>

\* Slip: the verdict before the sample is signalled.
LoopConfirmsBlindly ==
  /\ stopped = "no" /\ loop.at = "sample"
  /\ loop' = [loop EXCEPT !.at = "top"] /\ stopped' = "stalled"
  /\ UNCHANGED <<clock, watchdog, terminal, process, head, seen, quiet, session>>

\* confirm_stall, after the process group was sampled, and the signal.
LoopConfirms ==
  /\ stopped = "no" /\ loop.at = "sample"
  /\ loop' = [loop EXCEPT !.at = "top"]
  /\ stopped' = IF terminal # "set" /\ Stalled(watchdog, clock) THEN "stalled" ELSE "no"
  /\ UNCHANGED <<clock, watchdog, terminal, process, head, seen, quiet, session>>

LoopPolls ==
  /\ stopped = "no" /\ loop.at = "exit"
  /\ loop' = [loop EXCEPT !.at = "top"]
  /\ stopped' = IF process = "gone" THEN "exited" ELSE "no"
  /\ UNCHANGED <<clock, watchdog, terminal, process, head, seen, quiet, session>>

-----------------------------------------------------------------------------
(* The child and time *)

Commit ==
  /\ stopped = "no" /\ process = "up" /\ head < session.commits /\ clock <= session.until
  /\ head' = head + 1
  /\ UNCHANGED <<clock, watchdog, terminal, loop, stopped, process, seen, quiet, session>>

ChildExits ==
  /\ stopped = "no" /\ process = "up" /\ process' = "gone"
  /\ UNCHANGED <<clock, watchdog, terminal, loop, stopped, head, seen, quiet, session>>

\* Time passes while the loop sleeps and while it samples; a round takes at most
\* one unit, and past session.until the stdout thread has caught up.
Tick ==
  /\ stopped = "no" /\ loop.at \in {"top", "sample"} /\ loop.now = clock
  /\ clock < session.horizon /\ (terminal = "read" => clock < session.until)
  /\ clock' = clock + 1
  /\ quiet' = IF watchdog.armed /\ watchdog.pending = <<>> THEN quiet + 1 ELSE quiet
  /\ UNCHANGED <<watchdog, terminal, loop, stopped, process, head, seen, session>>

Loops == LoopReads \/ LoopJudges \/ LoopProbes \/ LoopWeighs \/ LoopConfirms \/ LoopPolls
WatchdogNext == Observe \/ SetTerminal \/ Loops \/ Commit \/ ChildExits \/ Tick

\* The stdout thread and the loop run on; time passes, for the loop sleeps in
\* every round (TRACKED_PROCESS_POLL_SEC).
WatchdogSpec ==
  /\ WatchdogInit /\ [][WatchdogNext]_watchdogVars
  /\ WF_watchdogVars(SetTerminal) /\ WF_watchdogVars(Loops) /\ SF_watchdogVars(Tick)

WatchdogTypeOK ==
  /\ clock \in Nat /\ quiet \in 0..clock /\ head \in 0..session.commits /\ seen \in Seq(Lines) /\ session \in Sessions
  /\ watchdog.pending \in Seq(Calls \cup {Patch}) /\ watchdog.recent \subseteq Texts
  /\ watchdog.last \in 0..clock /\ watchdog.toolSeconds \in 0..clock /\ watchdog.token \in 0..head
  /\ (watchdog.toolAt \in 0..clock) = (watchdog.pending # <<>>)
  /\ watchdog.trip \in {"none", "failing", "runaway"} /\ terminal \in {"no", "read", "set"}
  /\ loop.at \in {"top", "judge", "probe", "weigh", "sample", "exit"} /\ loop.now \in 0..clock
  /\ stopped \in {"no", "completed", "stalled", "exited"} /\ process \in {"up", "gone"}

\* A child is signalled as stalled only when it is: a detector has tripped, or
\* nothing new was seen for the whole window with no tool in flight and no end
\* of the turn, whatever the stdout thread saw while the loop probed and
\* sampled, and however the time inside tools was split (confirm_stall).
StallsAreReal ==
  stopped = "stalled" =>
    /\ terminal # "set"
    /\ watchdog.trip # "none" \/ (watchdog.pending = <<>> /\ quiet >= StallSeconds)

\* What the repeated-failure detector means, over the lines themselves: a command
\* (or a patch or an error) failed, and failed FailureLimit times in all, and
\* nothing succeeded nor another of its sort failed in between.
Fails(x) == FailsCall(x) \/ FailsStray(x)
SameSort(x, y) == Fails(x) /\ Fails(y) /\ FailsCall(x) = FailsCall(y)
FailuresLike(lines, i, j) == {k \in i..j : Fails(lines[k]) /\ lines[k].what = lines[i].what}
Unbroken(lines, i, j) ==
  \A k \in i..j : ~Succeeds(lines[k]) /\ (SameSort(lines[k], lines[i]) => lines[k].what = lines[i].what)
FailsOver(lines, i, j) ==
  Fails(lines[i]) /\ Unbroken(lines, i, j) /\ Cardinality(FailuresLike(lines, i, j)) >= FailureLimit
Said(lines, i, j) == {k \in i..j : lines[k].kind = "say"}
RunsOver(lines, i, j) ==
  (\A k \in i..j : ~Activity(lines[k])) /\ Cardinality(Said(lines, i, j)) > OutputLimit

\* A detector trips for a loop and not for work: a fix loop that patches between
\* two failing test runs never counts as repeated failure, a real loop always
\* does, and runaway output has no tool in it (_apply_locked).
TripsAreEarned ==
  /\ watchdog.trip = "failing" => \E i, j \in DOMAIN seen : i <= j /\ FailsOver(seen, i, j)
  /\ watchdog.trip = "runaway" => \E i, j \in DOMAIN seen : i <= j /\ RunsOver(seen, i, j)
  /\ (\E i, j \in DOMAIN seen : i <= j /\ FailsOver(seen, i, j)) => watchdog.trip # "none"

\* A child that has gone quiet with no tool in flight is stopped, whatever it
\* committed and whenever its last line came (stalled_for, TERMINAL_EXIT_GRACE).
HungIsStopped == (watchdog.armed /\ watchdog.pending = <<>> /\ clock > session.until) ~> (stopped # "no")
=============================================================================
