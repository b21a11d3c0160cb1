------------------------ MODULE StallWatchdogProofs ------------------------
(* Proofs about the stall watchdog, for any sessions, windows and thresholds *)
(* and output of any length: what its one-line updates count is what the     *)
(* whole output says.                                                        *)
EXTENDS StallWatchdog, FiniteSetTheorems, WellFoundedInduction, TLAPS

WatchTypes ==
  [armed : BOOLEAN, last : Nat, pending : Seq(Calls \cup {Patch}), toolAt : Nat \cup {NoTime},
   toolSeconds : Nat, recent : SUBSET Texts, chars : Nat,
   done : [what : Calls \cup {ErrorItem}, ok : BOOLEAN],
   streak : [what : Calls \cup {Patch, ErrorItem}, count : Nat],
   stray : [what : Calls \cup {Patch, ErrorItem}, count : Nat],
   trip : {"none", "failing", "runaway"}, token : Nat]
LoopTypes ==
  [at : {"top", "judge", "probe", "weigh", "sample", "exit"}, now : Nat, seenAt : Nat \cup {NoTime}, token : Nat]
Idle == IF watchdog.pending = <<>> THEN clock ELSE watchdog.toolAt

(* The time the watchdog takes for idle has passed without progress, and it *)
(* is judged at the time the loop has read.                                 *)
WatchInv ==
  /\ WatchdogTypeOK /\ watchdog \in WatchTypes
  /\ loop \in LoopTypes /\ loop.token <= head
  /\ watchdog.pending # <<>> => watchdog.toolSeconds <= watchdog.toolAt
  /\ watchdog.pending = <<>> => watchdog.toolAt = NoTime
  /\ ~watchdog.armed => watchdog.pending = <<>> /\ watchdog.toolSeconds = 0
  /\ watchdog.armed => quiet >= Idle - watchdog.last - watchdog.toolSeconds
  /\ loop.at \in {"judge", "probe", "weigh"} => loop.now = clock
  /\ StallsAreReal

(* The first of a set of numbers.                                           *)
LEMMA FirstIs ==
  ASSUME NEW b \in SUBSET Nat, b # {}
  PROVE  Min(b) \in b
<1> DEFINE R == {p \in Nat \X Nat : p[1] < p[2]}
<1>1. IsWellFoundedOn(R, Nat)
  BY NatLessThanWellFounded DEF OpToRel
<1>2. PICK t \in b : \A u \in b : <<u, t>> \notin R
  <2> HIDE DEF R
  <2> QED BY <1>1, WFMin
<1>3. \A u \in b : t <= u
  <2> SUFFICES ASSUME NEW u \in b, ~(t <= u) PROVE FALSE
    OBVIOUS
  <2>1. <<u, t>> \in R
    OBVIOUS
  <2> QED BY <1>2, <2>1
<1> QED BY <1>3 DEF Min

LEMMA RemoveFirstType ==
  ASSUME NEW S, NEW q \in Seq(S), NEW x
  PROVE  RemoveFirst(q, x) \in Seq(S)
<1>1. CASE ~(\E i \in 1..Len(q) : q[i] = x)
  BY <1>1 DEF RemoveFirst
<1>2. CASE \E i \in 1..Len(q) : q[i] = x
  <2> DEFINE I == {i \in 1..Len(q) : q[i] = x}
             k == Min(I)
  <2>1. I \in SUBSET Nat /\ I # {}
    BY <1>2
  <2>2. k \in 1..Len(q)
    <3>1. k \in I
      <4> HIDE DEF I
      <4> QED BY <2>1, FirstIs
    <3> QED BY <3>1
  <2>3. RemoveFirst(q, x) = SubSeq(q, 1, k - 1) \o SubSeq(q, k + 1, Len(q))
    BY <1>2, <2>1 DEF RemoveFirst, RemoveAt, SelectInSeq
  <2> HIDE DEF k
  <2>4. SubSeq(q, 1, k - 1) \in Seq(S) /\ SubSeq(q, k + 1, Len(q)) \in Seq(S)
    BY <2>2
  <2> QED BY <2>3, <2>4
<1> QED BY <1>1, <1>2

LEMMA LinesAre ==
  ASSUME NEW x \in Lines
  PROVE  /\ x.kind \in {"say", "start", "finish", "error", "done"} /\ x.ok \in BOOLEAN
         /\ Activity(x) => x.what \in Calls \cup {Patch}
         /\ x.kind = "say" => x.what \in Texts
         /\ Fails(x) => x.what \in Calls \cup {Patch, ErrorItem}
         /\ ~(FailsCall(x) /\ FailsStray(x))
         /\ Fails(x) => ~Succeeds(x) /\ x.kind \in {"finish", "error"}
<1>1. /\ x.kind \in {"say", "start", "finish", "error", "done"} /\ x.ok \in BOOLEAN
      /\ x.kind = "say" => x.what \in Texts
      /\ x.kind \in {"start", "finish"} => x.what \in Calls \cup {Patch}
      /\ x.kind = "error" => x.what = ErrorItem
  BY DEF Lines
<1> QED BY <1>1, WatchdogAssumption DEF Activity, Fails, FailsCall, FailsStray, Succeeds

LEMMA PendingType ==
  ASSUME NEW x \in Lines, watchdog \in WatchTypes
  PROVE  Pending(watchdog, x) \in Seq(Calls \cup {Patch})
<1>1. watchdog.pending \in Seq(Calls \cup {Patch})
  BY DEF WatchTypes
<1>2. CASE x.kind = "start"
  <2>1. x.what \in Calls \cup {Patch}
    BY <1>2, LinesAre DEF Activity
  <2>2. Append(watchdog.pending, x.what) \in Seq(Calls \cup {Patch}) /\ Append(watchdog.pending, x.what) # <<>>
    BY <1>1, <2>1
  <2> QED BY <1>2, <2>2 DEF Pending
<1>3. CASE x.kind # "start"
  BY <1>1, <1>3, RemoveFirstType DEF Pending
<1> QED BY <1>2, <1>3

LEMMA StreakType ==
  ASSUME NEW x \in Lines, NEW s \in [what : Calls \cup {Patch, ErrorItem}, count : Nat], NEW f \in BOOLEAN,
         f => Fails(x)
  PROVE  Streak(s, x, f) \in [what : Calls \cup {Patch, ErrorItem}, count : Nat]
BY LinesAre DEF Streak, Tally, NoStreak

(* What one line does to the watchdog, field by field.                      *)
LEMMA AppliedIs ==
  ASSUME NEW x \in Lines, watchdog \in WatchTypes
  PROVE  LET a == Applied(watchdog, x, clock)
             p == Pending(watchdog, x)
             time == Timed(watchdog, x, p, clock) IN
         /\ a.armed = TRUE /\ a.pending = p /\ a.last = time.last /\ a.toolAt = time.toolAt
         /\ a.toolSeconds = time.toolSeconds /\ a.token = watchdog.token
         /\ a.streak = Streak(watchdog.streak, x, FailsCall(x))
         /\ a.stray = Streak(watchdog.stray, x, FailsStray(x))
         /\ a.chars = (IF Activity(x) THEN 0 ELSE IF Fresh(watchdog, x) THEN watchdog.chars + 1 ELSE watchdog.chars)
         /\ a.trip = Trip(watchdog, a.streak, a.stray, a.chars)
         /\ a.done = LastDone(watchdog, x)
         /\ a.recent = (IF Fresh(watchdog, x) THEN watchdog.recent \cup {x.what}
                        ELSE IF Progresses(watchdog, x) THEN {} ELSE watchdog.recent)
         /\ a = [armed |-> a.armed, last |-> a.last, pending |-> a.pending, toolAt |-> a.toolAt,
                 toolSeconds |-> a.toolSeconds, recent |-> a.recent, chars |-> a.chars, done |-> a.done,
                 streak |-> a.streak, stray |-> a.stray, trip |-> a.trip, token |-> a.token]
<1> DEFINE p == Pending(watchdog, x)
           time == Timed(watchdog, x, p, clock)
           streak == Streak(watchdog.streak, x, FailsCall(x))
           stray == Streak(watchdog.stray, x, FailsStray(x))
           chars == IF Activity(x) THEN 0 ELSE IF Fresh(watchdog, x) THEN watchdog.chars + 1 ELSE watchdog.chars
           recent == IF Fresh(watchdog, x) THEN watchdog.recent \cup {x.what}
                     ELSE IF Progresses(watchdog, x) THEN {} ELSE watchdog.recent
<1>1. Applied(watchdog, x, clock) =
        [armed |-> TRUE, last |-> time.last, pending |-> p, toolAt |-> time.toolAt,
         toolSeconds |-> time.toolSeconds, recent |-> recent, chars |-> chars, done |-> LastDone(watchdog, x),
         streak |-> streak, stray |-> stray, trip |-> Trip(watchdog, streak, stray, chars),
         token |-> watchdog.token]
  BY DEF Applied
<1> HIDE DEF p, time, streak, stray, chars, recent
<1> QED BY <1>1 DEF p, time, streak, stray, chars, recent

(* Its clocks: the time inside tools is counted once they have all ended.   *)
LEMMA ClocksAre ==
  ASSUME WatchInv, NEW x \in Lines
  PROVE  LET a == Applied(watchdog, x, clock)
             had == watchdog.pending # <<>>
             has == a.pending # <<>> IN
         /\ Progresses(watchdog, x) =>
              a.last = clock /\ a.toolSeconds = 0 /\ a.toolAt = (IF has THEN clock ELSE NoTime)
         /\ ~Progresses(watchdog, x) =>
              /\ a.last = (IF watchdog.armed THEN watchdog.last ELSE clock)
              /\ had /\ ~has => a.toolSeconds = watchdog.toolSeconds + clock - watchdog.toolAt /\ a.toolAt = NoTime
              /\ had /\ has => a.toolSeconds = watchdog.toolSeconds /\ a.toolAt = watchdog.toolAt
              /\ ~had /\ has => a.toolSeconds = watchdog.toolSeconds /\ a.toolAt = clock
              /\ ~had /\ ~has => a.toolSeconds = watchdog.toolSeconds /\ a.toolAt = watchdog.toolAt
<1> DEFINE a == Applied(watchdog, x, clock)
           p == Pending(watchdog, x)
           time == Timed(watchdog, x, p, clock)
<1>1. /\ a.pending = p /\ a.last = time.last /\ a.toolAt = time.toolAt /\ a.toolSeconds = time.toolSeconds
  BY AppliedIs DEF WatchInv
<1> HIDE DEF a, p
<1>2. QED
  <2>1. a.last = time.last /\ a.toolAt = time.toolAt /\ a.toolSeconds = time.toolSeconds /\ a.pending = p
    BY <1>1
  <2> SUFFICES LET had == watchdog.pending # <<>>
                   has == p # <<>> IN
         /\ Progresses(watchdog, x) =>
              time.last = clock /\ time.toolSeconds = 0 /\ time.toolAt = (IF has THEN clock ELSE NoTime)
         /\ ~Progresses(watchdog, x) =>
              /\ time.last = (IF watchdog.armed THEN watchdog.last ELSE clock)
              /\ had /\ ~has => time.toolSeconds = watchdog.toolSeconds + clock - watchdog.toolAt /\ time.toolAt = NoTime
              /\ had /\ has => time.toolSeconds = watchdog.toolSeconds /\ time.toolAt = watchdog.toolAt
              /\ ~had /\ has => time.toolSeconds = watchdog.toolSeconds /\ time.toolAt = clock
              /\ ~had /\ ~has => time.toolSeconds = watchdog.toolSeconds /\ time.toolAt = watchdog.toolAt
    BY <2>1 DEF a
  <2> QED BY DEF Timed

LEMMA AppliedType ==
  ASSUME WatchInv, NEW x \in Lines
  PROVE  LET a == Applied(watchdog, x, clock) IN
         /\ a \in WatchTypes
         /\ a.last \in 0..clock /\ a.toolSeconds \in 0..clock
         /\ (a.toolAt \in 0..clock) = (a.pending # <<>>)
         /\ a.pending # <<>> => a.toolSeconds <= a.toolAt
         /\ a.pending = <<>> => a.toolAt = NoTime
<1> DEFINE a == Applied(watchdog, x, clock)
<1>0. /\ watchdog \in WatchTypes /\ clock \in Nat /\ watchdog.last \in 0..clock /\ watchdog.toolSeconds \in 0..clock
      /\ (watchdog.toolAt \in 0..clock) = (watchdog.pending # <<>>)
      /\ watchdog.pending # <<>> => watchdog.toolSeconds <= watchdog.toolAt
      /\ watchdog.toolAt \in Nat \cup {NoTime}
  BY DEF WatchInv, WatchdogTypeOK
<1>1. a.last \in 0..clock
  BY <1>0, ClocksAre
<1>2. a.toolSeconds \in 0..clock
  BY <1>0, ClocksAre
<1>3. (a.toolAt \in 0..clock) = (a.pending # <<>>)
  BY <1>0, ClocksAre DEF NoTime
<1>4. a.pending # <<>> => a.toolSeconds <= a.toolAt
  BY <1>0, ClocksAre
<1>13. a.pending = <<>> => a.toolAt = NoTime
  <2>1. watchdog.pending = <<>> => watchdog.toolAt = NoTime
    BY DEF WatchInv
  <2> QED BY <2>1, ClocksAre
<1>5. a.toolAt \in Nat \cup {NoTime}
  BY <1>0, ClocksAre
<1>6. a.pending \in Seq(Calls \cup {Patch})
  BY <1>0, AppliedIs, PendingType
<1>7. a.recent \subseteq Texts /\ a.chars \in Nat /\ a.token \in Nat /\ a.armed \in BOOLEAN
  <2>1. watchdog.recent \subseteq Texts /\ watchdog.chars \in Nat /\ watchdog.token \in Nat
    BY <1>0 DEF WatchTypes
  <2>2. Fresh(watchdog, x) => x.what \in Texts
    BY LinesAre DEF Fresh
  <2>3. a.recent \subseteq Texts
    BY <1>0, <2>1, <2>2, AppliedIs
  <2>4. a.token \in Nat /\ a.armed \in BOOLEAN
    BY <1>0, <2>1, AppliedIs
  <2>5. a.chars = (IF Activity(x) THEN 0 ELSE IF Fresh(watchdog, x) THEN watchdog.chars + 1 ELSE watchdog.chars)
    BY <1>0, AppliedIs
  <2>6. a.chars \in Nat
    <3> HIDE DEF a
    <3> QED BY <2>1, <2>5
  <2> QED BY <2>3, <2>4, <2>6
<1>8. /\ a.streak \in [what : Calls \cup {Patch, ErrorItem}, count : Nat]
      /\ a.stray \in [what : Calls \cup {Patch, ErrorItem}, count : Nat]
  <2>1. FailsCall(x) \in BOOLEAN /\ FailsStray(x) \in BOOLEAN
    BY DEF FailsCall, FailsStray
  <2>2. watchdog.streak \in [what : Calls \cup {Patch, ErrorItem}, count : Nat]
        /\ watchdog.stray \in [what : Calls \cup {Patch, ErrorItem}, count : Nat]
    BY <1>0 DEF WatchTypes
  <2>3. Streak(watchdog.streak, x, FailsCall(x)) \in [what : Calls \cup {Patch, ErrorItem}, count : Nat]
    BY <2>1, <2>2, StreakType DEF Fails
  <2>4. Streak(watchdog.stray, x, FailsStray(x)) \in [what : Calls \cup {Patch, ErrorItem}, count : Nat]
    BY <2>1, <2>2, StreakType DEF Fails
  <2> QED BY <1>0, <2>3, <2>4, AppliedIs
<1>9. a.done \in [what : Calls \cup {ErrorItem}, ok : BOOLEAN]
  <2>1. watchdog.done \in [what : Calls \cup {ErrorItem}, ok : BOOLEAN]
    BY <1>0 DEF WatchTypes
  <2>2. x.ok \in BOOLEAN
    BY LinesAre
  <2>3. LastDone(watchdog, x) \in [what : Calls \cup {ErrorItem}, ok : BOOLEAN]
    BY <2>1, <2>2 DEF LastDone, NoCall
  <2> QED BY <1>0, <2>3, AppliedIs
<1>10. a.trip \in {"none", "failing", "runaway"}
  BY <1>0, AppliedIs DEF Trip, WatchTypes
<1>11. a = [armed |-> a.armed, last |-> a.last, pending |-> a.pending, toolAt |-> a.toolAt,
            toolSeconds |-> a.toolSeconds, recent |-> a.recent, chars |-> a.chars, done |-> a.done,
            streak |-> a.streak, stray |-> a.stray, trip |-> a.trip, token |-> a.token]
  BY <1>0, AppliedIs
<1>12. a \in WatchTypes
  <2>1. a.last \in Nat /\ a.toolSeconds \in Nat
    BY <1>0, <1>1, <1>2
  <2> HIDE DEF a
  <2> QED BY <2>1, <1>5, <1>6, <1>7, <1>8, <1>9, <1>10, <1>11 DEF WatchTypes
<1> QED BY <1>1, <1>2, <1>3, <1>4, <1>12, <1>13

LEMMA SessionIs ==
  ASSUME WatchdogTypeOK
  PROVE  session.lines \subseteq Lines /\ session.commits \in Nat
BY SessionAssumption DEF WatchdogTypeOK

LEMMA WatchStart ==
  ASSUME WatchdogInit
  PROVE  WatchInv
<1>1. NewWatchdog \in WatchTypes
  BY DEF NewWatchdog, NoCall, NoStreak, WatchTypes
<1>2. WatchdogTypeOK
  <2>1. session \in Sessions /\ session.commits \in Nat
    BY SessionAssumption DEF WatchdogInit
  <2> QED BY <2>1 DEF WatchdogInit, NewWatchdog, NoTime, WatchdogTypeOK
<1>3. loop \in LoopTypes /\ loop.token <= head
  BY DEF WatchdogInit, LoopTypes
<1> QED BY <1>1, <1>2, <1>3 DEF WatchdogInit, NewWatchdog, WatchInv, StallsAreReal

LEMMA ObserveKeeps ==
  ASSUME WatchInv, Observe
  PROVE  WatchInv'
<1>0. WatchdogTypeOK
  BY DEF WatchInv
<1>1. PICK x \in session.lines :
        /\ watchdog' = Applied(watchdog, x, clock)
        /\ quiet' = IF Progresses(watchdog, x) \/ ~watchdog.armed THEN 0 ELSE quiet
        /\ terminal' = IF x.kind = "done" THEN "read" ELSE terminal
        /\ seen' = Append(seen, x)
  BY DEF Observe
<1>2. stopped = "no" /\ UNCHANGED <<clock, loop, stopped, process, head, session>>
  BY DEF Observe
<1>3. x \in Lines
  BY <1>0, SessionIs
<1>4. /\ watchdog' \in WatchTypes /\ watchdog'.last \in 0..clock /\ watchdog'.toolSeconds \in 0..clock
      /\ (watchdog'.toolAt \in 0..clock) = (watchdog'.pending # <<>>)
      /\ watchdog'.pending # <<>> => watchdog'.toolSeconds <= watchdog'.toolAt
      /\ watchdog'.pending = <<>> => watchdog'.toolAt = NoTime
  BY <1>1, <1>3, AppliedType
<1>5. watchdog'.armed = TRUE /\ watchdog'.token = watchdog.token
  BY <1>1, <1>3, AppliedIs DEF WatchInv
<1>6. clock \in Nat /\ quiet \in 0..clock /\ seen \in Seq(Lines)
  BY <1>0 DEF WatchdogTypeOK
<1>7. WatchdogTypeOK'
  <2>1. seen' \in Seq(Lines) /\ quiet' \in 0..clock /\ terminal' \in {"no", "read", "set"}
    BY <1>0, <1>1, <1>3, <1>6 DEF WatchdogTypeOK
  <2>2. watchdog'.pending \in Seq(Calls \cup {Patch}) /\ watchdog'.recent \subseteq Texts
        /\ watchdog'.trip \in {"none", "failing", "runaway"}
    BY <1>4 DEF WatchTypes
  <2> QED BY <1>0, <1>2, <1>4, <1>5, <2>1, <2>2 DEF WatchdogTypeOK
<1>8. quiet' >= Idle' - watchdog'.last - watchdog'.toolSeconds
  <2>1. /\ watchdog.last \in 0..clock /\ watchdog.toolSeconds \in 0..clock /\ watchdog.armed \in BOOLEAN
        /\ watchdog.pending # <<>> => watchdog.toolAt \in 0..clock
    BY <1>0 DEF WatchInv, WatchdogTypeOK, WatchTypes
  <2>2. /\ watchdog.armed => quiet >= Idle - watchdog.last - watchdog.toolSeconds
        /\ ~watchdog.armed => watchdog.pending = <<>> /\ watchdog.toolSeconds = 0
    BY DEF WatchInv
  <2>3. CASE Progresses(watchdog, x)
    BY <1>1, <1>2, <1>3, <1>6, <2>3, ClocksAre DEF Idle
  <2>4. CASE ~Progresses(watchdog, x) /\ ~watchdog.armed
    BY <1>1, <1>2, <1>3, <1>6, <2>2, <2>4, ClocksAre DEF Idle
  <2>5. CASE ~Progresses(watchdog, x) /\ watchdog.armed
    <3>1. watchdog'.last = watchdog.last /\ quiet' = quiet /\ clock' = clock
      BY <1>1, <1>2, <1>3, <2>5, ClocksAre
    <3>2. CASE watchdog.pending # <<>> /\ watchdog'.pending = <<>>
      BY <1>1, <1>2, <1>3, <1>6, <2>1, <2>2, <2>5, <3>1, <3>2, ClocksAre DEF Idle
    <3>3. CASE watchdog.pending # <<>> /\ watchdog'.pending # <<>>
      BY <1>1, <1>2, <1>3, <1>6, <2>1, <2>2, <2>5, <3>1, <3>3, ClocksAre DEF Idle
    <3>4. CASE watchdog.pending = <<>> /\ watchdog'.pending # <<>>
      BY <1>1, <1>2, <1>3, <1>6, <2>1, <2>2, <2>5, <3>1, <3>4, ClocksAre DEF Idle
    <3>5. CASE watchdog.pending = <<>> /\ watchdog'.pending = <<>>
      BY <1>1, <1>2, <1>3, <1>6, <2>1, <2>2, <2>5, <3>1, <3>5, ClocksAre DEF Idle
    <3> QED BY <3>2, <3>3, <3>4, <3>5
  <2> QED BY <2>3, <2>4, <2>5
<1> QED BY <1>2, <1>4, <1>5, <1>7, <1>8 DEF WatchInv, LoopTypes, StallsAreReal

(* The loop's own steps: only a commit moves the watchdog.                  *)
LEMMA LoopKeeps ==
  ASSUME WatchInv, Loops
  PROVE  WatchInv'
<1>0. /\ WatchdogTypeOK /\ loop \in LoopTypes /\ watchdog \in WatchTypes
      /\ clock \in Nat /\ head \in Nat /\ quiet \in 0..clock /\ loop.now \in 0..clock
      /\ watchdog.last \in 0..clock /\ watchdog.toolSeconds \in 0..clock /\ watchdog.token \in 0..head
      /\ watchdog.pending # <<>> => watchdog.toolAt \in 0..clock
      /\ loop.token <= head /\ loop.token \in Nat
  BY DEF WatchInv, WatchdogTypeOK, LoopTypes
<1>1. /\ stopped = "no" /\ UNCHANGED <<clock, terminal, process, head, seen, session>>
  BY DEF Loops, LoopReads, LoopJudges, LoopProbes, LoopWeighs, LoopConfirms, LoopPolls
<1>2. ASSUME UNCHANGED <<watchdog, quiet>>, loop' \in LoopTypes, loop'.token <= head, loop'.now \in 0..clock,
             loop'.at \in {"judge", "probe", "weigh"} => loop'.now = clock,
             stopped' \in {"no", "completed", "stalled", "exited"}, StallsAreReal'
      PROVE  WatchInv'
  <2>1. WatchdogTypeOK'
    BY <1>0, <1>1, <1>2 DEF WatchdogTypeOK, LoopTypes
  <2> QED BY <1>1, <1>2, <2>1 DEF WatchInv, Idle, WatchTypes
<1>3. CASE LoopReads
  <2> DEFINE since == IF terminal # "set" THEN NoTime ELSE IF loop.seenAt = NoTime THEN clock ELSE loop.seenAt
  <2>1. /\ loop' = [loop EXCEPT !.at = "judge", !.now = clock, !.seenAt = since]
        /\ stopped' \in {"no", "completed"} /\ UNCHANGED <<watchdog, quiet>>
    BY <1>3 DEF LoopReads
  <2>2. since \in Nat \cup {NoTime}
    BY <1>0 DEF LoopTypes
  <2> HIDE DEF since
  <2>3. loop' \in LoopTypes /\ loop'.at = "judge" /\ loop'.now = clock /\ loop'.token = loop.token
    BY <1>0, <2>1, <2>2 DEF LoopTypes
  <2>4. StallsAreReal'
    BY <2>1 DEF StallsAreReal
  <2> QED BY <1>0, <1>2, <2>1, <2>3, <2>4
<1>4. CASE LoopJudges
  BY <1>0, <1>1, <1>2, <1>4 DEF LoopJudges, LoopTypes, StallsAreReal, WatchInv
<1>5. CASE LoopProbes
  <2>1. PICK token \in {head, watchdog.token} : loop' = [loop EXCEPT !.at = "weigh", !.token = token]
    BY <1>5 DEF LoopProbes
  <2>2. stopped' = "no" /\ UNCHANGED <<watchdog, quiet>> /\ loop.now = clock
    BY <1>5 DEF LoopProbes, WatchInv
  <2>3. token \in Nat /\ token <= head
    BY <1>0
  <2>4. loop' \in LoopTypes /\ loop'.at = "weigh" /\ loop'.now = loop.now /\ loop'.token = token
    BY <1>0, <2>1, <2>3 DEF LoopTypes
  <2> QED BY <1>0, <1>2, <2>2, <2>3, <2>4 DEF StallsAreReal
<1>6. CASE LoopWeighs
  <2>1. CASE loop.token # watchdog.token
    <3>1. /\ watchdog' = [watchdog EXCEPT !.token = loop.token, !.toolSeconds = 0, !.recent = {},
                            !.last = IF loop.now > watchdog.last THEN loop.now ELSE watchdog.last]
          /\ quiet' = 0 /\ loop' = [loop EXCEPT !.at = "exit"] /\ stopped' = "no"
      BY <1>0, <1>6, <2>1 DEF LoopWeighs, WatchTypes
    <3>2. loop.now = clock
      BY <1>6 DEF LoopWeighs, WatchInv
    <3>3. watchdog' = [watchdog EXCEPT !.token = loop.token, !.toolSeconds = 0, !.recent = {}, !.last = clock]
      <4>1. (IF loop.now > watchdog.last THEN loop.now ELSE watchdog.last) = clock
        BY <1>0, <3>2
      <4> QED BY <3>1, <4>1
    <3>4. /\ watchdog' \in WatchTypes /\ watchdog'.last = clock /\ watchdog'.toolSeconds = 0
          /\ watchdog'.pending = watchdog.pending /\ watchdog'.toolAt = watchdog.toolAt
          /\ watchdog'.token = loop.token /\ watchdog'.recent = {} /\ watchdog'.trip = watchdog.trip
          /\ watchdog'.armed = watchdog.armed
      BY <1>0, <3>3 DEF WatchTypes
    <3>5. WatchdogTypeOK'
      BY <1>0, <1>1, <3>1, <3>4 DEF WatchdogTypeOK, LoopTypes
    <3> QED BY <1>0, <1>1, <3>1, <3>4, <3>5 DEF WatchInv, Idle, LoopTypes, StallsAreReal
  <2>2. CASE loop.token = watchdog.token
    BY <1>0, <1>1, <1>2, <1>6, <2>2 DEF LoopWeighs, LoopTypes, StallsAreReal
  <2> QED BY <2>1, <2>2
<1>7. CASE LoopConfirms
  <2>1. StallsAreReal'
    <3> SUFFICES ASSUME stopped' = "stalled"
                 PROVE  terminal # "set" /\ (watchdog.trip # "none" \/ (watchdog.pending = <<>> /\ quiet >= StallSeconds))
      BY <1>1, <1>7 DEF LoopConfirms, StallsAreReal
    <3>1. terminal # "set" /\ Stalled(watchdog, clock)
      BY <1>7 DEF LoopConfirms
    <3>2. StallSeconds \in Nat
      BY WatchdogAssumption DEF Limits
    <3> QED BY <1>0, <3>1, <3>2 DEF Stalled, WatchInv, Idle
  <2> QED BY <1>0, <1>1, <1>2, <1>7, <2>1 DEF LoopConfirms, LoopTypes
<1>8. CASE LoopPolls
  BY <1>0, <1>1, <1>2, <1>8 DEF LoopPolls, LoopTypes, StallsAreReal, WatchInv
<1> QED BY <1>3, <1>4, <1>5, <1>6, <1>7, <1>8 DEF Loops

LEMMA OthersKeepWatch ==
  ASSUME WatchInv, SetTerminal \/ Commit \/ ChildExits \/ Tick \/ UNCHANGED watchdogVars
  PROVE  WatchInv'
<1>0. /\ WatchdogTypeOK /\ loop \in LoopTypes /\ watchdog \in WatchTypes /\ session.commits \in Nat
      /\ clock \in Nat /\ head \in Nat /\ quiet \in 0..clock
      /\ watchdog.last \in 0..clock /\ watchdog.toolSeconds \in 0..clock
      /\ (watchdog.toolAt \in 0..clock) = (watchdog.pending # <<>>)
      /\ watchdog.toolAt \in Nat \cup {NoTime} /\ loop.token \in Nat
  BY SessionIs DEF WatchInv, WatchdogTypeOK, LoopTypes
<1>1. CASE SetTerminal
  BY <1>0, <1>1 DEF SetTerminal, WatchInv, WatchdogTypeOK, Idle, StallsAreReal
<1>2. CASE Commit
  BY <1>0, <1>2 DEF Commit, WatchInv, WatchdogTypeOK, Idle, StallsAreReal
<1>3. CASE ChildExits
  BY <1>0, <1>3 DEF ChildExits, WatchInv, WatchdogTypeOK, Idle, StallsAreReal
<1>4. CASE Tick
  <2>1. /\ stopped = "no" /\ loop.at \in {"top", "sample"} /\ clock' = clock + 1
        /\ quiet' = IF watchdog.armed /\ watchdog.pending = <<>> THEN quiet + 1 ELSE quiet
        /\ UNCHANGED <<watchdog, terminal, loop, stopped, process, head, seen, session>>
    BY <1>4 DEF Tick
  <2>2. (watchdog.toolAt \in 0..clock + 1) = (watchdog.pending # <<>>)
    <3>1. watchdog.pending = <<>> => watchdog.toolAt = NoTime
      BY DEF WatchInv
    <3> QED BY <1>0, <3>1 DEF NoTime
  <2>3. /\ clock' \in Nat /\ quiet' \in 0..clock' /\ watchdog.last \in 0..clock'
        /\ watchdog.toolSeconds \in 0..clock' /\ loop.now \in 0..clock'
    BY <1>0, <2>1 DEF WatchdogTypeOK
  <2>4. WatchdogTypeOK'
    BY <1>0, <2>1, <2>2, <2>3 DEF WatchdogTypeOK
  <2>5. watchdog.armed => quiet' >= Idle' - watchdog.last - watchdog.toolSeconds
    BY <1>0, <2>1 DEF WatchInv, Idle
  <2>6. watchdog' \in WatchTypes /\ loop' \in LoopTypes /\ StallsAreReal'
    BY <1>0, <2>1 DEF StallsAreReal
  <2> QED BY <1>0, <2>1, <2>4, <2>5, <2>6 DEF WatchInv
<1>5. CASE UNCHANGED watchdogVars
  BY <1>5 DEF watchdogVars, WatchInv, WatchdogTypeOK, Idle, StallsAreReal
<1> QED BY <1>1, <1>2, <1>3, <1>4, <1>5

LEMMA WatchStep == WatchInv /\ [WatchdogNext]_watchdogVars => WatchInv'
  BY ObserveKeeps, LoopKeeps, OthersKeepWatch DEF WatchdogNext

LEMMA WatchInvariant == WatchdogSpec => []WatchInv
BY WatchStart, WatchStep, PTL DEF WatchdogSpec

(* Every variable of the watchdog and its loop has its type.                *)
THEOREM WatchdogTypes == WatchdogSpec => []WatchdogTypeOK
<1>1. WatchInv => WatchdogTypeOK
  BY DEF WatchInv
<1> QED BY <1>1, WatchInvariant, PTL

(* Whoever is signalled as stalled is: a detector has tripped or the whole  *)
(* window passed without progress or a tool.                                *)
THEOREM SignalledChildrenStalled == WatchdogSpec => []StallsAreReal
<1>1. WatchInv => StallsAreReal
  BY DEF WatchInv
<1> QED BY <1>1, WatchInvariant, PTL

-----------------------------------------------------------------------------
(* What the detectors count of the lines.                                   *)

OfSort(x, calls) == IF calls THEN FailsCall(x) ELSE FailsStray(x)
Streaks == [what : Calls \cup {Patch, ErrorItem}, count : Nat]

(* A streak is the longest run of failures of its sort that ends now.       *)
Counted(lines, s, calls) ==
  /\ s.count # 0 => \E i \in 1..Len(lines) :
       /\ OfSort(lines[i], calls) /\ lines[i].what = s.what /\ Unbroken(lines, i, Len(lines))
       /\ Cardinality(FailuresLike(lines, i, Len(lines))) = s.count
  /\ \A i \in 1..Len(lines) :
       OfSort(lines[i], calls) /\ Unbroken(lines, i, Len(lines))
       => lines[i].what = s.what /\ Cardinality(FailuresLike(lines, i, Len(lines))) <= s.count
Talked(lines, chars) ==
  \E i \in 1..(Len(lines) + 1) : /\ \A k \in i..Len(lines) : ~Activity(lines[k])
                                 /\ Cardinality(Said(lines, i, Len(lines))) >= chars
TripInv ==
  /\ Counted(seen, watchdog.streak, TRUE) /\ Counted(seen, watchdog.stray, FALSE)
  /\ Talked(seen, watchdog.chars) /\ TripsAreEarned

LEMMA SortIs ==
  ASSUME NEW x \in Lines, NEW y \in Lines, Fails(x), Fails(y), x.what = y.what
  PROVE  SameSort(x, y)
<1>1. \A z \in Lines : Fails(z) => (FailsCall(z) <=> z.what \in Calls)
  <2>1. \A z \in Lines : z.kind = "error" => z.what = ErrorItem
    BY DEF Lines
  <2> QED BY <2>1, WatchdogAssumption DEF Fails, FailsCall, FailsStray
<1> QED BY <1>1 DEF SameSort, FailsCall

LEMMA WindowsAreFinite ==
  ASSUME NEW lines, NEW i \in Nat, NEW j \in Nat
  PROVE  /\ IsFiniteSet(FailuresLike(lines, i, j)) /\ Cardinality(FailuresLike(lines, i, j)) \in Nat
         /\ IsFiniteSet(Said(lines, i, j)) /\ Cardinality(Said(lines, i, j)) \in Nat
<1>1. IsFiniteSet(i..j)
  BY FS_Interval
<1>2. FailuresLike(lines, i, j) \subseteq i..j /\ Said(lines, i, j) \subseteq i..j
  BY DEF FailuresLike, Said
<1> QED BY <1>1, <1>2, FS_Subset, FS_CardinalityType

(* What one more line makes of a window.                                    *)
LEMMA OldWindows ==
  ASSUME NEW q \in Seq(Lines), NEW x \in Lines, NEW i \in 1..Len(q), NEW j \in 1..Len(q)
  PROVE  LET p == Append(q, x) IN
         /\ p[i] = q[i] /\ FailuresLike(p, i, j) = FailuresLike(q, i, j) /\ Said(p, i, j) = Said(q, i, j)
         /\ Unbroken(p, i, j) <=> Unbroken(q, i, j)
         /\ FailsOver(p, i, j) <=> FailsOver(q, i, j)
         /\ RunsOver(q, i, j) => RunsOver(p, i, j)
<1> DEFINE p == Append(q, x)
<1>1. p[i] = q[i] /\ \A k \in i..j : p[k] = q[k]
  OBVIOUS
<1> HIDE DEF p
<1>2. FailuresLike(p, i, j) = FailuresLike(q, i, j) /\ Said(p, i, j) = Said(q, i, j)
  BY <1>1 DEF FailuresLike, Said
<1>3. Unbroken(p, i, j) <=> Unbroken(q, i, j)
  BY <1>1 DEF Unbroken
<1>4. (\A k \in i..j : ~Activity(q[k])) => \A k \in i..j : ~Activity(p[k])
  BY <1>1
<1>5. FailsOver(p, i, j) <=> FailsOver(q, i, j)
  BY <1>1, <1>2, <1>3 DEF FailsOver
<1>6. RunsOver(q, i, j) => RunsOver(p, i, j)
  BY <1>2, <1>4 DEF RunsOver
<1> QED BY <1>1, <1>2, <1>3, <1>5, <1>6 DEF p

LEMMA WindowGrows ==
  ASSUME NEW q \in Seq(Lines), NEW x \in Lines, NEW i \in 1..Len(q)
  PROVE  LET p == Append(q, x)
             n == Len(q) IN
         /\ Fails(x) /\ x.what = q[i].what =>
              Cardinality(FailuresLike(p, i, n + 1)) = Cardinality(FailuresLike(q, i, n)) + 1
         /\ ~(Fails(x) /\ x.what = q[i].what) => FailuresLike(p, i, n + 1) = FailuresLike(q, i, n)
         /\ Unbroken(p, i, n + 1) <=>
              /\ Unbroken(q, i, n) /\ ~Succeeds(x) /\ (SameSort(x, q[i]) => x.what = q[i].what)
<1> DEFINE p == Append(q, x)
           n == Len(q)
<1>1. /\ n \in Nat /\ n + 1 \in Nat /\ i \in Nat /\ p[i] = q[i] /\ p[n + 1] = x /\ \A k \in i..n : p[k] = q[k]
      /\ i..(n + 1) = (i..n) \cup {n + 1} /\ n + 1 \notin i..n
  OBVIOUS
<1> HIDE DEF p, n
<1>2. Unbroken(p, i, n + 1) <=>
        /\ Unbroken(q, i, n) /\ ~Succeeds(x) /\ (SameSort(x, q[i]) => x.what = q[i].what)
  BY <1>1 DEF Unbroken
<1>3. ~(Fails(x) /\ x.what = q[i].what) => FailuresLike(p, i, n + 1) = FailuresLike(q, i, n)
  BY <1>1 DEF FailuresLike
<1>4. ASSUME Fails(x), x.what = q[i].what
      PROVE  Cardinality(FailuresLike(p, i, n + 1)) = Cardinality(FailuresLike(q, i, n)) + 1
  <2>1. FailuresLike(p, i, n + 1) = FailuresLike(q, i, n) \cup {n + 1} /\ n + 1 \notin FailuresLike(q, i, n)
    BY <1>1, <1>4 DEF FailuresLike
  <2> QED BY <1>1, <2>1, WindowsAreFinite, FS_AddElement
<1> QED BY <1>2, <1>3, <1>4 DEF p, n

LEMMA WindowStarts ==
  ASSUME NEW q \in Seq(Lines), NEW x \in Lines, Fails(x)
  PROVE  LET p == Append(q, x)
             n == Len(q) IN
         /\ p[n + 1] = x /\ Cardinality(FailuresLike(p, n + 1, n + 1)) = 1 /\ Unbroken(p, n + 1, n + 1)
<1> DEFINE p == Append(q, x)
           n == Len(q)
<1>1. p[n + 1] = x /\ (n + 1)..(n + 1) = {n + 1}
  OBVIOUS
<1>2. FailuresLike(p, n + 1, n + 1) = {n + 1}
  <2> HIDE DEF p, n
  <2> QED BY <1>1 DEF FailuresLike
<1>3. Unbroken(p, n + 1, n + 1)
  <2>1. ~Succeeds(x)
    BY LinesAre
  <2> HIDE DEF p, n
  <2> QED BY <1>1, <2>1 DEF Unbroken
<1> QED BY <1>1, <1>2, <1>3, FS_Singleton

LEMMA CountedStep ==
  ASSUME NEW q \in Seq(Lines), NEW x \in Lines, NEW s \in Streaks, NEW calls \in BOOLEAN, Counted(q, s, calls)
  PROVE  Counted(Append(q, x), Streak(s, x, OfSort(x, calls)), calls)
<1> DEFINE p == Append(q, x)
           n == Len(q)
           t == Streak(s, x, OfSort(x, calls))
<1>1. /\ Len(p) = n + 1 /\ n \in Nat /\ p[n + 1] = x /\ \A i \in 1..n : p[i] = q[i] /\ q[i] \in Lines
      /\ \A i \in 1..(n + 1) : i = n + 1 \/ i \in 1..n
  OBVIOUS
<1>2. s.count \in Nat /\ \A i \in 1..n : Cardinality(FailuresLike(q, i, n)) \in Nat
  BY <1>1, WindowsAreFinite DEF Streaks
<1>3. \A y \in Lines : OfSort(y, calls) => Fails(y)
  BY DEF OfSort, Fails
<1>4. \A i \in 1..n : OfSort(q[i], calls) => (SameSort(x, q[i]) <=> OfSort(x, calls))
  <2> SUFFICES ASSUME NEW i \in 1..n, OfSort(q[i], calls)
               PROVE  SameSort(x, q[i]) <=> OfSort(x, calls)
    OBVIOUS
  <2>1. q[i] \in Lines
    BY <1>1
  <2>2. ~(FailsCall(x) /\ FailsStray(x)) /\ ~(FailsCall(q[i]) /\ FailsStray(q[i]))
    BY <2>1, LinesAre
  <2>3. /\ FailsCall(x) \in BOOLEAN /\ FailsCall(q[i]) \in BOOLEAN
    BY DEF FailsCall
  <2> QED BY <2>2, <2>3 DEF SameSort, OfSort, Fails
<1>5. \A i \in 1..n : OfSort(q[i], calls) /\ Fails(x) /\ x.what = q[i].what => OfSort(x, calls)
  BY <1>1, <1>3, <1>4, SortIs
<1> HIDE DEF p, n, t
<1>6. CASE Succeeds(x)
  <2>1. t.count = 0
    BY <1>6 DEF t, Streak, NoStreak
  <2>2. \A i \in 1..(n + 1) : ~Unbroken(p, i, n + 1)
    BY <1>1, <1>6 DEF Unbroken
  <2> QED BY <1>1, <2>1, <2>2 DEF Counted, p, t
<1>7. CASE OfSort(x, calls) /\ ~Succeeds(x)
  <2>1. t.what = x.what /\ t.count = (IF s.what = x.what THEN s.count + 1 ELSE 1)
    BY <1>7 DEF t, Streak, Tally
  <2>2. Fails(x) /\ Cardinality(FailuresLike(p, n + 1, n + 1)) = 1 /\ Unbroken(p, n + 1, n + 1)
    BY <1>3, <1>7, WindowStarts DEF p, n
  <2>3. \A i \in 1..n : OfSort(q[i], calls) /\ Unbroken(p, i, n + 1) => Unbroken(q, i, n) /\ x.what = q[i].what
    BY <1>4, <1>7, WindowGrows DEF p, n
  <2>4. \A i \in 1..n : Unbroken(q, i, n) /\ x.what = q[i].what =>
          Unbroken(p, i, n + 1) /\ Cardinality(FailuresLike(p, i, n + 1)) = Cardinality(FailuresLike(q, i, n)) + 1
    BY <1>7, <2>2, WindowGrows DEF p, n
  <2>5. \E i \in 1..(n + 1) : /\ OfSort(p[i], calls) /\ p[i].what = t.what /\ Unbroken(p, i, n + 1)
                              /\ Cardinality(FailuresLike(p, i, n + 1)) = t.count
    <3>1. CASE s.what = x.what /\ s.count # 0
      <4>1. PICK i \in 1..n : /\ OfSort(q[i], calls) /\ q[i].what = s.what /\ Unbroken(q, i, n)
                              /\ Cardinality(FailuresLike(q, i, n)) = s.count
        BY <3>1 DEF Counted, n
      <4> QED BY <1>1, <2>1, <2>4, <3>1, <4>1
    <3>2. CASE ~(s.what = x.what /\ s.count # 0)
      <4>1. t.count = 1
        BY <1>2, <2>1, <3>2
      <4> QED BY <1>1, <1>7, <2>1, <2>2, <4>1
    <3> QED BY <3>1, <3>2
  <2>6. ASSUME NEW i \in 1..(n + 1), OfSort(p[i], calls), Unbroken(p, i, n + 1)
        PROVE  p[i].what = t.what /\ Cardinality(FailuresLike(p, i, n + 1)) <= t.count
    <3>1. CASE i = n + 1
      BY <1>1, <1>2, <2>1, <2>2, <3>1
    <3>2. CASE i \in 1..n
      <4>1. p[i] = q[i] /\ Unbroken(q, i, n) /\ x.what = q[i].what
        BY <1>1, <2>3, <2>6, <3>2
      <4>2. q[i].what = s.what /\ Cardinality(FailuresLike(q, i, n)) <= s.count
        BY <2>6, <3>2, <4>1 DEF Counted, n
      <4> QED BY <1>2, <2>1, <2>4, <3>2, <4>1, <4>2
    <3> QED BY <1>1, <3>1, <3>2
  <2> QED BY <1>1, <2>5, <2>6 DEF Counted, p, t
<1>8. CASE ~OfSort(x, calls) /\ ~Succeeds(x)
  <2>1. t = s
    BY <1>8 DEF t, Streak
  <2>2. \A i \in 1..n : OfSort(q[i], calls) =>
          /\ Unbroken(p, i, n + 1) <=> Unbroken(q, i, n)
          /\ FailuresLike(p, i, n + 1) = FailuresLike(q, i, n)
    BY <1>4, <1>5, <1>8, WindowGrows DEF p, n
  <2>3. s.count # 0 => \E i \in 1..(n + 1) :
          /\ OfSort(p[i], calls) /\ p[i].what = s.what /\ Unbroken(p, i, n + 1)
          /\ Cardinality(FailuresLike(p, i, n + 1)) = s.count
    <3> SUFFICES ASSUME s.count # 0
                 PROVE  \E i \in 1..(n + 1) :
                          /\ OfSort(p[i], calls) /\ p[i].what = s.what /\ Unbroken(p, i, n + 1)
                          /\ Cardinality(FailuresLike(p, i, n + 1)) = s.count
      OBVIOUS
    <3>1. PICK i \in 1..n : /\ OfSort(q[i], calls) /\ q[i].what = s.what /\ Unbroken(q, i, n)
                            /\ Cardinality(FailuresLike(q, i, n)) = s.count
      BY DEF Counted, n
    <3> QED BY <1>1, <2>2, <3>1
  <2>4. ASSUME NEW i \in 1..(n + 1), OfSort(p[i], calls), Unbroken(p, i, n + 1)
        PROVE  p[i].what = s.what /\ Cardinality(FailuresLike(p, i, n + 1)) <= s.count
    <3>1. i \in 1..n /\ p[i] = q[i]
      BY <1>1, <1>8, <2>4
    <3> QED BY <2>2, <2>4, <3>1 DEF Counted, n
  <2> QED BY <1>1, <2>1, <2>3, <2>4 DEF Counted, p, t
<1> QED BY <1>6, <1>7, <1>8 DEF p, t

LEMMA TalkedStep ==
  ASSUME NEW q \in Seq(Lines), NEW x \in Lines, NEW c \in Nat, NEW d \in Nat, Talked(q, c),
         d = 0 \/ (~Activity(x) /\ (d = c \/ (x.kind = "say" /\ d = c + 1)))
  PROVE  Talked(Append(q, x), d)
<1> DEFINE p == Append(q, x)
           n == Len(q)
<1>1. Len(p) = n + 1 /\ n \in Nat /\ p[n + 1] = x
  OBVIOUS
<1>2. CASE d = 0
  <2>1. n + 2 \in 1..(n + 2) /\ (n + 2)..(n + 1) = {} /\ n + 2 \in Nat
    BY <1>1
  <2>2. Cardinality(Said(p, n + 2, n + 1)) >= 0
    BY <1>1, <2>1, WindowsAreFinite
  <2> HIDE DEF p, n
  <2>3. \A k \in (n + 2)..(n + 1) : ~Activity(p[k])
    BY <2>1
  <2>4. n + 2 = Len(p) + 1
    BY <1>1
  <2> QED BY <1>1, <1>2, <2>1, <2>2, <2>3, <2>4 DEF Talked, p
<1>3. CASE ~Activity(x) /\ (d = c \/ (x.kind = "say" /\ d = c + 1))
  <2>1. PICK i \in 1..(n + 1) : (\A k \in i..n : ~Activity(q[k])) /\ Cardinality(Said(q, i, n)) >= c
    BY DEF Talked
  <2>2. /\ i..(n + 1) = (i..n) \cup {n + 1} /\ n + 1 \notin i..n /\ \A k \in i..n : p[k] = q[k]
        /\ i \in Nat /\ n + 1 \in Nat /\ i \in 1..(n + 2)
    BY <1>1
  <2> HIDE DEF p, n
  <2>3. \A k \in i..(n + 1) : ~Activity(p[k])
    BY <1>1, <1>3, <2>1, <2>2
  <2>4. /\ IsFiniteSet(Said(q, i, n)) /\ Cardinality(Said(q, i, n)) \in Nat
        /\ Cardinality(Said(p, i, n + 1)) \in Nat
    BY <1>1, <2>2, WindowsAreFinite
  <2>5. Cardinality(Said(p, i, n + 1)) >= d
    <3>1. CASE x.kind = "say"
      <4>1. Said(p, i, n + 1) = Said(q, i, n) \cup {n + 1} /\ n + 1 \notin Said(q, i, n)
        BY <1>1, <2>2, <3>1 DEF Said
      <4>2. Cardinality(Said(p, i, n + 1)) = Cardinality(Said(q, i, n)) + 1
        BY <2>4, <4>1, FS_AddElement
      <4> QED BY <1>3, <2>1, <2>4, <4>2
    <3>2. CASE x.kind # "say"
      <4>1. Said(p, i, n + 1) = Said(q, i, n)
        BY <1>1, <2>2, <3>2 DEF Said
      <4> QED BY <1>3, <2>1, <3>2, <4>1
    <3> QED BY <3>1, <3>2
  <2>6. Len(p) + 1 = n + 2
    BY <1>1
  <2> QED BY <1>1, <2>2, <2>3, <2>5, <2>6 DEF Talked, p
<1> QED BY <1>2, <1>3

LEMMA ObserveTrips ==
  ASSUME WatchInv, TripInv, Observe
  PROVE  TripInv'
<1>0. /\ watchdog \in WatchTypes /\ seen \in Seq(Lines) /\ FailureLimit \in Nat \ {0} /\ OutputLimit \in Nat
      /\ watchdog.streak \in Streaks /\ watchdog.stray \in Streaks /\ watchdog.chars \in Nat
      /\ watchdog.trip \in {"none", "failing", "runaway"}
  BY WatchdogAssumption DEF WatchInv, WatchdogTypeOK, WatchTypes, Streaks, Limits
<1>1. PICK x \in session.lines : watchdog' = Applied(watchdog, x, clock) /\ seen' = Append(seen, x)
  BY DEF Observe
<1>2. x \in Lines
  BY SessionIs DEF WatchInv
<1> DEFINE n == Len(seen)
           w == watchdog'
<1>3. /\ w.streak = Streak(watchdog.streak, x, OfSort(x, TRUE))
      /\ w.stray = Streak(watchdog.stray, x, OfSort(x, FALSE))
      /\ w.chars = (IF Activity(x) THEN 0 ELSE IF Fresh(watchdog, x) THEN watchdog.chars + 1 ELSE watchdog.chars)
      /\ w.trip = Trip(watchdog, w.streak, w.stray, w.chars)
  BY <1>0, <1>1, <1>2, AppliedIs DEF OfSort
<1> HIDE DEF w
<1>4. Counted(seen', w.streak, TRUE) /\ Counted(seen', w.stray, FALSE)
  BY <1>0, <1>1, <1>2, <1>3, CountedStep DEF TripInv
<1>5. w.chars \in Nat /\ Talked(seen', w.chars)
  <2>1. w.chars \in Nat
    BY <1>0, <1>3
  <2>2. w.chars = 0 \/ (~Activity(x) /\ (w.chars = watchdog.chars \/ (x.kind = "say" /\ w.chars = watchdog.chars + 1)))
    BY <1>3 DEF Fresh
  <2> QED BY <1>0, <1>1, <1>2, <2>1, <2>2, TalkedStep DEF TripInv
<1>6. w.streak.count \in Nat /\ w.stray.count \in Nat
  <2>1. w \in WatchTypes
    BY <1>1, <1>2, AppliedType DEF w
  <2> QED BY <2>1 DEF WatchTypes
<1>7. /\ n \in Nat /\ Len(seen') = n + 1 /\ DOMAIN seen' = 1..(n + 1) /\ DOMAIN seen = 1..n
      /\ \A i \in 1..(n + 1) : seen'[i] \in Lines
      /\ \A i \in 1..(n + 1) : i = n + 1 \/ i \in 1..n
  BY <1>0, <1>1, <1>2
<1> HIDE DEF n
<1>8. \A i, j \in 1..n : /\ FailsOver(seen, i, j) <=> FailsOver(seen', i, j)
                         /\ RunsOver(seen, i, j) => RunsOver(seen', i, j)
  BY <1>0, <1>1, <1>2, OldWindows DEF n
<1>9. w.trip = "failing" => \E i, j \in 1..(n + 1) : i <= j /\ FailsOver(seen', i, j)
  <2>1. CASE watchdog.trip = "failing"
    <3>1. PICK i, j \in 1..n : i <= j /\ FailsOver(seen, i, j)
      BY <1>7, <2>1 DEF TripInv, TripsAreEarned
    <3>2. i \in 1..(n + 1) /\ j \in 1..(n + 1)
      BY <1>7
    <3> QED BY <1>8, <3>1, <3>2
  <2>2. CASE watchdog.trip # "failing"
    <3> SUFFICES ASSUME w.trip = "failing"
                 PROVE  \E i, j \in 1..(n + 1) : i <= j /\ FailsOver(seen', i, j)
      OBVIOUS
    <3>1. w.streak.count >= FailureLimit \/ w.stray.count >= FailureLimit
      BY <1>0, <1>3, <2>2 DEF Trip
    <3>2. ASSUME NEW calls \in BOOLEAN, NEW s, s.count \in Nat, s.count >= FailureLimit, Counted(seen', s, calls)
          PROVE  \E i \in 1..(n + 1) : FailsOver(seen', i, n + 1)
      <4>1. PICK i \in 1..(n + 1) : /\ OfSort(seen'[i], calls) /\ Unbroken(seen', i, n + 1)
                                    /\ Cardinality(FailuresLike(seen', i, n + 1)) = s.count
        BY <1>0, <1>7, <3>2 DEF Counted
      <4> QED BY <3>2, <4>1 DEF FailsOver, OfSort, Fails
    <3>3. PICK i \in 1..(n + 1) : FailsOver(seen', i, n + 1)
      BY <1>4, <1>6, <3>1, <3>2
    <3> QED BY <1>7, <3>3
  <2> QED BY <2>1, <2>2
<1>10. w.trip = "runaway" => \E i, j \in 1..(n + 1) : i <= j /\ RunsOver(seen', i, j)
  <2>1. CASE watchdog.trip = "runaway"
    <3>1. PICK i, j \in 1..n : i <= j /\ RunsOver(seen, i, j)
      BY <1>7, <2>1 DEF TripInv, TripsAreEarned
    <3>2. i \in 1..(n + 1) /\ j \in 1..(n + 1)
      BY <1>7
    <3> QED BY <1>8, <3>1, <3>2
  <2>2. CASE watchdog.trip # "runaway"
    <3> SUFFICES ASSUME w.trip = "runaway"
                 PROVE  \E i, j \in 1..(n + 1) : i <= j /\ RunsOver(seen', i, j)
      OBVIOUS
    <3>1. w.chars > OutputLimit
      BY <1>0, <1>3, <2>2 DEF Trip
    <3>2. PICK i \in 1..(n + 2) : /\ \A k \in i..(n + 1) : ~Activity(seen'[k])
                                  /\ Cardinality(Said(seen', i, n + 1)) >= w.chars
      BY <1>5, <1>7 DEF Talked
    <3>3. Cardinality(Said(seen', i, n + 1)) > OutputLimit
      BY <1>0, <1>5, <1>7, <3>1, <3>2, WindowsAreFinite
    <3>4. i # n + 2
      <4> SUFFICES ASSUME i = n + 2 PROVE FALSE
        OBVIOUS
      <4>1. Said(seen', i, n + 1) = {}
        BY <1>7 DEF Said
      <4>2. Cardinality(Said(seen', i, n + 1)) = 0
        BY <4>1, FS_EmptySet
      <4> QED BY <1>0, <3>3, <4>2
    <3>5. i \in 1..(n + 1) /\ n + 1 \in 1..(n + 1) /\ i <= n + 1
      BY <1>7, <3>4
    <3> QED BY <3>2, <3>3, <3>5 DEF RunsOver
  <2> QED BY <2>1, <2>2
<1>11. ASSUME NEW i \in 1..(n + 1), NEW j \in 1..(n + 1), i <= j, FailsOver(seen', i, j)
       PROVE  w.trip # "none"
  <2>1. CASE j = n + 1
    <3>1. Unbroken(seen', i, n + 1) /\ Cardinality(FailuresLike(seen', i, n + 1)) >= FailureLimit
      BY <1>11, <2>1 DEF FailsOver
    <3>2. Cardinality(FailuresLike(seen', i, n + 1)) \in Nat
      BY <1>7, WindowsAreFinite
    <3>3. OfSort(seen'[i], TRUE) \/ OfSort(seen'[i], FALSE)
      BY <1>11 DEF FailsOver, Fails, OfSort
    <3>4. w.streak.count >= FailureLimit \/ w.stray.count >= FailureLimit
      <4>1. ASSUME NEW s, NEW calls \in BOOLEAN, s.count \in Nat, Counted(seen', s, calls), OfSort(seen'[i], calls)
            PROVE  s.count >= FailureLimit
        <5>1. Cardinality(FailuresLike(seen', i, n + 1)) <= s.count
          BY <1>7, <3>1, <4>1 DEF Counted
        <5> QED BY <1>0, <3>1, <3>2, <4>1, <5>1
      <4> QED BY <1>4, <1>6, <3>3, <4>1
    <3> QED BY <1>0, <1>3, <3>4 DEF Trip
  <2>2. CASE j # n + 1
    <3>1. i \in 1..n /\ j \in 1..n
      BY <1>7, <1>11, <2>2
    <3>2. watchdog.trip # "none"
      BY <1>7, <1>8, <1>11, <3>1 DEF TripInv, TripsAreEarned
    <3> QED BY <1>3, <3>2 DEF Trip
  <2> QED BY <2>1, <2>2
<1>12. TripsAreEarned'
  BY <1>7, <1>9, <1>10, <1>11 DEF TripsAreEarned, w
<1> QED BY <1>4, <1>5, <1>12 DEF TripInv, w

LEMMA TripStart ==
  ASSUME WatchdogInit
  PROVE  TripInv
<1>1. seen = <<>> /\ Len(seen) = 0 /\ DOMAIN seen = {} /\ 1..0 = {}
  BY DEF WatchdogInit
<1>2. watchdog.streak.count = 0 /\ watchdog.stray.count = 0 /\ watchdog.chars = 0 /\ watchdog.trip = "none"
  BY DEF WatchdogInit, NewWatchdog, NoStreak
<1>3. Counted(seen, watchdog.streak, TRUE) /\ Counted(seen, watchdog.stray, FALSE)
  BY <1>1, <1>2 DEF Counted
<1>4. Talked(seen, watchdog.chars)
  <2>1. 1 \in 1..(0 + 1) /\ Cardinality(Said(seen, 1, 0)) \in Nat
    BY WindowsAreFinite
  <2> QED BY <1>1, <1>2, <2>1 DEF Talked
<1>5. TripsAreEarned
  BY <1>1, <1>2 DEF TripsAreEarned
<1> QED BY <1>3, <1>4, <1>5 DEF TripInv

LEMMA OthersKeepTrips ==
  ASSUME WatchInv, TripInv, Loops \/ SetTerminal \/ Commit \/ ChildExits \/ Tick \/ UNCHANGED watchdogVars
  PROVE  TripInv'
<1>1. seen' = seen
  BY DEF Loops, LoopReads, LoopJudges, LoopProbes, LoopWeighs, LoopConfirms, LoopPolls, SetTerminal, Commit,
     ChildExits, Tick, watchdogVars
<1>2. /\ watchdog'.streak = watchdog.streak /\ watchdog'.stray = watchdog.stray
      /\ watchdog'.chars = watchdog.chars /\ watchdog'.trip = watchdog.trip
  <2>1. watchdog \in WatchTypes
    BY DEF WatchInv
  <2>2. CASE LoopWeighs
    BY <2>1, <2>2 DEF LoopWeighs, WatchTypes
  <2>3. CASE ~LoopWeighs
    BY <2>3 DEF Loops, LoopReads, LoopJudges, LoopProbes, LoopConfirms, LoopPolls, SetTerminal, Commit,
       ChildExits, Tick, watchdogVars
  <2> QED BY <2>2, <2>3
<1> QED BY <1>1, <1>2 DEF TripInv, TripsAreEarned

LEMMA TripStep == WatchInv /\ TripInv /\ [WatchdogNext]_watchdogVars => TripInv'
  BY ObserveTrips, OthersKeepTrips DEF WatchdogNext

(* A detector trips for the loop it is named for, and for every one of      *)
(* repeated failures.                                                       *)
THEOREM DetectorsAreRight == WatchdogSpec => []TripsAreEarned
<1>1. TripInv => TripsAreEarned
  BY DEF TripInv
<1> QED BY <1>1, TripStart, TripStep, WatchInvariant, PTL DEF WatchdogSpec
=============================================================================
