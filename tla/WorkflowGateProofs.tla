------------------------- MODULE WorkflowGateProofs ------------------------
(***************************************************************************)
(* WorkflowGate for every set of items, gates, results and action lists,   *)
(* any number of item slots and any bounds: TypeOK, PausedIsQuiet,         *)
(* PausedIsAnswerable and AnswersWereAsked are invariants of Spec.  They   *)
(* follow from GateInv, which is inductive.  PassedStaysPassed is an       *)
(* action property of Spec and follows from PassedInv, which is inductive  *)
(* relative to GateInv.                                                    *)
(***************************************************************************)
EXTENDS WorkflowGate, FiniteSetTheorems, TLAPS

(* What the constants give.                                                *)
LEMMA Bounds ==
  /\ Main \in Threads /\ Items \subseteq Threads /\ Main \notin Items
  /\ \A t \in Threads : t = Main \/ t \in Items
  /\ MaxSteps \in Nat /\ MaxLives \in Nat
  /\ 0 \in 0..MaxSteps /\ 1 \in 0..MaxLives
  /\ Approve \in Actions
BY GateAssumption DEF Threads, Actions

(* The values the actions write are values of their types.                 *)
LEMMA StatusTypes ==
  /\ \A s \in Statuses : AfterAppend(s) \in Statuses /\ [s EXCEPT !.phase = "starting"] \in Statuses
  /\ \A a \in Asks : Projection(a) \in Statuses /\ [phase |-> "starting", ask |-> a] \in Statuses
  /\ \A p \in Phases : [phase |-> p, ask |-> NoAsk] \in Statuses
  /\ {"running", "succeeded", "failed", "starting"} \subseteq Phases
  /\ \A s \in Statuses : s.phase \in Phases /\ s.ask \in Asks \cup {NoAsk}
BY DEF Statuses, Phases, AfterAppend, Projection

LEMMA UnwindingTypes ==
  /\ \A k \in Exceptions, a \in Asks \cup {NoAsk} : [kind |-> k, ask |-> a] \in Unwindings
  /\ NoExc \in Unwindings
  /\ {"none", "gate", "watchdog", "conflict"} \subseteq Exceptions
  /\ \A e \in Unwindings : e.kind \in Exceptions /\ e.ask \in Asks \cup {NoAsk}
BY DEF Unwindings, Exceptions, NoExc

LEMMA EndingTypes ==
  /\ NotEnded \in Lasts
  /\ \A l \in Lasts, h \in Endings, a \in Asks \cup {NoAsk} :
       [l EXCEPT !.how = h, !.parked = a] \in Lasts /\ [l EXCEPT !.caught = TRUE] \in Lasts
  /\ {"none", "crashed", "returned", "raised", "gate", "cancelled", "stuck"} \subseteq Endings
BY DEF Lasts, Endings, NotEnded

LEMMA QuestionTypes ==
  /\ \A c \in Calls : /\ AskOf(c) \in Asks
                      /\ c.gate \in Gates /\ c.hash \in Hashes /\ c.actions \in Offers \cup {{}}
  /\ \A g \in Gates, h \in Hashes, o \in Offers \cup {{}} :
       [gate |-> g, hash |-> h, actions |-> o] \in Calls
  /\ \A g \in Gates, h \in Hashes : [gate |-> g, hash |-> h] \in Asks
  /\ \A r \in Results : ResultHash(r) \in Hashes
  /\ \A r \in Results, o \in Offers : ReaskHash(r, o) \in Hashes
  /\ \A g \in Gates, r \in Results, o \in Offers \cup {{}} : Question(g, r, o).hash \in Hashes
<1>1. /\ \A r \in Results : ResultHash(r) \in Hashes
      /\ \A r \in Results, o \in Offers : ReaskHash(r, o) \in Hashes
  BY DEF ResultHash, ReaskHash, Hashes
<1>2. /\ \A c \in Calls : /\ AskOf(c) \in Asks
                          /\ c.gate \in Gates /\ c.hash \in Hashes /\ c.actions \in Offers \cup {{}}
      /\ \A g \in Gates, h \in Hashes, o \in Offers \cup {{}} :
           [gate |-> g, hash |-> h, actions |-> o] \in Calls
      /\ \A g \in Gates, h \in Hashes : [gate |-> g, hash |-> h] \in Asks
  BY DEF Calls, Asks, AskOf
<1>3. \A g \in Gates, r \in Results, o \in Offers \cup {{}} : Question(g, r, o).hash \in Hashes
  BY <1>1 DEF Question
<1> QED BY <1>1, <1>2, <1>3

(* Every approval recorded is one for a question and an action of the gate. *)
LEMMA RecordedTypes ==
  ASSUME TypedDisk, NEW ask \in Asks, NEW choice \in Choices
  PROVE  Recorded(ask, choice) \subseteq [gate : Gates, hash : Hashes, action : Actions]
<1>1. ask.gate \in Gates /\ ask.hash \in Hashes /\ choice \subseteq Actions
  BY DEF Asks, Choices
<1> QED BY <1>1, Bounds DEF TypedDisk, Recorded

(* What the invariant says of the values the actions copy.                 *)
LEMMA CopiedQuestions ==
  ASSUME Typed, QuestionsAsked
  PROVE  /\ Questions \subseteq Asks /\ NoAsk \notin Asks
         /\ \A i \in DOMAIN rows : rows[i] \in Calls /\ AskOf(rows[i]) \in Questions
         /\ \A t \in Threads : InCall(t) => call[t] \in Calls /\ AskOf(call[t]) \in Asks
         /\ \A t \in Threads : exc[t] \in Unwindings /\ (exc[t].kind = "gate" => exc[t].ask \in Questions)
         /\ firstGate # NoAsk => firstGate \in Questions
         /\ stop => pending \in Questions
         /\ status.ask # NoAsk => status.ask \in Questions
         /\ status.phase = "paused" => status.ask \in Questions
<1>1. \A i \in DOMAIN rows : rows[i] \in Calls /\ AskOf(rows[i]) \in Asks
  BY QuestionTypes DEF Typed, TypedDisk
<1>2. \A t \in Threads : InCall(t) => call[t] \in Calls /\ AskOf(call[t]) \in Asks
  BY QuestionTypes DEF QuestionsAsked, ThreadsAsked
<1>3. \A t \in Threads : exc[t] \in Unwindings /\ (exc[t].kind = "gate" => exc[t].ask \in Questions)
  BY DEF QuestionsAsked, ThreadsAsked, Typed, TypedThreads
<1>4. NoAsk \notin Asks
  <2>1. \A a \in Asks : DOMAIN a = {"gate", "hash"}
    BY DEF Asks
  <2>2. DOMAIN NoAsk = {"gate"}
    BY DEF NoAsk
  <2> QED BY <2>1, <2>2
<1> QED BY <1>1, <1>2, <1>3, <1>4 DEF Questions, QuestionsAsked, StatusAsked, GateAsked

(* What approve and resume record, and on which question.                  *)
LEMMA Targets ==
  ASSUME Typed, QuestionsAsked, NEW gates
  PROVE  /\ ApproveTargets(gates) \subseteq Questions
         /\ \A i \in Latest(PendingRows(gates)) : AskOf(rows[i]) \in Questions
<1>1. \A i \in Latest(PendingRows(gates)) : AskOf(rows[i]) \in Questions
  BY CopiedQuestions DEF Latest, PendingRows
<1>2. {status.ask} \ {NoAsk} \subseteq Questions
  BY CopiedQuestions
<1> QED BY <1>1, <1>2 DEF ApproveTargets

LEMMA ResumeRecordsTypes ==
  ASSUME Typed, QuestionsAsked
  PROVE  ResumeRecords \subseteq [gate : Gates, hash : Hashes, action : Actions]
<1>1. {} \in Choices
  BY DEF Choices
<1>2. ASSUME status.phase = "paused"
      PROVE  Recorded(status.ask, {}) \subseteq [gate : Gates, hash : Hashes, action : Actions]
  BY <1>1, <1>2, CopiedQuestions, RecordedTypes DEF Typed
<1> QED BY <1>2 DEF ResumeRecords, Typed, TypedDisk

(* Every step keeps the variables in their types.                          *)
LEMMA TypedNext ==
  ASSUME Typed, QuestionsAsked, [Next]_vars
  PROVE  Typed'
<1> USE DEF Typed
<1>1. CASE UNCHANGED vars
  BY <1>1 DEF vars, TypedDisk, TypedThreads, TypedGate, TypedPool, TypedHistory
<1>2. ASSUME NEW t \in Threads, AgentAdmitted(t)
      PROVE  Typed'
  <2>1. TypedDisk'
    BY <1>2, Bounds, StatusTypes DEF AgentAdmitted, Calling, Goto, Counted, pool, disk,
      admission, TypedDisk
  <2>2. TypedThreads'
    BY <1>2, Bounds, UnwindingTypes DEF AgentAdmitted, Calling, Goto, Counted, pool, disk,
      admission, TypedThreads, ThreadPcs
  <2>3. TypedGate' /\ TypedPool' /\ TypedHistory'
    BY <1>2, Bounds, UnwindingTypes, QuestionTypes DEF AgentAdmitted, Calling, Goto, Counted,
      pool, disk, admission, TypedThreads, TypedGate, TypedPool, TypedHistory
  <2> QED BY <2>1, <2>2, <2>3
<1>3. ASSUME NEW t \in Threads, AgentRefused(t)
      PROVE  Typed'
  <2>1. TypedDisk'
    BY <1>3, Bounds, StatusTypes DEF AgentRefused, Calling, Counted, Raise, Goto, pool, disk,
      admission, TypedDisk
  <2>2. TypedThreads'
    <3>1. exc' \in [Threads -> Unwindings]
      BY <1>3, UnwindingTypes DEF AgentRefused, Raise, TypedThreads, TypedGate
    <3>2. pc' \in [Threads -> ThreadPcs]
      BY <1>3 DEF AgentRefused, Raise, Goto, TypedThreads, ThreadPcs
    <3>3. steps' \in [Threads -> 0..MaxSteps]
      BY <1>3, Bounds DEF AgentRefused, Calling, Counted, TypedThreads
    <3> QED BY <1>3, <3>1, <3>2, <3>3 DEF AgentRefused, TypedThreads
  <2>3. TypedGate' /\ TypedPool' /\ TypedHistory'
    BY <1>3, Bounds, UnwindingTypes, QuestionTypes DEF AgentRefused, Calling, Counted, Raise,
      Goto, pool, disk, admission, TypedThreads, TypedGate, TypedPool, TypedHistory
  <2> QED BY <2>1, <2>2, <2>3
<1>4. ASSUME NEW t \in Threads, AgentEnds(t)
      PROVE  Typed'
  <2>1. TypedDisk'
    BY <1>4, Bounds, StatusTypes DEF AgentEnds, Goto, Raise, pool, disk, admission, TypedDisk
  <2>2. TypedThreads'
    BY <1>4, Bounds, UnwindingTypes DEF AgentEnds, Goto, Raise, pool, disk, admission,
      TypedThreads, ThreadPcs
  <2>3. TypedGate' /\ TypedPool' /\ TypedHistory'
    BY <1>4, Bounds, UnwindingTypes, QuestionTypes DEF AgentEnds, Goto, Raise, pool, disk,
      admission, TypedThreads, TypedGate, TypedPool, TypedHistory
  <2> QED BY <2>1, <2>2, <2>3
<1>5. ASSUME NEW t \in Threads, NEW g \in Gates, NEW r \in Results,
             NEW o \in Offers \cup {{}}, GateCall(t, g, r, o)
      PROVE  Typed'
  <2>1. TypedDisk'
    BY <1>5, StatusTypes DEF GateCall, pool, disk, admission, TypedDisk
  <2>2. TypedThreads'
    <3>1. call' \in [Threads -> Calls \cup {NoCall}]
      BY <1>5, QuestionTypes DEF GateCall, TypedThreads
    <3>2. exc' \in [Threads -> Unwindings]
      BY <1>5, UnwindingTypes DEF GateCall, Raise, TypedThreads
    <3>3. pc' \in [Threads -> ThreadPcs]
      BY <1>5 DEF GateCall, Goto, Raise, TypedThreads, ThreadPcs
    <3>4. steps' \in [Threads -> 0..MaxSteps]
      BY <1>5, Bounds DEF GateCall, Calling, Counted, TypedThreads
    <3> QED BY <3>1, <3>2, <3>3, <3>4 DEF TypedThreads
  <2>3. TypedGate' /\ TypedPool' /\ TypedHistory'
    BY <1>5, Bounds, UnwindingTypes, QuestionTypes DEF GateCall, Calling, Counted, Raise, Goto,
      AskOf, pool, disk, admission, TypedThreads, TypedGate, TypedPool, TypedHistory
  <2> QED BY <2>1, <2>2, <2>3
<1>6. ASSUME NEW t \in Threads, GateReturns(t)
      PROVE  Typed'
  <2>1. TypedDisk'
    BY <1>6, Bounds, StatusTypes DEF GateReturns, Goto, pool, disk, admission, TypedDisk
  <2>2. TypedThreads'
    BY <1>6, Bounds, UnwindingTypes DEF GateReturns, Goto, pool, disk, admission, TypedThreads,
      ThreadPcs
  <2>3. TypedGate' /\ TypedPool' /\ TypedHistory'
    <3>1. call[t] \in Calls
      BY <1>6, CopiedQuestions DEF GateReturns, InCall
    <3>2. [call[t] EXCEPT !.hash = ResultHash(@.result)] \in Calls
      <4>1. call[t].hash.result \in Results
        BY <3>1, QuestionTypes DEF Hashes
      <4> QED BY <3>1, <4>1, QuestionTypes DEF Calls
    <3> QED BY <1>6, <3>2 DEF GateReturns, admission, pool, TypedGate, TypedPool, TypedHistory
  <2> QED BY <2>1, <2>2, <2>3
<1>7. ASSUME NEW t \in Threads, ParkRow(t)
      PROVE  Typed'
  <2>1. TypedDisk'
    <3>1. call[t] \in Calls
      BY <1>7, CopiedQuestions DEF ParkRow, InCall
    <3>2. Append(rows, call[t]) \in Seq(Calls)
      BY <3>1 DEF TypedDisk
    <3> QED BY <1>7, <3>2 DEF ParkRow, TypedDisk
  <2>2. TypedThreads'
    BY <1>7, Bounds, UnwindingTypes DEF ParkRow, Goto, pool, disk, admission, TypedThreads,
      ThreadPcs
  <2>3. TypedGate' /\ TypedPool' /\ TypedHistory'
    BY <1>7, Bounds, UnwindingTypes, QuestionTypes DEF ParkRow, Goto, pool, disk, admission,
      TypedThreads, TypedGate, TypedPool, TypedHistory
  <2> QED BY <2>1, <2>2, <2>3
<1>8. ASSUME NEW t \in Threads, ParkClose(t)
      PROVE  Typed'
  <2>1. TypedDisk'
    BY <1>8, Bounds, StatusTypes DEF ParkClose, Goto, pool, disk, admission, TypedDisk
  <2>2. TypedThreads'
    BY <1>8, Bounds, UnwindingTypes DEF ParkClose, Goto, pool, disk, admission, TypedThreads,
      ThreadPcs
  <2>3. TypedGate' /\ TypedPool' /\ TypedHistory'
    <3>1. AskOf(call[t]) \in Asks
      BY <1>8, CopiedQuestions DEF ParkClose, InCall
    <3> QED BY <1>8, <3>1 DEF ParkClose, disk, pool, TypedGate, TypedPool, TypedHistory
  <2> QED BY <2>1, <2>2, <2>3
<1>9. ASSUME NEW t \in Threads, ParkDrained(t)
      PROVE  Typed'
  <2>1. TypedDisk'
    BY <1>9, Bounds, StatusTypes DEF ParkDrained, Goto, pool, disk, admission, TypedDisk
  <2>2. TypedThreads'
    <3>1. AskOf(call[t]) \in Asks
      BY <1>9, CopiedQuestions DEF ParkDrained, InCall
    <3>2. exc' \in [Threads -> Unwindings]
      BY <1>9, <3>1, UnwindingTypes DEF ParkDrained, TypedThreads
    <3> QED BY <1>9, <3>2 DEF ParkDrained, Goto, TypedThreads, ThreadPcs
  <2>3. TypedGate' /\ TypedPool' /\ TypedHistory'
    BY <1>9, Bounds, UnwindingTypes, QuestionTypes DEF ParkDrained, Goto, pool, disk, admission,
      TypedThreads, TypedGate, TypedPool, TypedHistory
  <2> QED BY <2>1, <2>2, <2>3
<1>10. ASSUME NEW t \in Threads, ParkProjects(t)
      PROVE  Typed'
  <2>1. TypedDisk'
    <3>1. AskOf(call[t]) \in Asks
      BY <1>10, CopiedQuestions DEF ParkProjects, InCall
    <3> QED BY <1>10, <3>1, StatusTypes DEF ParkProjects, TypedDisk
  <2>2. TypedThreads'
    BY <1>10, Bounds, UnwindingTypes DEF ParkProjects, Goto, pool, disk, admission,
      TypedThreads, ThreadPcs
  <2>3. TypedGate' /\ TypedPool' /\ TypedHistory'
    BY <1>10, Bounds, UnwindingTypes, QuestionTypes DEF ParkProjects, Goto, pool, disk,
      admission, TypedThreads, TypedGate, TypedPool, TypedHistory
  <2> QED BY <2>1, <2>2, <2>3
<1>11. ASSUME NEW t \in Threads, ScriptLogs(t)
      PROVE  Typed'
  BY <1>11, Bounds, StatusTypes, UnwindingTypes, QuestionTypes DEF ScriptLogs, pool, disk,
    admission, TypedDisk,
    TypedThreads, ThreadPcs, TypedGate, TypedPool, TypedHistory
<1>12. ASSUME NEW t \in Threads, ScriptCatches(t) PROVE Typed'
  <2>1. TypedDisk' /\ TypedThreads' /\ TypedGate' /\ TypedPool'
    BY <1>12, Bounds, StatusTypes, UnwindingTypes, QuestionTypes DEF ScriptCatches, Goto, pool,
      disk, admission, TypedDisk, TypedThreads, ThreadPcs, TypedGate, TypedPool
  <2>2. last' \in Lasts
    BY <1>12, EndingTypes DEF ScriptCatches, TypedHistory, TypedGate
  <2> QED BY <1>12, <2>1, <2>2 DEF ScriptCatches, TypedHistory
<1>13. ASSUME NEW t \in Threads, ItemReturns(t)
      PROVE  Typed'
  BY <1>13, Bounds, StatusTypes, UnwindingTypes, QuestionTypes DEF ItemReturns, Goto, pool,
    disk, admission, TypedDisk,
    TypedThreads, ThreadPcs, TypedGate, TypedPool, TypedHistory
<1>14. ASSUME NEW t \in Threads, ItemUnwinds(t)
      PROVE  Typed'
  BY <1>14, Bounds, StatusTypes, UnwindingTypes, QuestionTypes DEF ItemUnwinds, Goto, pool,
    disk, admission, TypedDisk,
    TypedThreads, ThreadPcs, TypedGate, TypedPool, TypedHistory
<1>15. ASSUME NEW W \in SUBSET Items, Primitive(W)
      PROVE  Typed'
  <2>1. TypedDisk'
    BY <1>15, Bounds, StatusTypes DEF Primitive, Calling, Goto, Counted, pool, disk, admission,
      TypedDisk
  <2>2. TypedThreads'
    BY <1>15, Bounds, UnwindingTypes DEF Primitive, Calling, Goto, Counted, pool, disk,
      admission, TypedThreads, ThreadPcs
  <2>3. TypedGate' /\ TypedPool' /\ TypedHistory'
    BY <1>15, Bounds, UnwindingTypes, QuestionTypes DEF Primitive, Calling, Goto, Counted, pool,
      disk, admission, TypedThreads, TypedGate, TypedPool, TypedHistory
  <2> QED BY <2>1, <2>2, <2>3
<1>16. ASSUME StartCheck PROVE Typed'
  BY <1>16, Bounds, StatusTypes, UnwindingTypes, QuestionTypes DEF StartCheck, Goto, LoopEnd,
    pool, disk, admission, TypedDisk,
    TypedThreads, ThreadPcs, TypedGate, TypedPool, TypedHistory
<1>17. ASSUME StartItem PROVE Typed'
  <2>1. TypedDisk'
    BY <1>17, Bounds, StatusTypes DEF StartItem, Goto, LoopEnd, pool, disk, admission, TypedDisk
  <2>2. TypedThreads'
    BY <1>17, Bounds, UnwindingTypes DEF StartItem, Goto, LoopEnd, pool, disk, admission,
      TypedThreads, ThreadPcs
  <2>3. TypedGate' /\ TypedPool' /\ TypedHistory'
    BY <1>17, Bounds, UnwindingTypes, QuestionTypes DEF StartItem, Goto, LoopEnd, pool, disk,
      admission, TypedThreads, TypedGate, TypedPool, TypedHistory
  <2> QED BY <2>1, <2>2, <2>3
<1>18. ASSUME BarrierOpens PROVE Typed'
  BY <1>18, Bounds, StatusTypes, UnwindingTypes, QuestionTypes DEF BarrierOpens, pool, disk,
    admission, TypedDisk,
    TypedThreads, ThreadPcs, TypedGate, TypedPool, TypedHistory
<1>19. ASSUME Join PROVE Typed'
  <2>1. TypedDisk'
    BY <1>19, CopiedQuestions, StatusTypes DEF Join, TypedDisk
  <2>2. TypedThreads'
    <3>1. exc' \in [Threads -> Unwindings]
      <4>1. \A k \in Exceptions, a \in Asks \cup {NoAsk} :
              [exc EXCEPT ![Main] = [kind |-> k, ask |-> a]] \in [Threads -> Unwindings]
        BY UnwindingTypes DEF TypedThreads
      <4>2. [exc EXCEPT ![Main] = NoExc] \in [Threads -> Unwindings]
        BY UnwindingTypes DEF TypedThreads
      <4> QED BY <1>19, <4>1, <4>2, UnwindingTypes, CopiedQuestions DEF Join, TypedPool,
        TypedGate
    <3>2. pc' \in [Threads -> ThreadPcs]
      <4>1. {"idle", "unwind", "run"} \subseteq ThreadPcs /\ \A t \in Threads : pc[t] \in ThreadPcs
        BY DEF ThreadPcs, TypedThreads
      <4> QED BY <1>19, <4>1 DEF Join
    <3> QED BY <1>19, <3>1, <3>2 DEF Join, TypedThreads
  <2>3. TypedGate' /\ TypedPool' /\ TypedHistory'
    BY <1>19, Bounds, UnwindingTypes, QuestionTypes DEF Join, pool, disk, admission,
      TypedThreads, TypedGate, TypedPool, TypedHistory
  <2> QED BY <2>1, <2>2, <2>3
<1>20. ASSUME Boot PROVE Typed'
  BY <1>20, Bounds, StatusTypes, UnwindingTypes, QuestionTypes DEF Boot, Goto, pool, disk,
    admission, TypedDisk,
    TypedThreads, ThreadPcs, TypedGate, TypedPool, TypedHistory
<1>21. ASSUME ScriptReturns PROVE Typed'
  BY <1>21, Bounds, StatusTypes, UnwindingTypes, EndingTypes, QuestionTypes DEF ScriptReturns, Ends, pool,
    disk, admission, TypedDisk,
    TypedThreads, ThreadPcs, TypedGate, TypedPool, TypedHistory
<1>22. ASSUME ExitAtGate PROVE Typed'
  <2>1. TypedDisk'
    BY <1>22, Bounds, CopiedQuestions, StatusTypes DEF ExitAtGate, Unwinding, Ends, TypedDisk
  <2>2. TypedThreads'
    BY <1>22, Bounds, UnwindingTypes DEF ExitAtGate, Unwinding, Ends, pool, disk, admission,
      TypedThreads, ThreadPcs
  <2>3. TypedGate' /\ TypedPool' /\ TypedHistory'
    BY <1>22, Bounds, UnwindingTypes, EndingTypes, QuestionTypes DEF ExitAtGate, Unwinding, Ends, pool, disk,
      admission, TypedThreads, TypedGate, TypedPool, TypedHistory
  <2> QED BY <2>1, <2>2, <2>3
<1>23. ASSUME ExitCancelled PROVE Typed'
  <2>e. /\ Ends("stuck") \/ Ends("cancelled")
        /\ \/ status' = [phase |-> "failed", ask |-> NoAsk]
           \/ \E i \in PendingRows(Gates) : status' = Projection(AskOf(rows[i]))
    BY <1>23 DEF ExitCancelled, Fails, Latest
  <2>1. TypedDisk'
    <3>1. status' \in Statuses
      BY <2>e, CopiedQuestions, StatusTypes DEF PendingRows
    <3> QED BY <2>e, <3>1 DEF Ends, TypedDisk
  <2>2. TypedThreads'
    BY <2>e, Bounds, UnwindingTypes DEF Ends, TypedThreads, ThreadPcs
  <2>3. TypedHistory'
    <3>1. last \in Lasts /\ pending \in Asks \cup {NoAsk} /\ {"stuck", "cancelled"} \subseteq Endings
      BY EndingTypes DEF TypedGate, TypedHistory
    <3>2. \A how \in Endings : [last EXCEPT !.how = how, !.parked = pending] \in Lasts
      BY <3>1, EndingTypes
    <3> PICK how \in {"stuck", "cancelled"} : Ends(how)
      BY <2>e
    <3>a. last' = [last EXCEPT !.how = how, !.parked = pending] /\ life' = life /\ passed' = passed
      BY DEF Ends
    <3>3. last' \in Lasts /\ life' = life /\ passed' = passed
      BY <3>1, <3>2, <3>a
    <3> QED BY <3>3 DEF TypedHistory
  <2>4. TypedGate' /\ TypedPool'
    BY <2>e DEF Ends, TypedGate, TypedPool
  <2> QED BY <2>1, <2>2, <2>3, <2>4
<1>24. ASSUME ExitFailed PROVE Typed'
  BY <1>24, Bounds, StatusTypes, UnwindingTypes, EndingTypes, QuestionTypes DEF ExitFailed, Fails, Unwinding, Ends,
    pool, disk, admission, TypedDisk,
    TypedThreads, ThreadPcs, TypedGate, TypedPool, TypedHistory
<1>25. ASSUME Signal PROVE Typed'
  BY <1>25, Bounds, StatusTypes, UnwindingTypes, EndingTypes, QuestionTypes DEF Signal, pool, disk,
    admission, TypedDisk,
    TypedThreads, ThreadPcs, TypedGate, TypedPool, TypedHistory
<1>26. ASSUME Crash PROVE Typed'
  BY <1>26, Bounds, StatusTypes, UnwindingTypes, EndingTypes, QuestionTypes DEF Crash, Ends, pool, disk,
    admission, TypedDisk,
    TypedThreads, ThreadPcs, TypedGate, TypedPool, TypedHistory
<1>27. ASSUME Resume PROVE Typed'
  <2>1. TypedDisk'
    BY <1>27, ResumeRecordsTypes, StatusTypes DEF Resume, TypedDisk
  <2>2. TypedThreads'
    BY <1>27, Bounds, UnwindingTypes DEF Resume, Commanding, Launches, pool, disk, admission,
      TypedThreads, ThreadPcs
  <2>3. TypedHistory'
    <3>1. last' = NotEnded /\ life' = life + 1 /\ life < MaxLives /\ passed' = passed
      BY <1>27 DEF Resume, Commanding, Launches
    <3>2. life' \in 0..MaxLives
      BY <3>1, Bounds DEF TypedHistory
    <3> QED BY <3>1, <3>2, EndingTypes DEF TypedHistory
  <2>4. TypedGate' /\ TypedPool'
    BY <1>27 DEF Resume, Launches, pool, admission, TypedGate, TypedPool
  <2> QED BY <2>1, <2>2, <2>3, <2>4
<1>28. ASSUME ResumeDies PROVE Typed'
  <2>1. TypedDisk'
    BY <1>28, ResumeRecordsTypes DEF ResumeDies, TypedDisk
  <2>2. TypedThreads'
    BY <1>28, Bounds, UnwindingTypes DEF ResumeDies, Commanding, pool, disk, admission,
      TypedThreads, ThreadPcs
  <2>3. TypedGate' /\ TypedPool' /\ TypedHistory'
    BY <1>28, Bounds, UnwindingTypes, EndingTypes, QuestionTypes DEF ResumeDies, Commanding, pool, disk,
      admission, TypedThreads, TypedGate, TypedPool, TypedHistory
  <2> QED BY <2>1, <2>2, <2>3
<1>29. ASSUME NEW gs \in Named, NEW c \in Choices, ApproveLaunches(gs, c)
      PROVE  Typed'
  <2>1. TypedDisk'
    <3>1. PICK ask \in ApproveTargets(gs) :
            approvals' = Recorded(ask, c) /\ status' = [phase |-> "starting", ask |-> ask]
      BY <1>29 DEF ApproveLaunches
    <3>2. ask \in Asks
      BY Targets, CopiedQuestions
    <3> QED BY <1>29, <3>1, <3>2, RecordedTypes, StatusTypes DEF ApproveLaunches, TypedDisk
  <2>2. TypedThreads'
    BY <1>29, Bounds, UnwindingTypes DEF ApproveLaunches, Commanding, Launches, pool, disk,
      admission, TypedThreads, ThreadPcs
  <2>3. TypedHistory'
    <3>1. last' = NotEnded /\ life' = life + 1 /\ life < MaxLives /\ passed' = passed
      BY <1>29 DEF ApproveLaunches, Commanding, Launches
    <3>2. life' \in 0..MaxLives
      BY <3>1, Bounds DEF TypedHistory
    <3> QED BY <3>1, <3>2, EndingTypes DEF TypedHistory
  <2>4. TypedGate' /\ TypedPool'
    BY <1>29 DEF ApproveLaunches, Launches, pool, admission, TypedGate, TypedPool
  <2> QED BY <2>1, <2>2, <2>3, <2>4
<1>30. ASSUME NEW gs \in Named, NEW c \in Choices, ApproveFails(gs, c)
      PROVE  Typed'
  <2>1. TypedDisk'
    BY <1>30, Targets, CopiedQuestions, StatusTypes DEF ApproveFails, TypedDisk
  <2>2. TypedThreads'
    BY <1>30, Bounds, UnwindingTypes DEF ApproveFails, Commanding, pool, disk, admission,
      TypedThreads, ThreadPcs
  <2>3. TypedGate' /\ TypedPool' /\ TypedHistory'
    BY <1>30, Bounds, UnwindingTypes, QuestionTypes DEF ApproveFails, Commanding, pool, disk,
      admission, TypedThreads, TypedGate, TypedPool, TypedHistory
  <2> QED BY <2>1, <2>2, <2>3
<1> QED
  BY <1>1, <1>2, <1>3, <1>4, <1>5, <1>6, <1>7, <1>8, <1>9, <1>10, <1>11, <1>12, <1>13, <1>14,
    <1>15, <1>16, <1>17, <1>18, <1>19, <1>20, <1>21, <1>22, <1>23, <1>24, <1>25, <1>26, <1>27,
    <1>28, <1>29, <1>30 DEF Next, ThreadStep, MainStep, Command

(* A thread leaves "idle" only when its primitive starts it.               *)
LEMMA IdleNext ==
  ASSUME Typed, IdleElsewhere, [Next]_vars
  PROVE  IdleElsewhere'
<1>1. CASE UNCHANGED vars
  BY <1>1 DEF vars, IdleElsewhere, Typed, TypedThreads, TypedPool
<1>2. ASSUME NEW t \in Threads, AgentAdmitted(t)
      PROVE  IdleElsewhere'
  BY <1>2, Bounds DEF AgentAdmitted, Calling, Goto, Counted, pool, disk, admission,
    IdleElsewhere, Typed, TypedThreads, TypedPool
<1>3. ASSUME NEW t \in Threads, AgentRefused(t)
      PROVE  IdleElsewhere'
  BY <1>3, Bounds DEF AgentRefused, Calling, Counted, Raise, Goto, pool, disk, admission,
    IdleElsewhere, Typed, TypedThreads, TypedPool
<1>4. ASSUME NEW t \in Threads, AgentEnds(t)
      PROVE  IdleElsewhere'
  BY <1>4, Bounds DEF AgentEnds, Goto, Raise, pool, disk, admission, IdleElsewhere, Typed,
    TypedThreads, TypedPool
<1>5. ASSUME NEW t \in Threads, NEW g \in Gates, NEW r \in Results,
             NEW o \in Offers \cup {{}}, GateCall(t, g, r, o)
      PROVE  IdleElsewhere'
  BY <1>5, Bounds DEF GateCall, Calling, Counted, Raise, Goto, AskOf, pool, disk, admission,
    IdleElsewhere, Typed, TypedThreads, TypedPool
<1>6. ASSUME NEW t \in Threads, GateReturns(t)
      PROVE  IdleElsewhere'
  BY <1>6, Bounds DEF GateReturns, Goto, pool, disk, admission, IdleElsewhere, Typed,
    TypedThreads, TypedPool
<1>7. ASSUME NEW t \in Threads, ParkRow(t)
      PROVE  IdleElsewhere'
  BY <1>7, Bounds DEF ParkRow, Goto, pool, disk, admission, IdleElsewhere, Typed, TypedThreads,
    TypedPool
<1>8. ASSUME NEW t \in Threads, ParkClose(t)
      PROVE  IdleElsewhere'
  BY <1>8, Bounds DEF ParkClose, Goto, pool, disk, admission, IdleElsewhere, Typed,
    TypedThreads, TypedPool
<1>9. ASSUME NEW t \in Threads, ParkDrained(t)
      PROVE  IdleElsewhere'
  BY <1>9, Bounds DEF ParkDrained, Goto, pool, disk, admission, IdleElsewhere, Typed,
    TypedThreads, TypedPool
<1>10. ASSUME NEW t \in Threads, ParkProjects(t)
      PROVE  IdleElsewhere'
  BY <1>10, Bounds DEF ParkProjects, Goto, pool, disk, admission, IdleElsewhere, Typed,
    TypedThreads, TypedPool
<1>11. ASSUME NEW t \in Threads, ScriptLogs(t)
      PROVE  IdleElsewhere'
  BY <1>11, Bounds DEF ScriptLogs, pool, disk, admission, IdleElsewhere, Typed, TypedThreads,
    TypedPool
<1>12. ASSUME NEW t \in Threads, ScriptCatches(t)
      PROVE  IdleElsewhere'
  BY <1>12, Bounds DEF ScriptCatches, Goto, pool, disk, admission, IdleElsewhere, Typed,
    TypedThreads, TypedPool
<1>13. ASSUME NEW t \in Threads, ItemReturns(t)
      PROVE  IdleElsewhere'
  BY <1>13, Bounds DEF ItemReturns, Goto, pool, disk, admission, IdleElsewhere, Typed,
    TypedThreads, TypedPool
<1>14. ASSUME NEW t \in Threads, ItemUnwinds(t)
      PROVE  IdleElsewhere'
  BY <1>14, Bounds DEF ItemUnwinds, Goto, pool, disk, admission, IdleElsewhere, Typed,
    TypedThreads, TypedPool
<1>15. ASSUME NEW W \in SUBSET Items, Primitive(W)
      PROVE  IdleElsewhere'
  BY <1>15, Bounds DEF Primitive, Calling, Goto, Counted, pool, disk, admission, IdleElsewhere,
    Typed, TypedThreads, TypedPool
<1>16. ASSUME StartCheck PROVE IdleElsewhere'
  BY <1>16, Bounds DEF StartCheck, Goto, LoopEnd, pool, disk, admission, IdleElsewhere, Typed,
    TypedThreads, TypedPool
<1>17. ASSUME StartItem PROVE IdleElsewhere'
  BY <1>17, Bounds DEF StartItem, Goto, LoopEnd, pool, disk, admission, IdleElsewhere, Typed,
    TypedThreads, TypedPool
<1>18. ASSUME BarrierOpens PROVE IdleElsewhere'
  BY <1>18, Bounds DEF BarrierOpens, pool, disk, admission, IdleElsewhere, Typed, TypedThreads,
    TypedPool
<1>19. ASSUME Join PROVE IdleElsewhere'
  BY <1>19, Bounds DEF Join, pool, disk, admission, IdleElsewhere, Typed, TypedThreads,
    TypedPool
<1>20. ASSUME Boot PROVE IdleElsewhere'
  BY <1>20, Bounds DEF Boot, Goto, pool, disk, admission, IdleElsewhere, Typed, TypedThreads,
    TypedPool
<1>21. ASSUME ScriptReturns PROVE IdleElsewhere'
  BY <1>21, Bounds DEF ScriptReturns, Ends, pool, disk, admission, IdleElsewhere, Typed,
    TypedThreads, TypedPool
<1>22. ASSUME ExitAtGate PROVE IdleElsewhere'
  BY <1>22, Bounds DEF ExitAtGate, Unwinding, Ends, pool, disk, admission, IdleElsewhere, Typed,
    TypedThreads, TypedPool
<1>23. ASSUME ExitCancelled PROVE IdleElsewhere'
  BY <1>23, Bounds DEF ExitCancelled, Fails, Unwinding, Ends, pool, disk, admission, IdleElsewhere,
    Typed, TypedThreads, TypedPool
<1>24. ASSUME ExitFailed PROVE IdleElsewhere'
  BY <1>24, Bounds DEF ExitFailed, Fails, Unwinding, Ends, pool, disk, admission, IdleElsewhere, Typed,
    TypedThreads, TypedPool
<1>25. ASSUME Signal PROVE IdleElsewhere'
  BY <1>25, Bounds DEF Signal, pool, disk, admission, IdleElsewhere, Typed, TypedThreads,
    TypedPool
<1>26. ASSUME Crash PROVE IdleElsewhere'
  BY <1>26, Bounds DEF Crash, Ends, pool, disk, admission, IdleElsewhere, Typed, TypedThreads,
    TypedPool
<1>27. ASSUME Resume PROVE IdleElsewhere'
  BY <1>27, Bounds DEF Resume, Commanding, Launches, pool, disk, admission, IdleElsewhere,
    Typed, TypedThreads, TypedPool
<1>28. ASSUME ResumeDies PROVE IdleElsewhere'
  BY <1>28, Bounds DEF ResumeDies, Commanding, pool, disk, admission, IdleElsewhere, Typed,
    TypedThreads, TypedPool
<1>29. ASSUME NEW gs \in Named, NEW c \in Choices, ApproveLaunches(gs, c)
      PROVE  IdleElsewhere'
  BY <1>29, Bounds DEF ApproveLaunches, Commanding, Launches, pool, disk, admission,
    IdleElsewhere, Typed, TypedThreads, TypedPool
<1>30. ASSUME NEW gs \in Named, NEW c \in Choices, ApproveFails(gs, c)
      PROVE  IdleElsewhere'
  BY <1>30, Bounds DEF ApproveFails, Commanding, pool, disk, admission, IdleElsewhere, Typed,
    TypedThreads, TypedPool
<1> QED
  BY <1>1, <1>2, <1>3, <1>4, <1>5, <1>6, <1>7, <1>8, <1>9, <1>10, <1>11, <1>12, <1>13, <1>14,
    <1>15, <1>16, <1>17, <1>18, <1>19, <1>20, <1>21, <1>22, <1>23, <1>24, <1>25, <1>26, <1>27,
    <1>28, <1>29, <1>30 DEF Next, ThreadStep, MainStep, Command

(* A step that moves no thread into or out of a call keeps the count.      *)
LEMMA SameAgents ==
  ASSUME AgentsCounted, inflight' = inflight,
         \A u \in Threads : pc'[u] = "agent" <=> pc[u] = "agent"
  PROVE  AgentsCounted'
<1>1. AgentsIn' = AgentsIn
  BY DEF AgentsIn
<1> QED BY <1>1 DEF AgentsCounted

LEMMA ThreadsFinite == IsFiniteSet(Threads) /\ IsFiniteSet(AgentsIn)
<1>1. IsFiniteSet({Main}) /\ IsFiniteSet(Items)
  BY FS_Singleton, GateAssumption
<1>2. IsFiniteSet(Threads)
  BY <1>1, FS_Union DEF Threads
<1> QED BY <1>2, FS_Subset DEF AgentsIn

LEMMA EmptyCount ==
  ASSUME \A u \in Threads : pc'[u] = "idle", inflight' = 0
  PROVE  AgentsCounted'
<1>1. AgentsIn' = {}
  BY DEF AgentsIn
<1> QED BY <1>1, FS_EmptySet DEF AgentsCounted

(* in_flight_agents is the number of threads inside a call.                *)
LEMMA CountNext ==
  ASSUME Typed, IdleElsewhere, AgentsCounted, [Next]_vars
  PROVE  AgentsCounted'
<1>1. CASE UNCHANGED vars
  BY <1>1 DEF vars, AgentsCounted, AgentsIn
<1>2. ASSUME NEW t \in Threads, AgentAdmitted(t)
      PROVE  AgentsCounted'
  <2>1. AgentsIn' = AgentsIn \cup {t} /\ t \notin AgentsIn
    BY <1>2 DEF AgentAdmitted, Calling, Goto, AgentsIn, Typed, TypedThreads
  <2>2. Cardinality(AgentsIn') = Cardinality(AgentsIn) + 1
    BY <2>1, ThreadsFinite, FS_AddElement
  <2> QED BY <1>2, <2>2 DEF AgentAdmitted, AgentsCounted
<1>3. ASSUME NEW t \in Threads, AgentRefused(t)
      PROVE  AgentsCounted'
  BY <1>3, Bounds, SameAgents DEF AgentRefused, Calling, Counted, Raise, Goto, pool, disk,
    admission, IdleElsewhere, Typed, TypedThreads, TypedPool
<1>4. ASSUME NEW t \in Threads, AgentEnds(t)
      PROVE  AgentsCounted'
  <2>1. AgentsIn' = AgentsIn \ {t} /\ t \in AgentsIn
    BY <1>4 DEF AgentEnds, Raise, Goto, AgentsIn, Typed, TypedThreads
  <2>2. Cardinality(AgentsIn') = Cardinality(AgentsIn) - 1
    BY <2>1, ThreadsFinite, FS_RemoveElement
  <2> QED BY <1>4, <2>2 DEF AgentEnds, AgentsCounted
<1>5. ASSUME NEW t \in Threads, NEW g \in Gates, NEW r \in Results,
             NEW o \in Offers \cup {{}}, GateCall(t, g, r, o)
      PROVE  AgentsCounted'
  BY <1>5, Bounds, SameAgents DEF GateCall, Calling, Counted, Raise, Goto, AskOf, pool, disk,
    admission, IdleElsewhere, Typed, TypedThreads, TypedPool
<1>6. ASSUME NEW t \in Threads, GateReturns(t)
      PROVE  AgentsCounted'
  BY <1>6, Bounds, SameAgents DEF GateReturns, Goto, pool, disk, admission, IdleElsewhere,
    Typed, TypedThreads, TypedPool
<1>7. ASSUME NEW t \in Threads, ParkRow(t)
      PROVE  AgentsCounted'
  BY <1>7, Bounds, SameAgents DEF ParkRow, Goto, pool, disk, admission, IdleElsewhere, Typed,
    TypedThreads, TypedPool
<1>8. ASSUME NEW t \in Threads, ParkClose(t)
      PROVE  AgentsCounted'
  BY <1>8, Bounds, SameAgents DEF ParkClose, Goto, pool, disk, admission, IdleElsewhere, Typed,
    TypedThreads, TypedPool
<1>9. ASSUME NEW t \in Threads, ParkDrained(t)
      PROVE  AgentsCounted'
  BY <1>9, Bounds, SameAgents DEF ParkDrained, Goto, pool, disk, admission, IdleElsewhere,
    Typed, TypedThreads, TypedPool
<1>10. ASSUME NEW t \in Threads, ParkProjects(t)
      PROVE  AgentsCounted'
  BY <1>10, Bounds, SameAgents DEF ParkProjects, Goto, pool, disk, admission, IdleElsewhere,
    Typed, TypedThreads, TypedPool
<1>11. ASSUME NEW t \in Threads, ScriptLogs(t)
      PROVE  AgentsCounted'
  BY <1>11, Bounds, SameAgents DEF ScriptLogs, pool, disk, admission, IdleElsewhere, Typed,
    TypedThreads, TypedPool
<1>12. ASSUME NEW t \in Threads, ScriptCatches(t)
      PROVE  AgentsCounted'
  BY <1>12, Bounds, SameAgents DEF ScriptCatches, Goto, pool, disk, admission, IdleElsewhere,
    Typed, TypedThreads, TypedPool
<1>13. ASSUME NEW t \in Threads, ItemReturns(t)
      PROVE  AgentsCounted'
  BY <1>13, Bounds, SameAgents DEF ItemReturns, Goto, pool, disk, admission, IdleElsewhere,
    Typed, TypedThreads, TypedPool
<1>14. ASSUME NEW t \in Threads, ItemUnwinds(t)
      PROVE  AgentsCounted'
  BY <1>14, Bounds, SameAgents DEF ItemUnwinds, Goto, pool, disk, admission, IdleElsewhere,
    Typed, TypedThreads, TypedPool
<1>15. ASSUME NEW W \in SUBSET Items, Primitive(W)
      PROVE  AgentsCounted'
  BY <1>15, Bounds, SameAgents DEF Primitive, Calling, Goto, Counted, pool, disk, admission,
    IdleElsewhere, Typed, TypedThreads, TypedPool
<1>16. ASSUME StartCheck PROVE AgentsCounted'
  BY <1>16, Bounds, SameAgents DEF StartCheck, Goto, LoopEnd, pool, disk, admission,
    IdleElsewhere, Typed, TypedThreads, TypedPool
<1>17. ASSUME StartItem PROVE AgentsCounted'
  BY <1>17, Bounds, SameAgents DEF StartItem, Goto, LoopEnd, pool, disk, admission,
    IdleElsewhere, Typed, TypedThreads, TypedPool
<1>18. ASSUME BarrierOpens PROVE AgentsCounted'
  BY <1>18, Bounds, SameAgents DEF BarrierOpens, pool, disk, admission, IdleElsewhere, Typed,
    TypedThreads, TypedPool
<1>19. ASSUME Join PROVE AgentsCounted'
  BY <1>19, Bounds, SameAgents DEF Join, pool, disk, admission, IdleElsewhere, Typed,
    TypedThreads, TypedPool
<1>20. ASSUME Boot PROVE AgentsCounted'
  BY <1>20, Bounds, SameAgents DEF Boot, Goto, pool, disk, admission, IdleElsewhere, Typed,
    TypedThreads, TypedPool
<1>21. ASSUME ScriptReturns PROVE AgentsCounted'
  <2>1. inflight' = 0 /\ \A u \in Threads : pc'[u] = "idle"
    BY <1>21 DEF ScriptReturns, Ends
  <2> QED BY <2>1, EmptyCount
<1>22. ASSUME ExitAtGate PROVE AgentsCounted'
  <2>1. inflight' = 0 /\ \A u \in Threads : pc'[u] = "idle"
    BY <1>22 DEF ExitAtGate, Ends
  <2> QED BY <2>1, EmptyCount
<1>23. ASSUME ExitCancelled PROVE AgentsCounted'
  <2>1. inflight' = 0 /\ \A u \in Threads : pc'[u] = "idle"
    BY <1>23 DEF ExitCancelled, Fails, Ends
  <2> QED BY <2>1, EmptyCount
<1>24. ASSUME ExitFailed PROVE AgentsCounted'
  <2>1. inflight' = 0 /\ \A u \in Threads : pc'[u] = "idle"
    BY <1>24 DEF ExitFailed, Fails, Ends
  <2> QED BY <2>1, EmptyCount
<1>25. ASSUME Signal PROVE AgentsCounted'
  BY <1>25, Bounds, SameAgents DEF Signal, pool, disk, admission, IdleElsewhere, Typed,
    TypedThreads, TypedPool
<1>26. ASSUME Crash PROVE AgentsCounted'
  <2>1. inflight' = 0 /\ \A u \in Threads : pc'[u] = "idle"
    BY <1>26 DEF Crash, Ends
  <2> QED BY <2>1, EmptyCount
<1>27. ASSUME Resume PROVE AgentsCounted'
  BY <1>27, Bounds, SameAgents DEF Resume, Commanding, Launches, pool, disk, admission,
    IdleElsewhere, Typed, TypedThreads, TypedPool
<1>28. ASSUME ResumeDies PROVE AgentsCounted'
  BY <1>28, Bounds, SameAgents DEF ResumeDies, Commanding, pool, disk, admission, IdleElsewhere,
    Typed, TypedThreads, TypedPool
<1>29. ASSUME NEW gs \in Named, NEW c \in Choices, ApproveLaunches(gs, c)
      PROVE  AgentsCounted'
  BY <1>29, Bounds, SameAgents DEF ApproveLaunches, Commanding, Launches, pool, disk, admission,
    IdleElsewhere, Typed, TypedThreads, TypedPool
<1>30. ASSUME NEW gs \in Named, NEW c \in Choices, ApproveFails(gs, c)
      PROVE  AgentsCounted'
  BY <1>30, Bounds, SameAgents DEF ApproveFails, Commanding, pool, disk, admission,
    IdleElsewhere, Typed, TypedThreads, TypedPool
<1> QED
  BY <1>1, <1>2, <1>3, <1>4, <1>5, <1>6, <1>7, <1>8, <1>9, <1>10, <1>11, <1>12, <1>13, <1>14,
    <1>15, <1>16, <1>17, <1>18, <1>19, <1>20, <1>21, <1>22, <1>23, <1>24, <1>25, <1>26, <1>27,
    <1>28, <1>29, <1>30 DEF Next, ThreadStep, MainStep, Command

(* The count is bounded by the threads there are, and positive when a      *)
(* thread is inside a call.                                                *)
LEMMA CountBounds ==
  ASSUME AgentsCounted
  PROVE  /\ inflight \in 0..Cardinality(Threads)
         /\ inflight = 0 <=> \A t \in Threads : pc[t] # "agent"
<1>1. /\ Cardinality(AgentsIn) \in Nat /\ Cardinality(Threads) \in Nat
      /\ Cardinality(AgentsIn) <= Cardinality(Threads)
  <2>1. AgentsIn \subseteq Threads
    BY DEF AgentsIn
  <2> QED BY <2>1, ThreadsFinite, FS_Subset, FS_CardinalityType
<1>2. Cardinality(AgentsIn) = 0 <=> AgentsIn = {}
  BY ThreadsFinite, FS_EmptySet
<1> QED BY <1>1, <1>2 DEF AgentsCounted, AgentsIn

(* A gate in the air means admission is closed, and a projected one that   *)
(* nothing is in flight.                                                   *)
LEMMA CloseNext ==
  ASSUME Typed, IdleElsewhere, AgentsCounted, GatesClose, [Next]_vars
  PROVE  GatesClose'
<1>1. CASE UNCHANGED vars
  BY <1>1 DEF vars, GatesClose
<1>2. ASSUME NEW t \in Threads, AgentAdmitted(t)
      PROVE  GatesClose'
  BY <1>2, Bounds, CountBounds DEF AgentAdmitted, Calling, Goto, Counted, pool, disk, admission,
    GatesClose, Typed, TypedThreads, IdleElsewhere, AfterAppend, Projection, NoExc
<1>3. ASSUME NEW t \in Threads, AgentRefused(t)
      PROVE  GatesClose'
  BY <1>3, Bounds, CountBounds DEF AgentRefused, Calling, Counted, Raise, Goto, pool, disk,
    admission, GatesClose, Typed, TypedThreads, IdleElsewhere, AfterAppend, Projection, NoExc
<1>4. ASSUME NEW t \in Threads, AgentEnds(t)
      PROVE  GatesClose'
  BY <1>4, Bounds, CountBounds DEF AgentEnds, Goto, Raise, pool, disk, admission, GatesClose,
    Typed, TypedThreads, IdleElsewhere, AfterAppend, Projection, NoExc
<1>5. ASSUME NEW t \in Threads, NEW g \in Gates, NEW r \in Results,
             NEW o \in Offers \cup {{}}, GateCall(t, g, r, o)
      PROVE  GatesClose'
  BY <1>5, Bounds, CountBounds DEF GateCall, Calling, Counted, Raise, Goto, AskOf, pool, disk,
    admission, GatesClose, Typed, TypedThreads, IdleElsewhere, AfterAppend, Projection, NoExc
<1>6. ASSUME NEW t \in Threads, GateReturns(t)
      PROVE  GatesClose'
  BY <1>6, Bounds, CountBounds DEF GateReturns, Goto, pool, disk, admission, GatesClose, Typed,
    TypedThreads, IdleElsewhere, AfterAppend, Projection, NoExc
<1>7. ASSUME NEW t \in Threads, ParkRow(t)
      PROVE  GatesClose'
  BY <1>7, Bounds, CountBounds DEF ParkRow, Goto, pool, disk, admission, GatesClose, Typed,
    TypedThreads, IdleElsewhere, AfterAppend, Projection, NoExc
<1>8. ASSUME NEW t \in Threads, ParkClose(t)
      PROVE  GatesClose'
  BY <1>8, Bounds, CountBounds DEF ParkClose, Goto, pool, disk, admission, GatesClose, Typed,
    TypedThreads, IdleElsewhere, AfterAppend, Projection, NoExc
<1>9. ASSUME NEW t \in Threads, ParkDrained(t)
      PROVE  GatesClose'
  BY <1>9, Bounds, CountBounds DEF ParkDrained, Goto, pool, disk, admission, GatesClose, Typed,
    TypedThreads, IdleElsewhere, AfterAppend, Projection, NoExc
<1>10. ASSUME NEW t \in Threads, ParkProjects(t)
      PROVE  GatesClose'
  BY <1>10, Bounds, CountBounds DEF ParkProjects, Goto, pool, disk, admission, GatesClose,
    Typed, TypedThreads, IdleElsewhere, AfterAppend, Projection, NoExc
<1>11. ASSUME NEW t \in Threads, ScriptLogs(t)
      PROVE  GatesClose'
  BY <1>11, Bounds, CountBounds DEF ScriptLogs, pool, disk, admission, GatesClose, Typed,
    TypedThreads, IdleElsewhere, AfterAppend, Projection, NoExc
<1>12. ASSUME NEW t \in Threads, ScriptCatches(t)
      PROVE  GatesClose'
  BY <1>12, Bounds, CountBounds DEF ScriptCatches, Goto, pool, disk, admission, GatesClose,
    Typed, TypedThreads, IdleElsewhere, AfterAppend, Projection, NoExc
<1>13. ASSUME NEW t \in Threads, ItemReturns(t)
      PROVE  GatesClose'
  BY <1>13, Bounds, CountBounds DEF ItemReturns, Goto, pool, disk, admission, GatesClose, Typed,
    TypedThreads, IdleElsewhere, AfterAppend, Projection, NoExc
<1>14. ASSUME NEW t \in Threads, ItemUnwinds(t)
      PROVE  GatesClose'
  <2>1. stop' = stop /\ cancel' = cancel /\ inflight' = inflight /\ status' = status /\ up' = up
    BY <1>14 DEF ItemUnwinds, disk, admission
  <2>2. firstGate' # NoAsk => stop
    BY <1>14 DEF ItemUnwinds, GatesClose
  <2>3. \A u \in Threads : /\ pc'[u] \in {"drain", "project"} => pc'[u] = pc[u]
                           /\ exc'[u].kind = "gate" => exc'[u] = exc[u]
    BY <1>14 DEF ItemUnwinds, Goto, NoExc, Typed, TypedThreads
  <2> QED BY <2>1, <2>2, <2>3 DEF GatesClose
<1>15. ASSUME NEW W \in SUBSET Items, Primitive(W)
      PROVE  GatesClose'
  BY <1>15, Bounds, CountBounds DEF Primitive, Calling, Goto, Counted, pool, disk, admission,
    GatesClose, Typed, TypedThreads, IdleElsewhere, AfterAppend, Projection, NoExc
<1>16. ASSUME StartCheck PROVE GatesClose'
  BY <1>16, Bounds, CountBounds DEF StartCheck, Goto, LoopEnd, pool, disk, admission,
    GatesClose, Typed, TypedThreads, IdleElsewhere, AfterAppend, Projection, NoExc
<1>17. ASSUME StartItem PROVE GatesClose'
  BY <1>17, Bounds, CountBounds DEF StartItem, Goto, LoopEnd, pool, disk, admission, GatesClose,
    Typed, TypedThreads, IdleElsewhere, AfterAppend, Projection, NoExc
<1>18. ASSUME BarrierOpens PROVE GatesClose'
  BY <1>18, Bounds, CountBounds DEF BarrierOpens, pool, disk, admission, GatesClose, Typed,
    TypedThreads, IdleElsewhere, AfterAppend, Projection, NoExc
<1>19. ASSUME Join PROVE GatesClose'
  <2>1. \A u \in Threads : pc[u] # "agent"
    BY <1>19, Bounds DEF Join, IdleElsewhere
  <2>2. inflight = 0
    BY <2>1, CountBounds
  <2>3. stop' = stop /\ cancel' = cancel /\ inflight' = inflight /\ up' = up /\ firstGate' = NoAsk
    BY <1>19 DEF Join, admission
  <2>4. status'.phase = "paused" /\ ~cancel => stop \/ status' = status
    BY <1>19 DEF Join, GatesClose
  <2>5. \A u \in Threads : pc'[u] \in {"drain", "project"} => pc'[u] = pc[u]
    BY <1>19 DEF Join
  <2>6. \A u \in Threads : exc'[u].kind = "gate" => stop
    BY <1>19 DEF Join, NoExc, GatesClose, Typed, TypedThreads
  <2> QED BY <2>2, <2>3, <2>4, <2>5, <2>6 DEF GatesClose
<1>20. ASSUME Boot PROVE GatesClose'
  BY <1>20, Bounds, CountBounds DEF Boot, Goto, pool, disk, admission, GatesClose, Typed,
    TypedThreads, IdleElsewhere, AfterAppend, Projection, NoExc
<1>21. ASSUME ScriptReturns PROVE GatesClose'
  BY <1>21, Bounds, CountBounds DEF ScriptReturns, Ends, pool, disk, admission, GatesClose,
    Typed, TypedThreads, IdleElsewhere, AfterAppend, Projection, NoExc
<1>22. ASSUME ExitAtGate PROVE GatesClose'
  BY <1>22, Bounds, CountBounds DEF ExitAtGate, Unwinding, Ends, pool, disk, admission,
    GatesClose, Typed, TypedThreads, IdleElsewhere, AfterAppend, Projection, NoExc
<1>23. ASSUME ExitCancelled PROVE GatesClose'
  BY <1>23, Bounds, CountBounds DEF ExitCancelled, Fails, Unwinding, Ends, pool, disk, admission,
    GatesClose, Typed, TypedThreads, IdleElsewhere, AfterAppend, Projection, NoExc
<1>24. ASSUME ExitFailed PROVE GatesClose'
  BY <1>24, Bounds, CountBounds DEF ExitFailed, Fails, Unwinding, Ends, pool, disk, admission,
    GatesClose, Typed, TypedThreads, IdleElsewhere, AfterAppend, Projection, NoExc
<1>25. ASSUME Signal PROVE GatesClose'
  BY <1>25, Bounds, CountBounds DEF Signal, pool, disk, admission, GatesClose, Typed,
    TypedThreads, IdleElsewhere, AfterAppend, Projection, NoExc
<1>26. ASSUME Crash PROVE GatesClose'
  BY <1>26, Bounds, CountBounds DEF Crash, Ends, pool, disk, admission, GatesClose, Typed,
    TypedThreads, IdleElsewhere, AfterAppend, Projection, NoExc
<1>27. ASSUME Resume PROVE GatesClose'
  BY <1>27, Bounds, CountBounds DEF Resume, Commanding, Launches, pool, disk, admission,
    GatesClose, Typed, TypedThreads, IdleElsewhere, AfterAppend, Projection, NoExc
<1>28. ASSUME ResumeDies PROVE GatesClose'
  BY <1>28, Bounds, CountBounds DEF ResumeDies, Commanding, pool, disk, admission, GatesClose,
    Typed, TypedThreads, IdleElsewhere, AfterAppend, Projection, NoExc
<1>29. ASSUME NEW gs \in Named, NEW c \in Choices, ApproveLaunches(gs, c)
      PROVE  GatesClose'
  BY <1>29, Bounds, CountBounds DEF ApproveLaunches, Commanding, Launches, pool, disk,
    admission, GatesClose, Typed, TypedThreads, IdleElsewhere, AfterAppend, Projection, NoExc
<1>30. ASSUME NEW gs \in Named, NEW c \in Choices, ApproveFails(gs, c)
      PROVE  GatesClose'
  BY <1>30, Bounds, CountBounds DEF ApproveFails, Commanding, pool, disk, admission, GatesClose,
    Typed, TypedThreads, IdleElsewhere, AfterAppend, Projection, NoExc
<1> QED
  BY <1>1, <1>2, <1>3, <1>4, <1>5, <1>6, <1>7, <1>8, <1>9, <1>10, <1>11, <1>12, <1>13, <1>14,
    <1>15, <1>16, <1>17, <1>18, <1>19, <1>20, <1>21, <1>22, <1>23, <1>24, <1>25, <1>26, <1>27,
    <1>28, <1>29, <1>30 DEF Next, ThreadStep, MainStep, Command

(* Rows are only appended, by a thread that asks its question.             *)
LEMMA RowsGrow ==
  ASSUME Typed, QuestionsAsked, [Next]_vars
  PROVE  \A i \in DOMAIN rows : i \in DOMAIN rows' /\ rows'[i] = rows[i]
<1>1. rows' = rows \/ \E t \in Threads : call[t] \in Calls /\ rows' = Append(rows, call[t])
  <2>1. CASE UNCHANGED vars
    BY <2>1 DEF vars
  <2>2. ASSUME NEW t \in Threads, ParkRow(t)
        PROVE  rows' = rows \/ (call[t] \in Calls /\ rows' = Append(rows, call[t]))
    BY <2>2, CopiedQuestions DEF ParkRow, InCall
  <2> QED
    BY <2>1, <2>2 DEF Next, ThreadStep, MainStep, Command, AgentAdmitted, AgentRefused,
      AgentEnds,
      GateCall, ParkClose, ParkDrained, ParkProjects, ScriptCatches, ItemReturns, ItemUnwinds,
      Primitive, StartCheck, StartItem, BarrierOpens, Join, Boot, ScriptReturns, ExitAtGate,
      ExitCancelled, ExitFailed, Signal, Crash, Ends, Resume, ResumeDies, ApproveLaunches,
      ApproveFails, GateReturns, ScriptLogs, disk
<1>2. \A i \in DOMAIN rows : i \in DOMAIN rows' /\ rows'[i] = rows[i]
  <2>1. rows \in Seq(Calls)
    BY DEF Typed, TypedDisk
  <2>2. ASSUME NEW c \in Calls, NEW i \in DOMAIN rows
        PROVE  i \in DOMAIN Append(rows, c) /\ Append(rows, c)[i] = rows[i]
    BY <2>1
  <2> QED BY <1>1, <2>2
<1> QED BY <1>2

COROLLARY QuestionsGrow ==
  ASSUME Typed, QuestionsAsked, [Next]_vars
  PROVE  Questions \subseteq Questions'
BY RowsGrow DEF Questions

(* status.json names a question with a row.                                *)
LEMMA StatusNext ==
  ASSUME Typed, QuestionsAsked, [Next]_vars
  PROVE  StatusAsked'
<1>1. CASE UNCHANGED vars
  BY <1>1 DEF vars, StatusAsked, Questions, QuestionsAsked
<1>2. ASSUME NEW t \in Threads, AgentAdmitted(t)
      PROVE  StatusAsked'
  BY <1>2, QuestionsGrow, CopiedQuestions, Bounds DEF AgentAdmitted, Calling, Goto, Counted,
    pool, disk, admission, StatusAsked, AfterAppend, Projection
<1>3. ASSUME NEW t \in Threads, AgentRefused(t)
      PROVE  StatusAsked'
  BY <1>3, QuestionsGrow, CopiedQuestions, Bounds DEF AgentRefused, Calling, Counted, Raise,
    Goto, pool, disk, admission, StatusAsked, AfterAppend, Projection
<1>4. ASSUME NEW t \in Threads, AgentEnds(t)
      PROVE  StatusAsked'
  BY <1>4, QuestionsGrow, CopiedQuestions, Bounds DEF AgentEnds, Goto, Raise, pool, disk,
    admission, StatusAsked, AfterAppend, Projection
<1>5. ASSUME NEW t \in Threads, NEW g \in Gates, NEW r \in Results,
             NEW o \in Offers \cup {{}}, GateCall(t, g, r, o)
      PROVE  StatusAsked'
  BY <1>5, QuestionsGrow, CopiedQuestions, Bounds DEF GateCall, Calling, Counted, Raise, Goto,
    AskOf, pool, disk, admission, StatusAsked, AfterAppend, Projection
<1>6. ASSUME NEW t \in Threads, GateReturns(t)
      PROVE  StatusAsked'
  BY <1>6, QuestionsGrow, CopiedQuestions, Bounds DEF GateReturns, Goto, pool, disk, admission,
    StatusAsked, AfterAppend, Projection
<1>7. ASSUME NEW t \in Threads, ParkRow(t)
      PROVE  StatusAsked'
  BY <1>7, QuestionsGrow, CopiedQuestions, Bounds DEF ParkRow, Goto, pool, disk, admission,
    StatusAsked, AfterAppend, Projection
<1>8. ASSUME NEW t \in Threads, ParkClose(t)
      PROVE  StatusAsked'
  BY <1>8, QuestionsGrow, CopiedQuestions, Bounds DEF ParkClose, Goto, pool, disk, admission,
    StatusAsked, AfterAppend, Projection
<1>9. ASSUME NEW t \in Threads, ParkDrained(t)
      PROVE  StatusAsked'
  BY <1>9, QuestionsGrow, CopiedQuestions, Bounds DEF ParkDrained, Goto, pool, disk, admission,
    StatusAsked, AfterAppend, Projection
<1>10. ASSUME NEW t \in Threads, ParkProjects(t)
      PROVE  StatusAsked'
  <2>1. AskOf(call[t]) \in Questions /\ AskOf(call[t]) \in Asks
    BY <1>10, CopiedQuestions DEF ParkProjects, InCall, QuestionsAsked, ThreadsAsked
  <2> QED BY <1>10, <2>1, QuestionsGrow, CopiedQuestions DEF ParkProjects, StatusAsked,
    Projection
<1>11. ASSUME NEW t \in Threads, ScriptLogs(t)
      PROVE  StatusAsked'
  BY <1>11, QuestionsGrow, CopiedQuestions, Bounds DEF ScriptLogs, pool, disk, admission,
    StatusAsked, AfterAppend, Projection
<1>12. ASSUME NEW t \in Threads, ScriptCatches(t)
      PROVE  StatusAsked'
  BY <1>12, QuestionsGrow, CopiedQuestions, Bounds DEF ScriptCatches, Goto, pool, disk,
    admission, StatusAsked, AfterAppend, Projection
<1>13. ASSUME NEW t \in Threads, ItemReturns(t)
      PROVE  StatusAsked'
  BY <1>13, QuestionsGrow, CopiedQuestions, Bounds DEF ItemReturns, Goto, pool, disk, admission,
    StatusAsked, AfterAppend, Projection
<1>14. ASSUME NEW t \in Threads, ItemUnwinds(t)
      PROVE  StatusAsked'
  BY <1>14, QuestionsGrow, CopiedQuestions, Bounds DEF ItemUnwinds, Goto, pool, disk, admission,
    StatusAsked, AfterAppend, Projection
<1>15. ASSUME NEW W \in SUBSET Items, Primitive(W)
      PROVE  StatusAsked'
  BY <1>15, QuestionsGrow, CopiedQuestions, Bounds DEF Primitive, Calling, Goto, Counted, pool,
    disk, admission, StatusAsked, AfterAppend, Projection
<1>16. ASSUME StartCheck PROVE StatusAsked'
  BY <1>16, QuestionsGrow, CopiedQuestions, Bounds DEF StartCheck, Goto, LoopEnd, pool, disk,
    admission, StatusAsked, AfterAppend, Projection
<1>17. ASSUME StartItem PROVE StatusAsked'
  BY <1>17, QuestionsGrow, CopiedQuestions, Bounds DEF StartItem, Goto, LoopEnd, pool, disk,
    admission, StatusAsked, AfterAppend, Projection
<1>18. ASSUME BarrierOpens PROVE StatusAsked'
  BY <1>18, QuestionsGrow, CopiedQuestions, Bounds DEF BarrierOpens, pool, disk, admission,
    StatusAsked, AfterAppend, Projection
<1>19. ASSUME Join PROVE StatusAsked'
  BY <1>19, QuestionsGrow, CopiedQuestions, Bounds DEF Join, pool, disk, admission, StatusAsked,
    AfterAppend, Projection
<1>20. ASSUME Boot PROVE StatusAsked'
  BY <1>20, QuestionsGrow, CopiedQuestions, Bounds DEF Boot, Goto, pool, disk, admission,
    StatusAsked, AfterAppend, Projection
<1>21. ASSUME ScriptReturns PROVE StatusAsked'
  BY <1>21, QuestionsGrow, CopiedQuestions, Bounds DEF ScriptReturns, Ends, pool, disk,
    admission, StatusAsked, AfterAppend, Projection
<1>22. ASSUME ExitAtGate PROVE StatusAsked'
  BY <1>22, QuestionsGrow, CopiedQuestions, Bounds DEF ExitAtGate, Unwinding, Ends, pool, disk,
    admission, StatusAsked, AfterAppend, Projection
<1>23. ASSUME ExitCancelled PROVE StatusAsked'
  BY <1>23, QuestionsGrow, CopiedQuestions, Targets DEF ExitCancelled, Fails, Ends, QuestionsAsked,
    StatusAsked, Projection
<1>24. ASSUME ExitFailed PROVE StatusAsked'
  BY <1>24, QuestionsGrow, CopiedQuestions, Bounds DEF ExitFailed, Fails, Unwinding, Ends, pool, disk,
    admission, StatusAsked, AfterAppend, Projection
<1>25. ASSUME Signal PROVE StatusAsked'
  BY <1>25, QuestionsGrow, CopiedQuestions, Bounds DEF Signal, pool, disk, admission,
    StatusAsked, AfterAppend, Projection
<1>26. ASSUME Crash PROVE StatusAsked'
  BY <1>26, QuestionsGrow, CopiedQuestions, Bounds DEF Crash, Ends, pool, disk, admission,
    StatusAsked, AfterAppend, Projection
<1>27. ASSUME Resume PROVE StatusAsked'
  BY <1>27, QuestionsGrow, CopiedQuestions, Bounds DEF Resume, Commanding, Launches, pool, disk,
    admission, StatusAsked, AfterAppend, Projection
<1>28. ASSUME ResumeDies PROVE StatusAsked'
  BY <1>28, QuestionsGrow, CopiedQuestions, Bounds DEF ResumeDies, Commanding, pool, disk,
    admission, StatusAsked, AfterAppend, Projection
<1>29. ASSUME NEW gs \in Named, NEW c \in Choices, ApproveLaunches(gs, c)
      PROVE  StatusAsked'
  BY <1>29, QuestionsGrow, CopiedQuestions, Targets DEF ApproveLaunches, Ends, QuestionsAsked,
    StatusAsked, Projection
<1>30. ASSUME NEW gs \in Named, NEW c \in Choices, ApproveFails(gs, c)
      PROVE  StatusAsked'
  BY <1>30, QuestionsGrow, CopiedQuestions, Targets DEF ApproveFails, Ends, QuestionsAsked,
    StatusAsked, Projection
<1> QED
  BY <1>1, <1>2, <1>3, <1>4, <1>5, <1>6, <1>7, <1>8, <1>9, <1>10, <1>11, <1>12, <1>13, <1>14,
    <1>15, <1>16, <1>17, <1>18, <1>19, <1>20, <1>21, <1>22, <1>23, <1>24, <1>25, <1>26, <1>27,
    <1>28, <1>29, <1>30 DEF Next, ThreadStep, MainStep, Command

(* The gate that closed admission, and the first of a wave, have rows.      *)
LEMMA GateNext ==
  ASSUME Typed, QuestionsAsked, [Next]_vars
  PROVE  GateAsked'
<1>1. CASE UNCHANGED vars
  BY <1>1 DEF vars, GateAsked, Questions, QuestionsAsked
<1>2. ASSUME NEW t \in Threads, AgentAdmitted(t)
      PROVE  GateAsked'
  BY <1>2, QuestionsGrow, CopiedQuestions, Bounds DEF AgentAdmitted, Calling, Goto, Counted,
    pool, disk, admission, QuestionsAsked, GateAsked
<1>3. ASSUME NEW t \in Threads, AgentRefused(t)
      PROVE  GateAsked'
  BY <1>3, QuestionsGrow, CopiedQuestions, Bounds DEF AgentRefused, Calling, Counted, Raise,
    Goto, pool, disk, admission, QuestionsAsked, GateAsked
<1>4. ASSUME NEW t \in Threads, AgentEnds(t)
      PROVE  GateAsked'
  BY <1>4, QuestionsGrow, CopiedQuestions, Bounds DEF AgentEnds, Goto, Raise, pool, disk,
    admission, QuestionsAsked, GateAsked
<1>5. ASSUME NEW t \in Threads, NEW g \in Gates, NEW r \in Results,
             NEW o \in Offers \cup {{}}, GateCall(t, g, r, o)
      PROVE  GateAsked'
  BY <1>5, QuestionsGrow, CopiedQuestions, Bounds DEF GateCall, Calling, Counted, Raise, Goto,
    AskOf, pool, disk, admission, QuestionsAsked, GateAsked
<1>6. ASSUME NEW t \in Threads, GateReturns(t)
      PROVE  GateAsked'
  BY <1>6, QuestionsGrow, CopiedQuestions, Bounds DEF GateReturns, Goto, pool, disk, admission,
    QuestionsAsked, GateAsked
<1>7. ASSUME NEW t \in Threads, ParkRow(t)
      PROVE  GateAsked'
  BY <1>7, QuestionsGrow, CopiedQuestions, Bounds DEF ParkRow, Goto, pool, disk, admission,
    QuestionsAsked, GateAsked
<1>8. ASSUME NEW t \in Threads, ParkClose(t)
      PROVE  GateAsked'
  BY <1>8, QuestionsGrow, CopiedQuestions, Bounds DEF ParkClose, pool, QuestionsAsked,
    GateAsked, ThreadsAsked
<1>9. ASSUME NEW t \in Threads, ParkDrained(t)
      PROVE  GateAsked'
  BY <1>9, QuestionsGrow, CopiedQuestions, Bounds DEF ParkDrained, Goto, pool, disk, admission,
    QuestionsAsked, GateAsked
<1>10. ASSUME NEW t \in Threads, ParkProjects(t)
      PROVE  GateAsked'
  BY <1>10, QuestionsGrow, CopiedQuestions, Bounds DEF ParkProjects, Goto, pool, disk,
    admission, QuestionsAsked, GateAsked
<1>11. ASSUME NEW t \in Threads, ScriptLogs(t)
      PROVE  GateAsked'
  BY <1>11, QuestionsGrow, CopiedQuestions, Bounds DEF ScriptLogs, pool, disk, admission,
    QuestionsAsked, GateAsked
<1>12. ASSUME NEW t \in Threads, ScriptCatches(t)
      PROVE  GateAsked'
  BY <1>12, QuestionsGrow, CopiedQuestions, Bounds DEF ScriptCatches, Goto, pool, disk,
    admission, QuestionsAsked, GateAsked
<1>13. ASSUME NEW t \in Threads, ItemReturns(t)
      PROVE  GateAsked'
  BY <1>13, QuestionsGrow, CopiedQuestions, Bounds DEF ItemReturns, Goto, pool, disk, admission,
    QuestionsAsked, GateAsked
<1>14. ASSUME NEW t \in Threads, ItemUnwinds(t)
      PROVE  GateAsked'
  BY <1>14, QuestionsGrow, CopiedQuestions, Bounds DEF ItemUnwinds, Goto, pool, disk, admission,
    QuestionsAsked, GateAsked
<1>15. ASSUME NEW W \in SUBSET Items, Primitive(W)
      PROVE  GateAsked'
  BY <1>15, QuestionsGrow, CopiedQuestions, Bounds DEF Primitive, Calling, Goto, Counted, pool,
    disk, admission, QuestionsAsked, GateAsked
<1>16. ASSUME StartCheck PROVE GateAsked'
  BY <1>16, QuestionsGrow, CopiedQuestions, Bounds DEF StartCheck, Goto, LoopEnd, pool, disk,
    admission, QuestionsAsked, GateAsked
<1>17. ASSUME StartItem PROVE GateAsked'
  BY <1>17, QuestionsGrow, CopiedQuestions, Bounds DEF StartItem, Goto, LoopEnd, pool, disk,
    admission, QuestionsAsked, GateAsked
<1>18. ASSUME BarrierOpens PROVE GateAsked'
  BY <1>18, QuestionsGrow, CopiedQuestions, Bounds DEF BarrierOpens, pool, disk, admission,
    QuestionsAsked, GateAsked
<1>19. ASSUME Join PROVE GateAsked'
  BY <1>19, QuestionsGrow, CopiedQuestions, Bounds DEF Join, pool, disk, admission,
    QuestionsAsked, GateAsked
<1>20. ASSUME Boot PROVE GateAsked'
  BY <1>20, QuestionsGrow, CopiedQuestions, Bounds DEF Boot, Goto, pool, disk, admission,
    QuestionsAsked, GateAsked
<1>21. ASSUME ScriptReturns PROVE GateAsked'
  BY <1>21, QuestionsGrow, CopiedQuestions, Bounds DEF ScriptReturns, Ends, pool, disk,
    admission, QuestionsAsked, GateAsked
<1>22. ASSUME ExitAtGate PROVE GateAsked'
  BY <1>22, QuestionsGrow, CopiedQuestions, Bounds DEF ExitAtGate, Unwinding, Ends, pool, disk,
    admission, QuestionsAsked, GateAsked
<1>23. ASSUME ExitCancelled PROVE GateAsked'
  BY <1>23, QuestionsGrow, CopiedQuestions, Bounds DEF ExitCancelled, Fails, Unwinding, Ends, pool,
    disk, admission, QuestionsAsked, GateAsked
<1>24. ASSUME ExitFailed PROVE GateAsked'
  BY <1>24, QuestionsGrow, CopiedQuestions, Bounds DEF ExitFailed, Fails, Unwinding, Ends, pool, disk,
    admission, QuestionsAsked, GateAsked
<1>25. ASSUME Signal PROVE GateAsked'
  BY <1>25, QuestionsGrow, CopiedQuestions, Bounds DEF Signal, pool, disk, admission,
    QuestionsAsked, GateAsked
<1>26. ASSUME Crash PROVE GateAsked'
  BY <1>26, QuestionsGrow, CopiedQuestions, Bounds DEF Crash, Ends, pool, disk, admission,
    QuestionsAsked, GateAsked
<1>27. ASSUME Resume PROVE GateAsked'
  BY <1>27, QuestionsGrow, CopiedQuestions, Bounds DEF Resume, Commanding, Launches, pool, disk,
    admission, QuestionsAsked, GateAsked
<1>28. ASSUME ResumeDies PROVE GateAsked'
  BY <1>28, QuestionsGrow, CopiedQuestions, Bounds DEF ResumeDies, Commanding, pool, disk,
    admission, QuestionsAsked, GateAsked
<1>29. ASSUME NEW gs \in Named, NEW c \in Choices, ApproveLaunches(gs, c)
      PROVE  GateAsked'
  BY <1>29, QuestionsGrow, CopiedQuestions, Bounds DEF ApproveLaunches, Commanding, Launches,
    pool, disk, admission, QuestionsAsked, GateAsked
<1>30. ASSUME NEW gs \in Named, NEW c \in Choices, ApproveFails(gs, c)
      PROVE  GateAsked'
  BY <1>30, QuestionsGrow, CopiedQuestions, Bounds DEF ApproveFails, Commanding, pool, disk,
    admission, QuestionsAsked, GateAsked
<1> QED
  BY <1>1, <1>2, <1>3, <1>4, <1>5, <1>6, <1>7, <1>8, <1>9, <1>10, <1>11, <1>12, <1>13, <1>14,
    <1>15, <1>16, <1>17, <1>18, <1>19, <1>20, <1>21, <1>22, <1>23, <1>24, <1>25, <1>26, <1>27,
    <1>28, <1>29, <1>30 DEF Next, ThreadStep, MainStep, Command

(* Exceptions and gate calls under way name questions with rows.            *)
LEMMA ThreadsNext ==
  ASSUME Typed, QuestionsAsked, [Next]_vars
  PROVE  ThreadsAsked'
<1>1. CASE UNCHANGED vars
  BY <1>1 DEF vars, ThreadsAsked, Questions, QuestionsAsked, InCall
<1>2. ASSUME NEW t \in Threads, AgentAdmitted(t)
      PROVE  ThreadsAsked'
  BY <1>2, QuestionsGrow, CopiedQuestions, Bounds DEF AgentAdmitted, Calling, Goto, Counted,
    pool, disk, admission, QuestionsAsked, ThreadsAsked, InCall, NoExc, Typed, TypedThreads
<1>3. ASSUME NEW t \in Threads, AgentRefused(t)
      PROVE  ThreadsAsked'
  BY <1>3, QuestionsGrow, CopiedQuestions, Bounds DEF AgentRefused, Calling, Counted, Raise,
    Goto, pool, disk, admission, QuestionsAsked, ThreadsAsked, InCall, NoExc, Typed,
    TypedThreads
<1>4. ASSUME NEW t \in Threads, AgentEnds(t)
      PROVE  ThreadsAsked'
  BY <1>4, QuestionsGrow, CopiedQuestions, Bounds DEF AgentEnds, Goto, Raise, pool, disk,
    admission, QuestionsAsked, ThreadsAsked, InCall, NoExc, Typed, TypedThreads
<1>5. ASSUME NEW t \in Threads, NEW g \in Gates, NEW r \in Results,
             NEW o \in Offers \cup {{}}, GateCall(t, g, r, o)
      PROVE  ThreadsAsked'
  <2>1. [gate |-> g, hash |-> Question(g, r, o).hash, actions |-> o] \in Calls
    BY <1>5, QuestionTypes
  <2>2. \A u \in Threads : InCall(u)' => call'[u] \in Calls
    BY <1>5, <2>1, CopiedQuestions DEF GateCall, Raise, Goto, InCall, Typed, TypedThreads
  <2>3. \A u \in Threads : pc'[u] \in {"close", "drain", "project"} => AskOf(call'[u]) \in Questions
    BY <1>5 DEF GateCall, Raise, Goto, QuestionsAsked, ThreadsAsked, Typed, TypedThreads
  <2>4. \A u \in Threads : /\ exc'[u].ask \in Questions \cup {NoAsk}
                           /\ exc'[u].kind = "gate" => exc'[u].ask # NoAsk
    BY <1>5 DEF GateCall, Raise, QuestionsAsked, ThreadsAsked, Typed, TypedThreads
  <2> QED BY <2>2, <2>3, <2>4, QuestionsGrow DEF ThreadsAsked
<1>6. ASSUME NEW t \in Threads, GateReturns(t)
      PROVE  ThreadsAsked'
  BY <1>6, QuestionsGrow, CopiedQuestions, Bounds DEF GateReturns, Goto, pool, disk, admission,
    QuestionsAsked, ThreadsAsked, InCall, NoExc, Typed, TypedThreads
<1>7. ASSUME NEW t \in Threads, ParkRow(t)
      PROVE  ThreadsAsked'
  <2>1. call[t] \in Calls /\ rows \in Seq(Calls) /\ AskOf(call[t]) \in Asks
    BY <1>7, CopiedQuestions DEF ParkRow, InCall, Typed, TypedDisk
  <2>2. AskOf(call[t]) \in Questions'
    <3>1. CASE rows' = Append(rows, call[t])
      <4>1. Len(rows) + 1 \in DOMAIN rows' /\ rows'[Len(rows) + 1] = call[t]
        BY <2>1, <3>1
      <4> QED BY <4>1 DEF Questions
    <3>2. CASE rows' = rows /\ RowsAt(AskOf(call[t])) # {}
      BY <3>2 DEF RowsAt, Questions
    <3> QED BY <1>7, <3>1, <3>2 DEF ParkRow
  <2>3. \A u \in Threads : u # t => pc'[u] = pc[u]
    BY <1>7 DEF ParkRow, Goto, Typed, TypedThreads
  <2> QED BY <1>7, <2>1, <2>2, <2>3, QuestionsGrow DEF ParkRow, QuestionsAsked, ThreadsAsked,
    InCall
<1>8. ASSUME NEW t \in Threads, ParkClose(t)
      PROVE  ThreadsAsked'
  BY <1>8, QuestionsGrow, CopiedQuestions, Bounds DEF ParkClose, Goto, pool, disk, admission,
    QuestionsAsked, ThreadsAsked, InCall, NoExc, Typed, TypedThreads
<1>9. ASSUME NEW t \in Threads, ParkDrained(t)
      PROVE  ThreadsAsked'
  BY <1>9, QuestionsGrow, CopiedQuestions, Bounds DEF ParkDrained, Goto, pool, disk, admission,
    QuestionsAsked, ThreadsAsked, InCall, NoExc, Typed, TypedThreads
<1>10. ASSUME NEW t \in Threads, ParkProjects(t)
      PROVE  ThreadsAsked'
  BY <1>10, QuestionsGrow, CopiedQuestions, Bounds DEF ParkProjects, Goto, pool, disk,
    admission, QuestionsAsked, ThreadsAsked, InCall, NoExc, Typed, TypedThreads
<1>11. ASSUME NEW t \in Threads, ScriptLogs(t)
      PROVE  ThreadsAsked'
  BY <1>11, QuestionsGrow, CopiedQuestions, Bounds DEF ScriptLogs, pool, disk, admission,
    QuestionsAsked, ThreadsAsked, InCall, NoExc, Typed, TypedThreads
<1>12. ASSUME NEW t \in Threads, ScriptCatches(t)
      PROVE  ThreadsAsked'
  BY <1>12, QuestionsGrow, CopiedQuestions, Bounds DEF ScriptCatches, Goto, pool, disk,
    admission, QuestionsAsked, ThreadsAsked, InCall, NoExc, Typed, TypedThreads
<1>13. ASSUME NEW t \in Threads, ItemReturns(t)
      PROVE  ThreadsAsked'
  BY <1>13, QuestionsGrow, CopiedQuestions, Bounds DEF ItemReturns, Goto, pool, disk, admission,
    QuestionsAsked, ThreadsAsked, InCall, NoExc, Typed, TypedThreads
<1>14. ASSUME NEW t \in Threads, ItemUnwinds(t)
      PROVE  ThreadsAsked'
  BY <1>14, QuestionsGrow, CopiedQuestions, Bounds DEF ItemUnwinds, Goto, pool, disk, admission,
    QuestionsAsked, ThreadsAsked, InCall, NoExc, Typed, TypedThreads
<1>15. ASSUME NEW W \in SUBSET Items, Primitive(W)
      PROVE  ThreadsAsked'
  BY <1>15, QuestionsGrow, CopiedQuestions, Bounds DEF Primitive, Calling, Goto, Counted, pool,
    disk, admission, QuestionsAsked, ThreadsAsked, InCall, NoExc, Typed, TypedThreads
<1>16. ASSUME StartCheck PROVE ThreadsAsked'
  BY <1>16, QuestionsGrow, CopiedQuestions, Bounds DEF StartCheck, Goto, LoopEnd, pool, disk,
    admission, QuestionsAsked, ThreadsAsked, InCall, NoExc, Typed, TypedThreads
<1>17. ASSUME StartItem PROVE ThreadsAsked'
  BY <1>17, QuestionsGrow, CopiedQuestions, Bounds DEF StartItem, Goto, LoopEnd, pool, disk,
    admission, QuestionsAsked, ThreadsAsked, InCall, NoExc, Typed, TypedThreads
<1>18. ASSUME BarrierOpens PROVE ThreadsAsked'
  BY <1>18, QuestionsGrow, CopiedQuestions, Bounds DEF BarrierOpens, pool, disk, admission,
    QuestionsAsked, ThreadsAsked, InCall, NoExc, Typed, TypedThreads
<1>19. ASSUME Join PROVE ThreadsAsked'
  BY <1>19, QuestionsGrow, CopiedQuestions, Bounds DEF Join, pool, disk, admission,
    QuestionsAsked, ThreadsAsked, InCall, NoExc, Typed, TypedThreads
<1>20. ASSUME Boot PROVE ThreadsAsked'
  BY <1>20, QuestionsGrow, CopiedQuestions, Bounds DEF Boot, Goto, pool, disk, admission,
    QuestionsAsked, ThreadsAsked, InCall, NoExc, Typed, TypedThreads
<1>21. ASSUME ScriptReturns PROVE ThreadsAsked'
  BY <1>21, QuestionsGrow, CopiedQuestions, Bounds DEF ScriptReturns, Ends, pool, disk,
    admission, QuestionsAsked, ThreadsAsked, InCall, NoExc, Typed, TypedThreads
<1>22. ASSUME ExitAtGate PROVE ThreadsAsked'
  BY <1>22, QuestionsGrow, CopiedQuestions, Bounds DEF ExitAtGate, Unwinding, Ends, pool, disk,
    admission, QuestionsAsked, ThreadsAsked, InCall, NoExc, Typed, TypedThreads
<1>23. ASSUME ExitCancelled PROVE ThreadsAsked'
  BY <1>23, QuestionsGrow, CopiedQuestions, Bounds DEF ExitCancelled, Fails, Unwinding, Ends, pool,
    disk, admission, QuestionsAsked, ThreadsAsked, InCall, NoExc, Typed, TypedThreads
<1>24. ASSUME ExitFailed PROVE ThreadsAsked'
  BY <1>24, QuestionsGrow, CopiedQuestions, Bounds DEF ExitFailed, Fails, Unwinding, Ends, pool, disk,
    admission, QuestionsAsked, ThreadsAsked, InCall, NoExc, Typed, TypedThreads
<1>25. ASSUME Signal PROVE ThreadsAsked'
  BY <1>25, QuestionsGrow, CopiedQuestions, Bounds DEF Signal, pool, disk, admission,
    QuestionsAsked, ThreadsAsked, InCall, NoExc, Typed, TypedThreads
<1>26. ASSUME Crash PROVE ThreadsAsked'
  BY <1>26, QuestionsGrow, CopiedQuestions, Bounds DEF Crash, Ends, pool, disk, admission,
    QuestionsAsked, ThreadsAsked, InCall, NoExc, Typed, TypedThreads
<1>27. ASSUME Resume PROVE ThreadsAsked'
  BY <1>27, QuestionsGrow, CopiedQuestions, Bounds DEF Resume, Commanding, Launches, pool, disk,
    admission, QuestionsAsked, ThreadsAsked, InCall, NoExc, Typed, TypedThreads
<1>28. ASSUME ResumeDies PROVE ThreadsAsked'
  BY <1>28, QuestionsGrow, CopiedQuestions, Bounds DEF ResumeDies, Commanding, pool, disk,
    admission, QuestionsAsked, ThreadsAsked, InCall, NoExc, Typed, TypedThreads
<1>29. ASSUME NEW gs \in Named, NEW c \in Choices, ApproveLaunches(gs, c)
      PROVE  ThreadsAsked'
  BY <1>29, QuestionsGrow, CopiedQuestions, Bounds DEF ApproveLaunches, Commanding, Launches,
    pool, disk, admission, QuestionsAsked, ThreadsAsked, InCall, NoExc, Typed, TypedThreads
<1>30. ASSUME NEW gs \in Named, NEW c \in Choices, ApproveFails(gs, c)
      PROVE  ThreadsAsked'
  BY <1>30, QuestionsGrow, CopiedQuestions, Bounds DEF ApproveFails, Commanding, pool, disk,
    admission, QuestionsAsked, ThreadsAsked, InCall, NoExc, Typed, TypedThreads
<1> QED
  BY <1>1, <1>2, <1>3, <1>4, <1>5, <1>6, <1>7, <1>8, <1>9, <1>10, <1>11, <1>12, <1>13, <1>14,
    <1>15, <1>16, <1>17, <1>18, <1>19, <1>20, <1>21, <1>22, <1>23, <1>24, <1>25, <1>26, <1>27,
    <1>28, <1>29, <1>30 DEF Next, ThreadStep, MainStep, Command

(* An approval is recorded for a question with a row, and with an action   *)
(* the row declares.                                                       *)
LEMMA AnswersNext ==
  ASSUME Typed, QuestionsAsked, AnswersWereAsked, [Next]_vars
  PROVE  AnswersWereAsked'
<1> DEFINE Declares(a) == \E i \in RowsAt(AskOf(a)) : a.action # Approve => a.action \in Declared(rows[i])
<1>1. \A a : Declares(a) => \E i \in DOMAIN rows' :
        AskOf(rows'[i]) = AskOf(a) /\ (a.action # Approve => a.action \in Declared(rows'[i]))
  BY RowsGrow DEF RowsAt
<1>2. \A a \in approvals : Declares(a)
  BY DEF AnswersWereAsked
<1>3. ASSUME NEW ask \in Questions, NEW choice \in Choices,
             choice # {} => choice \subseteq Offered(ask)
      PROVE  \A a \in Recorded(ask, choice) : Declares(a)
  <2>1. PICK j \in DOMAIN rows : AskOf(rows[j]) = ask
    BY DEF Questions
  <2>2. \A d : AskOf([gate |-> ask.gate, hash |-> ask.hash, action |-> d]) = ask
    BY CopiedQuestions DEF Asks, AskOf
  <2>3. ASSUME NEW a \in Recorded(ask, choice), a \notin approvals
        PROVE  /\ AskOf(a) = ask
               /\ a.action # Approve => a.action \in choice
    BY <2>2, <2>3 DEF Recorded
  <2>4. \A d \in choice : \E i \in RowsAt(ask) : d \in Declared(rows[i])
    <3>1. RowsAt(ask) # {}
      BY <2>1 DEF RowsAt
    <3> QED BY <1>3, <3>1 DEF Offered, Latest
  <2>5. ASSUME NEW a \in Recorded(ask, choice), a \notin approvals
        PROVE  Declares(a)
    <3>1. CASE a.action = Approve
      BY <2>1, <2>3, <2>5, <3>1 DEF RowsAt
    <3>2. CASE a.action # Approve
      BY <2>3, <2>4, <2>5, <3>2
    <3> QED BY <3>1, <3>2
  <2> QED BY <1>2, <2>5
<1>4. \A a \in approvals' : Declares(a)
  <2>1. ASSUME approvals' = ResumeRecords
        PROVE  \A a \in approvals' : Declares(a)
    <3>1. {} \in Choices
      BY DEF Choices
    <3> QED BY <1>2, <1>3, <2>1, <3>1, CopiedQuestions DEF ResumeRecords
  <2>2. ASSUME NEW gs \in Named, NEW c \in Choices, ApproveLaunches(gs, c)
        PROVE  \A a \in approvals' : Declares(a)
    <3>1. PICK ask \in ApproveTargets(gs) : Accepts(ask, c) /\ approvals' = Recorded(ask, c)
      BY <2>2 DEF ApproveLaunches
    <3>2. ask \in Questions /\ (c # {} => c \subseteq Offered(ask))
      BY <3>1, Targets DEF Accepts
    <3> QED BY <1>3, <3>1, <3>2
  <2>3. approvals' = approvals \/ approvals' = ResumeRecords
          \/ \E gs \in Named, c \in Choices : ApproveLaunches(gs, c)
    <3>1. CASE UNCHANGED vars
      BY <3>1 DEF vars
    <3> QED
      BY <3>1 DEF Next, ThreadStep, MainStep, Command, AgentAdmitted, AgentRefused, AgentEnds,
        GateCall, GateReturns, ParkRow, ParkClose, ParkDrained, ParkProjects, ScriptLogs,
        ScriptCatches, ItemReturns, ItemUnwinds, Primitive, StartCheck, StartItem, BarrierOpens,
        Join, Boot, ScriptReturns, ExitAtGate, ExitCancelled, ExitFailed, Signal, Crash, Ends,
        Resume, ResumeDies, ApproveFails, disk
  <2> QED BY <1>2, <2>1, <2>2, <2>3
<1>5. \A a \in approvals' : \E i \in DOMAIN rows' :
        AskOf(rows'[i]) = AskOf(a) /\ (a.action # Approve => a.action \in Declared(rows'[i]))
  BY <1>1, <1>4
<1> QED BY <1>5 DEF AnswersWereAsked, RowsAt

(* The invariant holds at the start and every step preserves it.           *)
LEMMA InitGateInv == Init => GateInv
<1> SUFFICES ASSUME Init PROVE GateInv
  OBVIOUS
<1>1. Typed
  <2>1. TypedDisk
    BY DEF Init, TypedDisk, Statuses, Phases
  <2>2. TypedThreads
    BY Bounds, UnwindingTypes DEF Init, TypedThreads, ThreadPcs
  <2> QED
    BY <2>1, <2>2, Bounds, EndingTypes DEF Init, Typed, TypedGate, TypedPool, TypedHistory
<1>2. AgentsCounted /\ IdleElsewhere
  <2>1. AgentsIn = {}
    BY DEF Init, AgentsIn
  <2> QED BY <2>1, FS_EmptySet, Bounds DEF Init, AgentsCounted, IdleElsewhere
<1>3. GatesClose
  BY DEF Init, GatesClose, NoExc
<1>4. QuestionsAsked /\ AnswersWereAsked
  BY DEF Init, QuestionsAsked, StatusAsked, GateAsked, ThreadsAsked, InCall, NoExc,
    AnswersWereAsked
<1> QED BY <1>1, <1>2, <1>3, <1>4, CountBounds DEF GateInv, TypeOK

LEMMA NextGateInv == GateInv /\ [Next]_vars => GateInv'
<1> SUFFICES ASSUME GateInv, [Next]_vars PROVE GateInv'
  OBVIOUS
<1> USE DEF GateInv, TypeOK
<1>1. Typed'
  BY TypedNext
<1>2. AgentsCounted' /\ IdleElsewhere'
  BY CountNext, IdleNext
<1>3. (inflight \in 0..Cardinality(Threads))'
  <2>1. AgentsIn' \subseteq Threads /\ IsFiniteSet(Threads)
    BY ThreadsFinite DEF AgentsIn
  <2> QED BY <1>2, <2>1, FS_Subset, FS_CardinalityType DEF AgentsCounted
<1>4. GatesClose'
  BY CloseNext
<1>5. QuestionsAsked'
  BY StatusNext, GateNext, ThreadsNext DEF QuestionsAsked
<1>6. AnswersWereAsked'
  BY AnswersNext
<1> QED BY <1>1, <1>2, <1>3, <1>4, <1>5, <1>6

LEMMA GateInvariant == Spec => []GateInv
  BY InitGateInv, NextGateInv, PTL DEF Spec

(* The threads of a script, its supervisor and the files beside it stay    *)
(* well typed, and in_flight_agents within the number of threads.          *)
THEOREM GateTypes == Spec => []TypeOK
<1>1. GateInv => TypeOK
  BY DEF GateInv
<1> QED BY <1>1, GateInvariant, PTL

(* A workflow that says "paused" while its supervisor lives has drained    *)
(* every agent it admitted.                                                *)
THEOREM PauseIsQuiet == Spec => []PausedIsQuiet
<1>1. GateInv => PausedIsQuiet
  BY CountBounds DEF GateInv, GatesClose, PausedIsQuiet
<1> QED BY <1>1, GateInvariant, PTL

(* A paused status names a question whose row is in the journal.           *)
THEOREM PauseIsAnswerable == Spec => []PausedIsAnswerable
<1>1. GateInv => PausedIsAnswerable
  BY DEF GateInv, QuestionsAsked, StatusAsked, PausedIsAnswerable
<1> QED BY <1>1, GateInvariant, PTL

(* Every approval answers a question that was asked, with an action that   *)
(* was on offer, or approves it.                                           *)
THEOREM AnswersAreAsked == Spec => []AnswersWereAsked
<1>1. GateInv => AnswersWereAsked
  BY DEF GateInv
<1> QED BY <1>1, GateInvariant, PTL

(* While a supervisor lives nothing is approved.                           *)
LEMMA UpApprovesNothing ==
  ASSUME up, [Next]_vars
  PROVE  approvals' = approvals
<1>1. CASE UNCHANGED vars
  BY <1>1 DEF vars
<1>2. ASSUME NEW t \in Threads, ThreadStep(t)
      PROVE  approvals' = approvals
  BY <1>2 DEF ThreadStep, AgentAdmitted, AgentRefused, AgentEnds, GateCall, GateReturns,
    ParkRow, ParkClose, ParkDrained, ParkProjects, ScriptLogs, ScriptCatches, ItemReturns,
    ItemUnwinds, disk
<1>3. ASSUME MainStep \/ Signal \/ Crash
      PROVE  approvals' = approvals
  BY <1>3 DEF MainStep, Primitive, StartCheck, StartItem, BarrierOpens, Join, Boot,
    ScriptReturns, ExitAtGate, ExitCancelled, ExitFailed, Signal, Crash, Ends, disk
<1>4. ~ Command
  BY DEF Command, Resume, ResumeDies, ApproveLaunches, ApproveFails, Commanding
<1> QED BY <1>1, <1>2, <1>3, <1>4 DEF Next

(* A live supervisor only projects questions nobody has answered.          *)
LEMMA StatusUnanswered ==
  ASSUME Typed, QuestionsAsked, NothingIsAnswered, up, [Next]_vars
  PROVE  /\ status'.ask \in {status.ask, NoAsk} \/ Unanswered(status'.ask)
         /\ up' /\ status'.phase = "paused" => Unanswered(status'.ask)
<1> DEFINE Open == /\ status'.ask \in {status.ask, NoAsk} \/ Unanswered(status'.ask)
                   /\ up' /\ status'.phase = "paused" => Unanswered(status'.ask)
<1>1. CASE UNCHANGED vars
  BY <1>1 DEF vars, NothingIsAnswered, Unanswerable, AfterAppend, Projection
<1>2. ASSUME NEW t \in Threads, AgentAdmitted(t) PROVE Open
  BY <1>2, CopiedQuestions, Bounds DEF AgentAdmitted, Calling, Goto, Counted, disk, pool,
    admission, NothingIsAnswered, Unanswerable, AfterAppend, Projection
<1>3. ASSUME NEW t \in Threads, AgentRefused(t) PROVE Open
  BY <1>3, CopiedQuestions, Bounds DEF AgentRefused, Calling, Counted, Raise, Goto, disk, pool,
    admission, NothingIsAnswered, Unanswerable, AfterAppend, Projection
<1>4. ASSUME NEW t \in Threads, AgentEnds(t) PROVE Open
  BY <1>4, CopiedQuestions, Bounds DEF AgentEnds, Goto, Raise, disk, pool, admission,
    NothingIsAnswered, Unanswerable, AfterAppend, Projection
<1>5. ASSUME NEW t \in Threads, NEW g \in Gates, NEW r \in Results,
             NEW o \in Offers \cup {{}}, GateCall(t, g, r, o)
      PROVE  Open
  BY <1>5, CopiedQuestions, Bounds DEF GateCall, Calling, Counted, Raise, Goto, disk, pool,
    admission, NothingIsAnswered, Unanswerable, AfterAppend, Projection
<1>6. ASSUME NEW t \in Threads, GateReturns(t) PROVE Open
  BY <1>6, CopiedQuestions, Bounds DEF GateReturns, Goto, disk, pool, admission,
    NothingIsAnswered, Unanswerable, AfterAppend, Projection
<1>7. ASSUME NEW t \in Threads, ParkRow(t) PROVE Open
  BY <1>7, CopiedQuestions, Bounds DEF ParkRow, Goto, disk, pool, admission, NothingIsAnswered,
    Unanswerable, AfterAppend, Projection
<1>8. ASSUME NEW t \in Threads, ParkClose(t) PROVE Open
  BY <1>8, CopiedQuestions, Bounds DEF ParkClose, Goto, disk, pool, admission,
    NothingIsAnswered, Unanswerable, AfterAppend, Projection
<1>9. ASSUME NEW t \in Threads, ParkDrained(t) PROVE Open
  BY <1>9, CopiedQuestions, Bounds DEF ParkDrained, Goto, disk, pool, admission,
    NothingIsAnswered, Unanswerable, AfterAppend, Projection
<1>10. ASSUME NEW t \in Threads, ParkProjects(t) PROVE Open
  BY <1>10, CopiedQuestions, Bounds DEF ParkProjects, Goto, disk, pool, admission,
    NothingIsAnswered, Unanswerable, AfterAppend, Projection
<1>11. ASSUME NEW t \in Threads, ScriptLogs(t) PROVE Open
  BY <1>11, CopiedQuestions, Bounds DEF ScriptLogs, disk, pool, admission, NothingIsAnswered,
    Unanswerable, AfterAppend, Projection
<1>12. ASSUME NEW t \in Threads, ScriptCatches(t) PROVE Open
  BY <1>12, CopiedQuestions, Bounds DEF ScriptCatches, Goto, disk, pool, admission,
    NothingIsAnswered, Unanswerable, AfterAppend, Projection
<1>13. ASSUME NEW t \in Threads, ItemReturns(t) PROVE Open
  BY <1>13, CopiedQuestions, Bounds DEF ItemReturns, Goto, disk, pool, admission,
    NothingIsAnswered, Unanswerable, AfterAppend, Projection
<1>14. ASSUME NEW t \in Threads, ItemUnwinds(t) PROVE Open
  BY <1>14, CopiedQuestions, Bounds DEF ItemUnwinds, Goto, disk, pool, admission,
    NothingIsAnswered, Unanswerable, AfterAppend, Projection
<1>15. ASSUME NEW W \in SUBSET Items, Primitive(W)
      PROVE  Open
  BY <1>15, CopiedQuestions, Bounds DEF Primitive, Calling, Goto, Counted, disk, pool,
    admission, NothingIsAnswered, Unanswerable, AfterAppend, Projection
<1>16. ASSUME StartCheck PROVE Open
  BY <1>16, CopiedQuestions, Bounds DEF StartCheck, Goto, LoopEnd, disk, pool, admission,
    NothingIsAnswered, Unanswerable, AfterAppend, Projection
<1>17. ASSUME StartItem PROVE Open
  BY <1>17, CopiedQuestions, Bounds DEF StartItem, Goto, LoopEnd, disk, pool, admission,
    NothingIsAnswered, Unanswerable, AfterAppend, Projection
<1>18. ASSUME BarrierOpens PROVE Open
  BY <1>18, CopiedQuestions, Bounds DEF BarrierOpens, disk, pool, admission, NothingIsAnswered,
    Unanswerable, AfterAppend, Projection
<1>19. ASSUME Join PROVE Open
  BY <1>19, CopiedQuestions, Bounds DEF Join, disk, pool, admission, NothingIsAnswered,
    Unanswerable, AfterAppend, Projection
<1>20. ASSUME Boot PROVE Open
  BY <1>20, CopiedQuestions, Bounds DEF Boot, Goto, disk, pool, admission, NothingIsAnswered,
    Unanswerable, AfterAppend, Projection
<1>21. ASSUME ScriptReturns PROVE Open
  BY <1>21, CopiedQuestions, Bounds DEF ScriptReturns, Ends, disk, pool, admission,
    NothingIsAnswered, Unanswerable, AfterAppend, Projection
<1>22. ASSUME ExitAtGate PROVE Open
  BY <1>22, CopiedQuestions, Bounds DEF ExitAtGate, Unwinding, Ends, disk, pool, admission,
    NothingIsAnswered, Unanswerable, AfterAppend, Projection
<1>23. ASSUME ExitCancelled PROVE Open
  <2>1. \A i \in PendingRows(Gates) : Unanswered(AskOf(rows[i]))
    BY DEF PendingRows, Unanswered
  <2> QED BY <1>23, <2>1 DEF ExitCancelled, Fails, Ends, Latest, Projection
<1>24. ASSUME ExitFailed PROVE Open
  BY <1>24, CopiedQuestions, Bounds DEF ExitFailed, Fails, Unwinding, Ends, disk, pool, admission,
    NothingIsAnswered, Unanswerable, AfterAppend, Projection
<1>25. ASSUME Signal PROVE Open
  BY <1>25, CopiedQuestions, Bounds DEF Signal, disk, pool, admission, NothingIsAnswered,
    Unanswerable, AfterAppend, Projection
<1>26. ASSUME Crash PROVE Open
  BY <1>26, CopiedQuestions, Bounds DEF Crash, Ends, disk, pool, admission, NothingIsAnswered,
    Unanswerable, AfterAppend, Projection
<1> QED
  BY <1>1, <1>2, <1>3, <1>4, <1>5, <1>6, <1>7, <1>8, <1>9, <1>10, <1>11, <1>12, <1>13, <1>14,
    <1>15, <1>16, <1>17, <1>18, <1>19, <1>20, <1>21, <1>22, <1>23, <1>24, <1>25, <1>26 DEF Next,
    ThreadStep, MainStep, Command, Resume, ResumeDies, ApproveLaunches, ApproveFails, Commanding

(* Nor does it close admission, or remember an item's gate, with another.  *)
LEMMA GateUnanswered ==
  ASSUME Typed, QuestionsAsked, NothingIsAnswered, up, [Next]_vars
  PROVE  /\ Unanswerable(pending') /\ Unanswerable(firstGate')
         /\ ~up' => pending' = NoAsk /\ firstGate' = NoAsk
<1> DEFINE Open == /\ Unanswerable(pending') /\ Unanswerable(firstGate')
                   /\ ~up' => pending' = NoAsk /\ firstGate' = NoAsk
<1>1. CASE UNCHANGED vars
  BY <1>1 DEF vars, NothingIsAnswered, Unanswerable
<1>2. ASSUME NEW t \in Threads, AgentAdmitted(t) PROVE Open
  BY <1>2, CopiedQuestions, Bounds DEF AgentAdmitted, Calling, Goto, Counted, disk, pool,
    admission, NothingIsAnswered, Unanswerable
<1>3. ASSUME NEW t \in Threads, AgentRefused(t) PROVE Open
  BY <1>3, CopiedQuestions, Bounds DEF AgentRefused, Calling, Counted, Raise, Goto, disk, pool,
    admission, NothingIsAnswered, Unanswerable
<1>4. ASSUME NEW t \in Threads, AgentEnds(t) PROVE Open
  BY <1>4, CopiedQuestions, Bounds DEF AgentEnds, Goto, Raise, disk, pool, admission,
    NothingIsAnswered, Unanswerable
<1>5. ASSUME NEW t \in Threads, NEW g \in Gates, NEW r \in Results,
             NEW o \in Offers \cup {{}}, GateCall(t, g, r, o)
      PROVE  Open
  BY <1>5, CopiedQuestions, Bounds DEF GateCall, Calling, Counted, Raise, Goto, disk, pool,
    admission, NothingIsAnswered, Unanswerable
<1>6. ASSUME NEW t \in Threads, GateReturns(t) PROVE Open
  BY <1>6, CopiedQuestions, Bounds DEF GateReturns, Goto, disk, pool, admission,
    NothingIsAnswered, Unanswerable
<1>7. ASSUME NEW t \in Threads, ParkRow(t) PROVE Open
  BY <1>7, CopiedQuestions, Bounds DEF ParkRow, Goto, disk, pool, admission, NothingIsAnswered,
    Unanswerable
<1>8. ASSUME NEW t \in Threads, ParkClose(t) PROVE Open
  BY <1>8, CopiedQuestions, Bounds DEF ParkClose, Goto, disk, pool, admission,
    NothingIsAnswered, Unanswerable
<1>9. ASSUME NEW t \in Threads, ParkDrained(t) PROVE Open
  BY <1>9, CopiedQuestions, Bounds DEF ParkDrained, Goto, disk, pool, admission,
    NothingIsAnswered, Unanswerable
<1>10. ASSUME NEW t \in Threads, ParkProjects(t) PROVE Open
  BY <1>10, CopiedQuestions, Bounds DEF ParkProjects, Goto, disk, pool, admission,
    NothingIsAnswered, Unanswerable
<1>11. ASSUME NEW t \in Threads, ScriptLogs(t) PROVE Open
  BY <1>11, CopiedQuestions, Bounds DEF ScriptLogs, disk, pool, admission, NothingIsAnswered,
    Unanswerable
<1>12. ASSUME NEW t \in Threads, ScriptCatches(t) PROVE Open
  BY <1>12, CopiedQuestions, Bounds DEF ScriptCatches, Goto, disk, pool, admission,
    NothingIsAnswered, Unanswerable
<1>13. ASSUME NEW t \in Threads, ItemReturns(t) PROVE Open
  BY <1>13, CopiedQuestions, Bounds DEF ItemReturns, Goto, disk, pool, admission,
    NothingIsAnswered, Unanswerable
<1>14. ASSUME NEW t \in Threads, ItemUnwinds(t) PROVE Open
  BY <1>14, CopiedQuestions, Bounds DEF ItemUnwinds, Goto, disk, pool, admission,
    NothingIsAnswered, Unanswerable
<1>15. ASSUME NEW W \in SUBSET Items, Primitive(W)
      PROVE  Open
  BY <1>15, CopiedQuestions, Bounds DEF Primitive, Calling, Goto, Counted, disk, pool,
    admission, NothingIsAnswered, Unanswerable
<1>16. ASSUME StartCheck PROVE Open
  BY <1>16, CopiedQuestions, Bounds DEF StartCheck, Goto, LoopEnd, disk, pool, admission,
    NothingIsAnswered, Unanswerable
<1>17. ASSUME StartItem PROVE Open
  BY <1>17, CopiedQuestions, Bounds DEF StartItem, Goto, LoopEnd, disk, pool, admission,
    NothingIsAnswered, Unanswerable
<1>18. ASSUME BarrierOpens PROVE Open
  BY <1>18, CopiedQuestions, Bounds DEF BarrierOpens, disk, pool, admission, NothingIsAnswered,
    Unanswerable
<1>19. ASSUME Join PROVE Open
  BY <1>19, CopiedQuestions, Bounds DEF Join, disk, pool, admission, NothingIsAnswered,
    Unanswerable
<1>20. ASSUME Boot PROVE Open
  BY <1>20, CopiedQuestions, Bounds DEF Boot, Goto, disk, pool, admission, NothingIsAnswered,
    Unanswerable
<1>21. ASSUME ScriptReturns PROVE Open
  BY <1>21, CopiedQuestions, Bounds DEF ScriptReturns, Ends, disk, pool, admission,
    NothingIsAnswered, Unanswerable
<1>22. ASSUME ExitAtGate PROVE Open
  BY <1>22, CopiedQuestions, Bounds DEF ExitAtGate, Unwinding, Ends, disk, pool, admission,
    NothingIsAnswered, Unanswerable
<1>23. ASSUME ExitCancelled PROVE Open
  BY <1>23, CopiedQuestions, Bounds DEF ExitCancelled, Fails, Unwinding, Ends, disk, pool, admission,
    NothingIsAnswered, Unanswerable
<1>24. ASSUME ExitFailed PROVE Open
  BY <1>24, CopiedQuestions, Bounds DEF ExitFailed, Fails, Unwinding, Ends, disk, pool, admission,
    NothingIsAnswered, Unanswerable
<1>25. ASSUME Signal PROVE Open
  BY <1>25, CopiedQuestions, Bounds DEF Signal, disk, pool, admission, NothingIsAnswered,
    Unanswerable
<1>26. ASSUME Crash PROVE Open
  BY <1>26, CopiedQuestions, Bounds DEF Crash, Ends, disk, pool, admission, NothingIsAnswered,
    Unanswerable
<1> QED
  BY <1>1, <1>2, <1>3, <1>4, <1>5, <1>6, <1>7, <1>8, <1>9, <1>10, <1>11, <1>12, <1>13, <1>14,
    <1>15, <1>16, <1>17, <1>18, <1>19, <1>20, <1>21, <1>22, <1>23, <1>24, <1>25, <1>26 DEF Next,
    ThreadStep, MainStep, Command, Resume, ResumeDies, ApproveLaunches, ApproveFails, Commanding

(* Nor park at another, or unwind with it.                                 *)
LEMMA ThreadsUnanswered ==
  ASSUME Typed, QuestionsAsked, NothingIsAnswered, up, [Next]_vars
  PROVE  \A u \in Threads :
           /\ Unanswerable(exc'[u].ask) /\ (~up' => exc'[u] = NoExc)
           /\ up' /\ pc'[u] \in {"row", "close", "drain", "project"} => Unanswered(AskOf(call'[u]))
<1> DEFINE Open == \A u \in Threads :
                     /\ Unanswerable(exc'[u].ask) /\ (~up' => exc'[u] = NoExc)
                     /\ up' /\ pc'[u] \in {"row", "close", "drain", "project"} => Unanswered(AskOf(call'[u]))
<1>1. CASE UNCHANGED vars
  BY <1>1 DEF vars, NothingIsAnswered, Unanswerable, NoExc, Typed, TypedThreads
<1>2. ASSUME NEW t \in Threads, AgentAdmitted(t) PROVE Open
  BY <1>2, Bounds DEF AgentAdmitted, Calling, Goto, Counted, disk, pool, admission,
    NothingIsAnswered, Unanswerable, NoExc, Typed, TypedThreads
<1>3. ASSUME NEW t \in Threads, AgentRefused(t) PROVE Open
  BY <1>3, Bounds DEF AgentRefused, Calling, Counted, Raise, Goto, disk, pool, admission,
    NothingIsAnswered, Unanswerable, NoExc, Typed, TypedThreads
<1>4. ASSUME NEW t \in Threads, AgentEnds(t) PROVE Open
  BY <1>4, Bounds DEF AgentEnds, Goto, Raise, disk, pool, admission, NothingIsAnswered,
    Unanswerable, NoExc, Typed, TypedThreads
<1>5. ASSUME NEW t \in Threads, NEW g \in Gates, NEW r \in Results,
             NEW o \in Offers \cup {{}}, GateCall(t, g, r, o)
      PROVE  Open
  <2> DEFINE q == Question(g, r, o)
             c == [gate |-> g, hash |-> q.hash, actions |-> o]
  <2>1. AskOf(c) = q
    BY DEF AskOf, Question
  <2>2. ~ Answered(q, o) => Unanswered(q)
    BY DEF Answered, Question, Unanswered, ReaskHash
  <2>3. \A u \in Threads : Unanswerable(exc'[u].ask)
    BY <1>5 DEF GateCall, Raise, NothingIsAnswered, Unanswerable, Typed, TypedThreads
  <2>4. \A u \in Threads : pc'[u] \in {"row", "close", "drain", "project"} => Unanswered(AskOf(call'[u]))
    BY <1>5, <2>1, <2>2 DEF GateCall, Goto, Raise, NothingIsAnswered, Typed, TypedThreads
  <2> QED BY <1>5, <2>3, <2>4 DEF GateCall, Calling
<1>6. ASSUME NEW t \in Threads, GateReturns(t) PROVE Open
  BY <1>6, Bounds DEF GateReturns, Goto, disk, pool, admission, NothingIsAnswered, Unanswerable,
    NoExc, Typed, TypedThreads
<1>7. ASSUME NEW t \in Threads, ParkRow(t) PROVE Open
  BY <1>7, Bounds DEF ParkRow, Goto, disk, pool, admission, NothingIsAnswered, Unanswerable,
    NoExc, Typed, TypedThreads
<1>8. ASSUME NEW t \in Threads, ParkClose(t) PROVE Open
  BY <1>8, Bounds DEF ParkClose, Goto, disk, pool, admission, NothingIsAnswered, Unanswerable,
    NoExc, Typed, TypedThreads
<1>9. ASSUME NEW t \in Threads, ParkDrained(t) PROVE Open
  BY <1>9, Bounds DEF ParkDrained, Goto, disk, pool, admission, NothingIsAnswered, Unanswerable,
    NoExc, Typed, TypedThreads
<1>10. ASSUME NEW t \in Threads, ParkProjects(t) PROVE Open
  BY <1>10, Bounds DEF ParkProjects, Goto, disk, pool, admission, NothingIsAnswered,
    Unanswerable, NoExc, Typed, TypedThreads
<1>11. ASSUME NEW t \in Threads, ScriptLogs(t) PROVE Open
  BY <1>11, Bounds DEF ScriptLogs, disk, pool, admission, NothingIsAnswered, Unanswerable,
    NoExc, Typed, TypedThreads
<1>12. ASSUME NEW t \in Threads, ScriptCatches(t) PROVE Open
  BY <1>12, Bounds DEF ScriptCatches, Goto, disk, pool, admission, NothingIsAnswered,
    Unanswerable, NoExc, Typed, TypedThreads
<1>13. ASSUME NEW t \in Threads, ItemReturns(t) PROVE Open
  BY <1>13, Bounds DEF ItemReturns, Goto, disk, pool, admission, NothingIsAnswered,
    Unanswerable, NoExc, Typed, TypedThreads
<1>14. ASSUME NEW t \in Threads, ItemUnwinds(t) PROVE Open
  BY <1>14, Bounds DEF ItemUnwinds, Goto, disk, pool, admission, NothingIsAnswered,
    Unanswerable, NoExc, Typed, TypedThreads
<1>15. ASSUME NEW W \in SUBSET Items, Primitive(W)
      PROVE  Open
  BY <1>15, Bounds DEF Primitive, Calling, Goto, Counted, disk, pool, admission,
    NothingIsAnswered, Unanswerable, NoExc, Typed, TypedThreads
<1>16. ASSUME StartCheck PROVE Open
  BY <1>16, Bounds DEF StartCheck, Goto, LoopEnd, disk, pool, admission, NothingIsAnswered,
    Unanswerable, NoExc, Typed, TypedThreads
<1>17. ASSUME StartItem PROVE Open
  BY <1>17, Bounds DEF StartItem, Goto, LoopEnd, disk, pool, admission, NothingIsAnswered,
    Unanswerable, NoExc, Typed, TypedThreads
<1>18. ASSUME BarrierOpens PROVE Open
  BY <1>18, Bounds DEF BarrierOpens, disk, pool, admission, NothingIsAnswered, Unanswerable,
    NoExc, Typed, TypedThreads
<1>19. ASSUME Join PROVE Open
  BY <1>19, Bounds DEF Join, disk, pool, admission, NothingIsAnswered, Unanswerable, NoExc,
    Typed, TypedThreads
<1>20. ASSUME Boot PROVE Open
  BY <1>20, Bounds DEF Boot, Goto, disk, pool, admission, NothingIsAnswered, Unanswerable,
    NoExc, Typed, TypedThreads
<1>21. ASSUME ScriptReturns PROVE Open
  BY <1>21, Bounds DEF ScriptReturns, Ends, disk, pool, admission, NothingIsAnswered,
    Unanswerable, NoExc, Typed, TypedThreads
<1>22. ASSUME ExitAtGate PROVE Open
  BY <1>22, Bounds DEF ExitAtGate, Unwinding, Ends, disk, pool, admission, NothingIsAnswered,
    Unanswerable, NoExc, Typed, TypedThreads
<1>23. ASSUME ExitCancelled PROVE Open
  BY <1>23, Bounds DEF ExitCancelled, Fails, Unwinding, Ends, disk, pool, admission, NothingIsAnswered,
    Unanswerable, NoExc, Typed, TypedThreads
<1>24. ASSUME ExitFailed PROVE Open
  BY <1>24, Bounds DEF ExitFailed, Fails, Unwinding, Ends, disk, pool, admission, NothingIsAnswered,
    Unanswerable, NoExc, Typed, TypedThreads
<1>25. ASSUME Signal PROVE Open
  BY <1>25, Bounds DEF Signal, disk, pool, admission, NothingIsAnswered, Unanswerable, NoExc,
    Typed, TypedThreads
<1>26. ASSUME Crash PROVE Open
  BY <1>26, Bounds DEF Crash, Ends, disk, pool, admission, NothingIsAnswered, Unanswerable,
    NoExc, Typed, TypedThreads
<1> QED
  BY <1>1, <1>2, <1>3, <1>4, <1>5, <1>6, <1>7, <1>8, <1>9, <1>10, <1>11, <1>12, <1>13, <1>14,
    <1>15, <1>16, <1>17, <1>18, <1>19, <1>20, <1>21, <1>22, <1>23, <1>24, <1>25, <1>26 DEF Next,
    ThreadStep, MainStep, Command, Resume, ResumeDies, ApproveLaunches, ApproveFails, Commanding

(* A call that holds an answer asked the question its answer is for.       *)
LEMMA DecidedUp ==
  ASSUME Typed, DecidedIsAnswered, up, [Next]_vars
  PROVE  \A u \in Threads : pc'[u] = "decided" =>
           /\ AskOf(call'[u]) = Question(call'[u].gate, call'[u].hash.result, call'[u].actions)
           /\ Answered(AskOf(call'[u]), call'[u].actions)
<1> DEFINE Decided == \A u \in Threads : pc'[u] = "decided" =>
                        /\ AskOf(call'[u]) = Question(call'[u].gate, call'[u].hash.result, call'[u].actions)
                        /\ Answered(AskOf(call'[u]), call'[u].actions)
<1>1. CASE UNCHANGED vars
  BY <1>1 DEF vars, DecidedIsAnswered, Typed, TypedThreads
<1>2. ASSUME NEW t \in Threads, AgentAdmitted(t)
      PROVE  Decided
  BY <1>2, Bounds DEF AgentAdmitted, Calling, Goto, Counted, disk, pool, admission,
    DecidedIsAnswered, Typed, TypedThreads
<1>3. ASSUME NEW t \in Threads, AgentRefused(t)
      PROVE  Decided
  BY <1>3, Bounds DEF AgentRefused, Calling, Counted, Raise, Goto, disk, pool, admission,
    DecidedIsAnswered, Typed, TypedThreads
<1>4. ASSUME NEW t \in Threads, AgentEnds(t) PROVE Decided
  BY <1>4, Bounds DEF AgentEnds, Goto, Raise, disk, pool, admission, DecidedIsAnswered, Typed,
    TypedThreads
<1>5. ASSUME NEW t \in Threads, NEW g \in Gates, NEW r \in Results,
             NEW o \in Offers \cup {{}}, GateCall(t, g, r, o)
      PROVE  Decided
  <2> DEFINE q == Question(g, r, o)
             c == [gate |-> g, hash |-> q.hash, actions |-> o]
  <2>1. AskOf(c) = q /\ q.hash.result = r
    BY DEF AskOf, Question, ResultHash, ReaskHash
  <2> QED BY <1>5, <2>1 DEF GateCall, Goto, Raise, DecidedIsAnswered, Typed, TypedThreads
<1>6. ASSUME NEW t \in Threads, GateReturns(t) PROVE Decided
  BY <1>6, Bounds DEF GateReturns, Goto, disk, pool, admission, DecidedIsAnswered, Typed,
    TypedThreads
<1>7. ASSUME NEW t \in Threads, ParkRow(t) PROVE Decided
  BY <1>7, Bounds DEF ParkRow, Goto, disk, pool, admission, DecidedIsAnswered, Typed,
    TypedThreads
<1>8. ASSUME NEW t \in Threads, ParkClose(t) PROVE Decided
  BY <1>8, Bounds DEF ParkClose, Goto, disk, pool, admission, DecidedIsAnswered, Typed,
    TypedThreads
<1>9. ASSUME NEW t \in Threads, ParkDrained(t) PROVE Decided
  BY <1>9, Bounds DEF ParkDrained, Goto, disk, pool, admission, DecidedIsAnswered, Typed,
    TypedThreads
<1>10. ASSUME NEW t \in Threads, ParkProjects(t)
      PROVE  Decided
  BY <1>10, Bounds DEF ParkProjects, Goto, disk, pool, admission, DecidedIsAnswered, Typed,
    TypedThreads
<1>11. ASSUME NEW t \in Threads, ScriptLogs(t) PROVE Decided
  BY <1>11, Bounds DEF ScriptLogs, disk, pool, admission, DecidedIsAnswered, Typed, TypedThreads
<1>12. ASSUME NEW t \in Threads, ScriptCatches(t)
      PROVE  Decided
  BY <1>12, Bounds DEF ScriptCatches, Goto, disk, pool, admission, DecidedIsAnswered, Typed,
    TypedThreads
<1>13. ASSUME NEW t \in Threads, ItemReturns(t)
      PROVE  Decided
  BY <1>13, Bounds DEF ItemReturns, Goto, disk, pool, admission, DecidedIsAnswered, Typed,
    TypedThreads
<1>14. ASSUME NEW t \in Threads, ItemUnwinds(t)
      PROVE  Decided
  BY <1>14, Bounds DEF ItemUnwinds, Goto, disk, pool, admission, DecidedIsAnswered, Typed,
    TypedThreads
<1>15. ASSUME NEW W \in SUBSET Items, Primitive(W)
      PROVE  Decided
  BY <1>15, Bounds DEF Primitive, Calling, Goto, Counted, disk, pool, admission,
    DecidedIsAnswered, Typed, TypedThreads
<1>16. ASSUME StartCheck PROVE Decided
  BY <1>16, Bounds DEF StartCheck, Goto, LoopEnd, disk, pool, admission, DecidedIsAnswered,
    Typed, TypedThreads
<1>17. ASSUME StartItem PROVE Decided
  BY <1>17, Bounds DEF StartItem, Goto, LoopEnd, disk, pool, admission, DecidedIsAnswered,
    Typed, TypedThreads
<1>18. ASSUME BarrierOpens PROVE Decided
  BY <1>18, Bounds DEF BarrierOpens, disk, pool, admission, DecidedIsAnswered, Typed,
    TypedThreads
<1>19. ASSUME Join PROVE Decided
  BY <1>19, Bounds DEF Join, disk, pool, admission, DecidedIsAnswered, Typed, TypedThreads
<1>20. ASSUME Boot PROVE Decided
  BY <1>20, Bounds DEF Boot, Goto, disk, pool, admission, DecidedIsAnswered, Typed, TypedThreads
<1>21. ASSUME ScriptReturns PROVE Decided
  BY <1>21, Bounds DEF ScriptReturns, Ends, disk, pool, admission, DecidedIsAnswered, Typed,
    TypedThreads
<1>22. ASSUME ExitAtGate PROVE Decided
  BY <1>22, Bounds DEF ExitAtGate, Unwinding, Ends, disk, pool, admission, DecidedIsAnswered,
    Typed, TypedThreads
<1>23. ASSUME ExitCancelled PROVE Decided
  BY <1>23, Bounds DEF ExitCancelled, Fails, Unwinding, Ends, disk, pool, admission, DecidedIsAnswered,
    Typed, TypedThreads
<1>24. ASSUME ExitFailed PROVE Decided
  BY <1>24, Bounds DEF ExitFailed, Fails, Unwinding, Ends, disk, pool, admission, DecidedIsAnswered,
    Typed, TypedThreads
<1>25. ASSUME Signal PROVE Decided
  BY <1>25, Bounds DEF Signal, disk, pool, admission, DecidedIsAnswered, Typed, TypedThreads
<1>26. ASSUME Crash PROVE Decided
  BY <1>26, Bounds DEF Crash, Ends, disk, pool, admission, DecidedIsAnswered, Typed,
    TypedThreads
<1> QED
  BY <1>1, <1>2, <1>3, <1>4, <1>5, <1>6, <1>7, <1>8, <1>9, <1>10, <1>11, <1>12, <1>13, <1>14,
    <1>15, <1>16, <1>17, <1>18, <1>19, <1>20, <1>21, <1>22, <1>23, <1>24, <1>25, <1>26 DEF Next,
    ThreadStep, MainStep, Command, Resume, ResumeDies, ApproveLaunches, ApproveFails, Commanding

(* A question asked again is asked with the actions of its hash.           *)
LEMMA ReasksUp ==
  ASSUME Typed, QuestionsAsked, ReasksAreTheSame, up, [Next]_vars
  PROVE  \A u \in Threads : InCall(u)' => Reasks(call'[u])
<1> DEFINE Same == \A u \in Threads : InCall(u)' => Reasks(call'[u])
<1>1. CASE UNCHANGED vars
  BY <1>1 DEF vars, ReasksAreTheSame, InCall, Typed, TypedThreads
<1>2. ASSUME NEW t \in Threads, AgentAdmitted(t) PROVE Same
  BY <1>2, Bounds DEF AgentAdmitted, Calling, Goto, Counted, disk, pool, admission,
    ReasksAreTheSame, InCall, Typed, TypedThreads
<1>3. ASSUME NEW t \in Threads, AgentRefused(t) PROVE Same
  BY <1>3, Bounds DEF AgentRefused, Calling, Counted, Raise, Goto, disk, pool, admission,
    ReasksAreTheSame, InCall, Typed, TypedThreads
<1>4. ASSUME NEW t \in Threads, AgentEnds(t) PROVE Same
  BY <1>4, Bounds DEF AgentEnds, Goto, Raise, disk, pool, admission, ReasksAreTheSame, InCall,
    Typed, TypedThreads
<1>5. ASSUME NEW t \in Threads, NEW g \in Gates, NEW r \in Results,
             NEW o \in Offers \cup {{}}, GateCall(t, g, r, o)
      PROVE  Same
  <2>1. Reasks([gate |-> g, hash |-> Question(g, r, o).hash, actions |-> o])
    BY DEF Reasks, Question, ResultHash, ReaskHash
  <2> QED BY <1>5, <2>1 DEF GateCall, Goto, Raise, InCall, ReasksAreTheSame, Typed, TypedThreads
<1>6. ASSUME NEW t \in Threads, GateReturns(t) PROVE Same
  BY <1>6, Bounds DEF GateReturns, Goto, disk, pool, admission, ReasksAreTheSame, InCall, Typed,
    TypedThreads
<1>7. ASSUME NEW t \in Threads, ParkRow(t) PROVE Same
  BY <1>7, Bounds DEF ParkRow, Goto, disk, pool, admission, ReasksAreTheSame, InCall, Typed,
    TypedThreads
<1>8. ASSUME NEW t \in Threads, ParkClose(t) PROVE Same
  BY <1>8, Bounds DEF ParkClose, Goto, disk, pool, admission, ReasksAreTheSame, InCall, Typed,
    TypedThreads
<1>9. ASSUME NEW t \in Threads, ParkDrained(t) PROVE Same
  BY <1>9, Bounds DEF ParkDrained, Goto, disk, pool, admission, ReasksAreTheSame, InCall, Typed,
    TypedThreads
<1>10. ASSUME NEW t \in Threads, ParkProjects(t) PROVE Same
  BY <1>10, Bounds DEF ParkProjects, Goto, disk, pool, admission, ReasksAreTheSame, InCall,
    Typed, TypedThreads
<1>11. ASSUME NEW t \in Threads, ScriptLogs(t) PROVE Same
  BY <1>11, Bounds DEF ScriptLogs, disk, pool, admission, ReasksAreTheSame, InCall, Typed,
    TypedThreads
<1>12. ASSUME NEW t \in Threads, ScriptCatches(t) PROVE Same
  BY <1>12, Bounds DEF ScriptCatches, Goto, disk, pool, admission, ReasksAreTheSame, InCall,
    Typed, TypedThreads
<1>13. ASSUME NEW t \in Threads, ItemReturns(t) PROVE Same
  BY <1>13, Bounds DEF ItemReturns, Goto, disk, pool, admission, ReasksAreTheSame, InCall,
    Typed, TypedThreads
<1>14. ASSUME NEW t \in Threads, ItemUnwinds(t) PROVE Same
  BY <1>14, Bounds DEF ItemUnwinds, Goto, disk, pool, admission, ReasksAreTheSame, InCall,
    Typed, TypedThreads
<1>15. ASSUME NEW W \in SUBSET Items, Primitive(W)
      PROVE  Same
  BY <1>15, Bounds DEF Primitive, Calling, Goto, Counted, disk, pool, admission,
    ReasksAreTheSame, InCall, Typed, TypedThreads
<1>16. ASSUME StartCheck PROVE Same
  BY <1>16, Bounds DEF StartCheck, Goto, LoopEnd, disk, pool, admission, ReasksAreTheSame,
    InCall, Typed, TypedThreads
<1>17. ASSUME StartItem PROVE Same
  BY <1>17, Bounds DEF StartItem, Goto, LoopEnd, disk, pool, admission, ReasksAreTheSame,
    InCall, Typed, TypedThreads
<1>18. ASSUME BarrierOpens PROVE Same
  BY <1>18, Bounds DEF BarrierOpens, disk, pool, admission, ReasksAreTheSame, InCall, Typed,
    TypedThreads
<1>19. ASSUME Join PROVE Same
  BY <1>19, Bounds DEF Join, disk, pool, admission, ReasksAreTheSame, InCall, Typed,
    TypedThreads
<1>20. ASSUME Boot PROVE Same
  BY <1>20, Bounds DEF Boot, Goto, disk, pool, admission, ReasksAreTheSame, InCall, Typed,
    TypedThreads
<1>21. ASSUME ScriptReturns PROVE Same
  BY <1>21, Bounds DEF ScriptReturns, Ends, disk, pool, admission, ReasksAreTheSame, InCall,
    Typed, TypedThreads
<1>22. ASSUME ExitAtGate PROVE Same
  BY <1>22, Bounds DEF ExitAtGate, Unwinding, Ends, disk, pool, admission, ReasksAreTheSame,
    InCall, Typed, TypedThreads
<1>23. ASSUME ExitCancelled PROVE Same
  BY <1>23, Bounds DEF ExitCancelled, Fails, Unwinding, Ends, disk, pool, admission, ReasksAreTheSame,
    InCall, Typed, TypedThreads
<1>24. ASSUME ExitFailed PROVE Same
  BY <1>24, Bounds DEF ExitFailed, Fails, Unwinding, Ends, disk, pool, admission, ReasksAreTheSame,
    InCall, Typed, TypedThreads
<1>25. ASSUME Signal PROVE Same
  BY <1>25, Bounds DEF Signal, disk, pool, admission, ReasksAreTheSame, InCall, Typed,
    TypedThreads
<1>26. ASSUME Crash PROVE Same
  BY <1>26, Bounds DEF Crash, Ends, disk, pool, admission, ReasksAreTheSame, InCall, Typed,
    TypedThreads
<1> QED
  BY <1>1, <1>2, <1>3, <1>4, <1>5, <1>6, <1>7, <1>8, <1>9, <1>10, <1>11, <1>12, <1>13, <1>14,
    <1>15, <1>16, <1>17, <1>18, <1>19, <1>20, <1>21, <1>22, <1>23, <1>24, <1>25, <1>26 DEF Next,
    ThreadStep, MainStep, Command, Resume, ResumeDies, ApproveLaunches, ApproveFails, Commanding

(* A row is appended by a call that is parking.                            *)
LEMMA RowsReask ==
  ASSUME Typed, QuestionsAsked, ReasksAreTheSame, [Next]_vars
  PROVE  \A i \in DOMAIN rows' : Reasks(rows'[i])
<1>1. rows' = rows \/ \E t \in Threads : InCall(t) /\ rows' = Append(rows, call[t])
  <2>1. CASE UNCHANGED vars
    BY <2>1 DEF vars
  <2>2. ASSUME NEW t \in Threads, ThreadStep(t)
        PROVE  rows' = rows \/ (InCall(t) /\ rows' = Append(rows, call[t]))
    BY <2>2 DEF ThreadStep, AgentAdmitted, AgentRefused, AgentEnds, GateCall, GateReturns,
      ParkRow, ParkClose, ParkDrained, ParkProjects, ScriptLogs, ScriptCatches, ItemReturns,
      ItemUnwinds, InCall, disk
  <2>3. ASSUME MainStep \/ Signal \/ Crash
        PROVE  rows' = rows
    BY <2>3 DEF MainStep, Primitive, StartCheck, StartItem, BarrierOpens, Join, Boot,
      ScriptReturns, ExitAtGate, ExitCancelled, ExitFailed, Signal, Crash, Ends, disk
  <2>4. ASSUME Command
        PROVE  rows' = rows
    BY <2>4 DEF Command, Resume, ResumeDies, ApproveLaunches, ApproveFails
  <2> QED BY <2>1, <2>2, <2>3, <2>4 DEF Next
<1>2. ASSUME NEW t \in Threads, InCall(t), rows' = Append(rows, call[t])
      PROVE  \A i \in DOMAIN rows' : rows'[i] = call[t] \/ (i \in DOMAIN rows /\ rows'[i] = rows[i])
  <2>1. call[t] \in Calls /\ rows \in Seq(Calls)
    BY <1>2, CopiedQuestions DEF Typed, TypedDisk
  <2> QED BY <1>2, <2>1
<1> QED BY <1>1, <1>2 DEF ReasksAreTheSame

(* Between supervisors every thread is idle, and a command moves only the  *)
(* files and the thread it starts.                                         *)
LEMMA CommandsKeep ==
  ASSUME Typed, IdleElsewhere, NothingIsLeft, ~up, [Next]_vars
  PROVE  /\ \A t \in Threads : pc'[t] \in {"idle", "boot"} /\ exc'[t] = NoExc
         /\ pending' = NoAsk /\ firstGate' = NoAsk
         /\ up' => status'.phase = "starting"
         /\ passed' = passed
<1>1. CASE UNCHANGED vars
  BY <1>1 DEF vars, IdleElsewhere, NothingIsLeft
<1>2. CASE Resume
  BY <1>2 DEF Resume, Launches, admission, pool, IdleElsewhere, NothingIsLeft, Typed, TypedDisk,
    TypedThreads, Statuses
<1>3. CASE ResumeDies
  BY <1>3 DEF ResumeDies, admission, pool, IdleElsewhere, NothingIsLeft
<1>4. ASSUME NEW gs \in Named, NEW c \in Choices, ApproveLaunches(gs, c)
      PROVE  /\ \A t \in Threads : pc'[t] \in {"idle", "boot"} /\ exc'[t] = NoExc
             /\ pending' = NoAsk /\ firstGate' = NoAsk
             /\ status'.phase = "starting"
             /\ passed' = passed
  BY <1>4 DEF ApproveLaunches, Launches, admission, pool, IdleElsewhere, NothingIsLeft, Typed,
    TypedThreads
<1>5. ASSUME NEW gs \in Named, NEW c \in Choices, ApproveFails(gs, c)
      PROVE  /\ \A t \in Threads : pc'[t] \in {"idle", "boot"} /\ exc'[t] = NoExc
             /\ pending' = NoAsk /\ firstGate' = NoAsk
             /\ ~up'
             /\ passed' = passed
  BY <1>5 DEF ApproveFails, Commanding, admission, pool, IdleElsewhere, NothingIsLeft
<1>6. Next => Command
  BY DEF Next, ThreadStep, MainStep, AgentAdmitted, AgentRefused, AgentEnds, GateCall,
    GateReturns, ParkRow, ParkClose, ParkDrained, ParkProjects, ScriptLogs, ScriptCatches,
    ItemReturns, ItemUnwinds, Primitive, StartCheck, StartItem, BarrierOpens, Join, Boot,
    ScriptReturns, ExitAtGate, ExitCancelled, ExitFailed, Signal, Crash, Calling, Unwinding
<1> QED BY <1>1, <1>2, <1>3, <1>4, <1>5, <1>6 DEF Command

(* A decision replaces what was decided on one question, a bare approval   *)
(* nothing; what it records is the action chosen.                          *)
LEMMA RecordedAnswers ==
  ASSUME NEW ask \in Asks, NEW choice, approvals' = Recorded(ask, choice)
  PROVE  /\ \A q : q # ask => Answers(q)' = Answers(q)
         /\ choice = {} => \A q : Answers(q) \subseteq Answers(q)'
         /\ choice # {} => Answers(ask)' = choice
<1>1. \A d : AskOf([gate |-> ask.gate, hash |-> ask.hash, action |-> d]) = ask
  BY DEF AskOf, Asks
<1>2. ASSUME NEW q, q # ask
      PROVE  Answers(q)' = Answers(q)
  <2>1. \A a : AskOf(a) = q => (a \in approvals' <=> a \in approvals)
    BY <1>1, <1>2 DEF Recorded
  <2> QED BY <2>1 DEF Answers
<1>3. ASSUME choice = {}, NEW q
      PROVE  Answers(q) \subseteq Answers(q)'
  BY <1>3 DEF Recorded, Answers
<1>4. ASSUME choice # {}
      PROVE  Answers(ask)' = choice
  <2>1. \A a : a \in approvals' /\ AskOf(a) = ask <=>
          a \in {[gate |-> ask.gate, hash |-> ask.hash, action |-> d] : d \in choice}
    BY <1>1, <1>4 DEF Recorded
  <2>2. {b \in approvals' : AskOf(b) = ask}
          = {[gate |-> ask.gate, hash |-> ask.hash, action |-> d] : d \in choice}
    BY <2>1
  <2>3. Answers(ask)' = {a.action : a \in {b \in approvals' : AskOf(b) = ask}}
    BY DEF Answers
  <2>4. {a.action : a \in {[gate |-> ask.gate, hash |-> ask.hash, action |-> d] : d \in choice}}
          = choice
    <3>1. \A d : [gate |-> ask.gate, hash |-> ask.hash, action |-> d].action = d
      OBVIOUS
    <3> QED BY <3>1, Zenon
  <2> QED BY <2>2, <2>3, <2>4, Zenon
<1> QED BY <1>2, <1>3, <1>4

(* Nothing an operator does takes a passed gate's answers away.            *)
LEMMA CommandsKeepAnswers ==
  ASSUME GateInv, PassedInv, ~up, [Next]_vars, NEW p \in passed
  PROVE  StaysAnswered(p)'
<1> DEFINE first == AskOf(p)
           again == Again(p)
<1> USE DEF GateInv, TypeOK
<1>1. /\ p \in Calls /\ p.hash.offer = {} /\ Answers(first) # {}
      /\ p.actions # {} => \/ Answers(again) \cap p.actions # {}
                           \/ Answers(first) \cap p.actions # {} /\ status.ask # first
  BY DEF PassedInv, StaysAnswered, Typed, TypedHistory
<1>2. /\ first.hash.offer = {} /\ again.hash.offer = p.actions
      /\ p.actions # {} => first # again
  BY <1>1 DEF AskOf, Again, ReaskHash
<1>3. SUFFICES /\ Answers(first)' # {}
               /\ p.actions # {} => \/ Answers(again)' \cap p.actions # {}
                                    \/ Answers(first)' \cap p.actions # {} /\ status'.ask # first
  BY <1>1 DEF StaysAnswered, Again
<1> HIDE DEF first, again
<1>4. CASE approvals' = approvals /\ status'.ask = status.ask
  BY <1>1, <1>4 DEF Answers
<1>5. CASE approvals' = ResumeRecords /\ status'.ask = status.ask
  <2>1. CASE approvals' = approvals
    BY <1>4, <1>5, <2>1
  <2>2. CASE approvals' = Recorded(status.ask, {}) /\ status.phase = "paused"
    <3>1. status.ask \in Asks
      BY <2>2, CopiedQuestions
    <3>2. \A q : Answers(q) \subseteq Answers(q)'
      BY <2>2, <3>1, RecordedAnswers
    <3> QED BY <1>1, <1>5, <3>2
  <2> QED BY <1>5, <2>1, <2>2 DEF ResumeRecords
<1>6. ASSUME NEW gs \in Named, NEW c \in Choices, ApproveLaunches(gs, c)
      PROVE  /\ Answers(first)' # {}
             /\ p.actions # {} => \/ Answers(again)' \cap p.actions # {}
                                  \/ Answers(first)' \cap p.actions # {} /\ status'.ask # first
  <2>1. PICK ask \in ApproveTargets(gs) :
          /\ Accepts(ask, c) /\ approvals' = Recorded(ask, c)
          /\ status' = [phase |-> "starting", ask |-> ask]
    BY <1>6 DEF ApproveLaunches
  <2>2. status'.ask = ask
    BY <2>1
  <2>3. ask \in Questions /\ ask \in Asks
    BY <2>1, Targets, CopiedQuestions
  <2>4. /\ \A q : q # ask => Answers(q)' = Answers(q)
        /\ c = {} => \A q : Answers(q) \subseteq Answers(q)'
        /\ c # {} => Answers(ask)' = c
    BY <2>1, <2>3, RecordedAnswers
  <2>5. CASE PendingRows(gs) # {}
    <3>1. Answers(ask) = {}
      BY <2>1, <2>5 DEF ApproveTargets, Latest, PendingRows
    <3>2. ask # first /\ Answers(first)' = Answers(first)
      BY <1>1, <2>4, <3>1
    <3>3. CASE ask = again
      BY <1>1, <2>2, <3>1, <3>2, <3>3
    <3>4. CASE ask # again
      BY <1>1, <2>2, <2>4, <3>2, <3>4
    <3> QED BY <3>3, <3>4
  <2>6. CASE ask = status.ask
    <3>1. CASE c = {}
      BY <1>1, <2>2, <2>4, <2>6, <3>1
    <3>2. CASE c # {} /\ ask = first
      BY <1>1, <1>2, <2>4, <2>6, <3>2
    <3>3. CASE c # {} /\ ask = again /\ p.actions # {}
      <4>1. \A i \in RowsAt(ask) : Declared(rows[i]) = p.actions
        BY <1>2, <3>3 DEF PassedInv, ReasksAreTheSame, Reasks, RowsAt, AskOf, Declared
      <4>2. c \subseteq p.actions
        <5>1. RowsAt(ask) # {}
          BY <2>3 DEF Questions, RowsAt
        <5> QED BY <2>1, <3>3, <4>1, <5>1 DEF Accepts, Offered, Latest
      <4>3. Answers(first)' = Answers(first)
        BY <1>2, <2>4, <3>3
      <4> QED BY <1>1, <2>4, <3>3, <4>2, <4>3
    <3>4. CASE ask # first /\ (ask # again \/ p.actions = {})
      BY <1>1, <2>2, <2>4, <3>4
    <3> QED BY <3>1, <3>2, <3>3, <3>4
  <2> QED BY <2>1, <2>5, <2>6 DEF ApproveTargets
<1>7. ASSUME NEW gs \in Named, NEW c \in Choices, ApproveFails(gs, c)
      PROVE  /\ Answers(first)' # {}
             /\ p.actions # {} => \/ Answers(again)' \cap p.actions # {}
                                  \/ Answers(first)' \cap p.actions # {} /\ status'.ask # first
  <2>1. PICK ask \in ApproveTargets(gs) : status' = Projection(ask)
    BY <1>7 DEF ApproveFails
  <2>2. Answers(ask) = {}
    BY <1>7, <2>1 DEF ApproveFails, ApproveTargets, Latest, PendingRows
  <2>3. status'.ask # first
    BY <1>1, <2>1, <2>2 DEF Projection
  <2>4. \A q : Answers(q)' = Answers(q)
    BY <1>7 DEF ApproveFails, Answers
  <2> QED BY <1>1, <2>3, <2>4
<1>8. CASE UNCHANGED vars
  BY <1>4, <1>8 DEF vars
<1>9. CASE Resume \/ ResumeDies
  BY <1>5, <1>9 DEF Resume, ResumeDies, Typed, TypedDisk, Statuses
<1>10. Next => Command
  BY DEF Next, ThreadStep, MainStep, AgentAdmitted, AgentRefused, AgentEnds, GateCall,
    GateReturns, ParkRow, ParkClose, ParkDrained, ParkProjects, ScriptLogs, ScriptCatches,
    ItemReturns, ItemUnwinds, Primitive, StartCheck, StartItem, BarrierOpens, Join, Boot,
    ScriptReturns, ExitAtGate, ExitCancelled, ExitFailed, Signal, Crash, Calling, Unwinding
<1> QED BY <1>6, <1>7, <1>8, <1>9, <1>10 DEF Command

(* Nor does anything a supervisor does; and a call that returns its answer *)
(* leaves it answered.                                                     *)
LEMMA SupervisorKeepsAnswers ==
  ASSUME GateInv, PassedInv, up, [Next]_vars, NEW p \in passed'
  PROVE  StaysAnswered(p)'
<1> USE DEF GateInv, TypeOK
<1>1. \A q : Answers(q)' = Answers(q)
  BY UpApprovesNothing DEF Answers
<1>2. status'.ask \in {status.ask, NoAsk} \/ Unanswered(status'.ask)
  BY StatusUnanswered DEF PassedInv
<1>3. \A q \in Calls : AskOf(q) # NoAsk
  BY CopiedQuestions, QuestionTypes
<1>4. CASE p \in passed
  <2>1. p \in Calls /\ StaysAnswered(p)
    BY <1>4 DEF PassedInv, Typed, TypedHistory
  <2>2. AskOf(p).hash.offer = {} /\ AskOf(p) # NoAsk
    BY <1>3, <2>1 DEF StaysAnswered, AskOf
  <2>3. status.ask # AskOf(p) => status'.ask # AskOf(p)
    BY <1>2, <2>1, <2>2 DEF Unanswered, StaysAnswered
  <2> QED BY <1>1, <2>1, <2>3 DEF StaysAnswered, Again
<1>5. CASE p \notin passed
  <2>1. PICK t \in Threads : /\ GateReturns(t)
                             /\ p = [call[t] EXCEPT !.hash = ResultHash(@.result)]
    <3>1. CASE UNCHANGED vars
      BY <1>5, <3>1 DEF vars
    <3>2. ASSUME NEW t \in Threads, ThreadStep(t), ~ GateReturns(t)
          PROVE  passed' = passed
      BY <3>2 DEF ThreadStep, AgentAdmitted, AgentRefused, AgentEnds, GateCall, ParkRow,
        ParkClose, ParkDrained, ParkProjects, ScriptLogs, ScriptCatches, ItemReturns, ItemUnwinds
    <3>3. ASSUME MainStep \/ Signal \/ Crash
          PROVE  passed' = passed
      BY <3>3 DEF MainStep, Primitive, StartCheck, StartItem, BarrierOpens, Join, Boot,
        ScriptReturns, ExitAtGate, ExitCancelled, ExitFailed, Signal, Crash, Ends
    <3>4. ~ Command
      BY DEF Command, Resume, ResumeDies, ApproveLaunches, ApproveFails, Commanding
    <3>5. PICK t \in Threads : GateReturns(t)
      BY <1>5, <3>1, <3>2, <3>3, <3>4 DEF Next
    <3> QED BY <1>5, <3>5 DEF GateReturns
  <2> DEFINE c == call[t]
             first == [gate |-> c.gate, hash |-> ResultHash(c.hash.result)]
             again == [gate |-> c.gate, hash |-> ReaskHash(c.hash.result, c.actions)]
  <2>2. /\ c \in Calls
        /\ AskOf(c) = Question(c.gate, c.hash.result, c.actions)
        /\ Answered(AskOf(c), c.actions)
    BY <2>1, CopiedQuestions DEF GateReturns, InCall, PassedInv, DecidedIsAnswered
  <2>3. /\ p.gate = c.gate /\ p.hash = ResultHash(c.hash.result) /\ p.actions = c.actions
        /\ AskOf(p) = first /\ Again(p) = again /\ p.hash.offer = {}
    BY <2>1, <2>2 DEF Calls, AskOf, Again, ResultHash
  <2>4. Answers(first) # {}
    BY <2>2 DEF Question, Answered
  <2>5. c.actions # {} => \/ Answers(again) \cap c.actions # {}
                          \/ Answers(first) \cap c.actions # {}
    BY <2>2 DEF Question, Answered
  <2>6. c.actions # {} => status'.ask # first
    <3>1. ASSUME status.phase = "paused"
          PROVE  status.ask # first
      <4>1. first.hash.offer = {}
        BY DEF ResultHash
      <4>2. Unanswered(status.ask)
        BY <3>1 DEF PassedInv, NothingIsAnswered
      <4> QED BY <2>4, <4>1, <4>2 DEF Unanswered
    <3>2. first # NoAsk
      BY <1>3, <2>2, QuestionTypes, CopiedQuestions DEF Hashes
    <3> QED BY <2>1, <3>1, <3>2 DEF GateReturns, AfterAppend
  <2> QED BY <1>1, <2>3, <2>4, <2>5, <2>6 DEF StaysAnswered, Again
<1> QED BY <1>4, <1>5

LEMMA InitPassedInv == Init => PassedInv
BY DEF Init, PassedInv, NothingIsAnswered, NothingIsLeft, Unanswerable, NoExc,
  ReasksAreTheSame, InCall, DecidedIsAnswered

LEMMA NextPassedInv == GateInv /\ PassedInv /\ [Next]_vars => PassedInv'
<1> SUFFICES ASSUME GateInv, PassedInv, [Next]_vars PROVE PassedInv'
  OBVIOUS
<1> USE DEF GateInv, TypeOK, PassedInv
<1>1. CASE up
  <2>1. \A q : Answers(q)' = Answers(q)
    BY <1>1, UpApprovesNothing DEF Answers
  <2>2. NothingIsAnswered' /\ NothingIsLeft'
    <3>1. \A q : Unanswered(q)' <=> Unanswered(q)
      BY <2>1 DEF Unanswered
    <3> QED
      BY <1>1, <3>1, StatusUnanswered, GateUnanswered, ThreadsUnanswered
      DEF NothingIsAnswered, NothingIsLeft, Unanswerable, AskOf
  <2>3. ReasksAreTheSame'
    BY <1>1, RowsReask, ReasksUp DEF ReasksAreTheSame
  <2>4. DecidedIsAnswered'
    BY <1>1, <2>1, DecidedUp DEF DecidedIsAnswered, Answered, Question
  <2>5. \A p \in passed' : StaysAnswered(p)'
    BY <1>1, SupervisorKeepsAnswers
  <2> QED BY <2>2, <2>3, <2>4, <2>5
<1>2. CASE ~up
  <2>1. /\ \A t \in Threads : pc'[t] \in {"idle", "boot"} /\ exc'[t] = NoExc
        /\ pending' = NoAsk /\ firstGate' = NoAsk
        /\ up' => status'.phase = "starting"
        /\ passed' = passed
    BY <1>2, CommandsKeep
  <2>2. NothingIsAnswered' /\ NothingIsLeft'
    BY <2>1 DEF NothingIsAnswered, NothingIsLeft, Unanswerable, NoExc
  <2>3. ReasksAreTheSame' /\ DecidedIsAnswered'
    BY <2>1, RowsReask DEF ReasksAreTheSame, DecidedIsAnswered, InCall
  <2>4. \A p \in passed' : StaysAnswered(p)'
    BY <1>2, <2>1, CommandsKeepAnswers
  <2> QED BY <2>2, <2>3, <2>4
<1> QED BY <1>1, <1>2

(* Only a gate call takes a thread to its row.                             *)
LEMMA OnlyCallsPark ==
  ASSUME Typed, [Next]_vars, NEW t \in Threads, pc[t] # "row", pc'[t] = "row"
  PROVE  \E u \in Threads, g \in Gates, r \in Results, o \in Offers \cup {{}} :
           GateCall(u, g, r, o) /\ u = t
<1>1. ASSUME NEW u \in Threads, NEW g \in Gates, NEW r \in Results,
             NEW o \in Offers \cup {{}}, GateCall(u, g, r, o)
      PROVE  u = t
  BY <1>1 DEF GateCall, Goto, Raise, Typed, TypedThreads
<1>2. ASSUME NEW u \in Threads, ThreadStep(u)
      PROVE  \E g \in Gates, r \in Results, o \in Offers \cup {{}} : GateCall(u, g, r, o)
  BY <1>2 DEF ThreadStep, AgentAdmitted, AgentRefused, AgentEnds, GateReturns, ParkRow,
    ParkClose, ParkDrained, ParkProjects, ScriptLogs, ScriptCatches, ItemReturns, ItemUnwinds,
    Goto, Raise, Typed, TypedThreads
<1>3. ~ (UNCHANGED vars \/ MainStep \/ Signal \/ Crash)
  BY DEF vars, MainStep, Primitive, StartCheck, StartItem, LoopEnd, BarrierOpens, Join, Boot,
    ScriptReturns, ExitAtGate, ExitCancelled, ExitFailed, Signal, Crash, Ends, Goto, Typed,
    TypedThreads
<1>4. ~ Command
  BY DEF Command, Resume, ResumeDies, ApproveLaunches, ApproveFails, Launches, Typed,
    TypedThreads
<1> QED BY <1>1, <1>2, <1>3, <1>4 DEF Next

(* A gate call that returned a decision once returns one whenever the      *)
(* script reaches it again with the same result and the same actions.      *)
THEOREM PassedStays == Spec => PassedStaysPassed
<1> DEFINE Parks == \A t \in Threads :
      pc[t] # "row" /\ pc'[t] = "row" =>
        [call'[t] EXCEPT !.hash = ResultHash(call'[t].hash.result)] \notin passed
<1>1. GateInv /\ PassedInv /\ [Next]_vars => Parks
  <2> SUFFICES ASSUME GateInv, PassedInv, [Next]_vars,
                      NEW t \in Threads, pc[t] # "row", pc'[t] = "row",
                      [call'[t] EXCEPT !.hash = ResultHash(call'[t].hash.result)] \in passed
               PROVE  FALSE
    OBVIOUS
  <2>1. PICK u \in Threads, g \in Gates, r \in Results, o \in Offers \cup {{}} :
          GateCall(u, g, r, o) /\ u = t
    BY OnlyCallsPark DEF GateInv, TypeOK
  <2> DEFINE q == Question(g, r, o)
             p == [gate |-> g, hash |-> ResultHash(r), actions |-> o]
  <2>2. ~ Answered(q, o) /\ call'[t] = [gate |-> g, hash |-> q.hash, actions |-> o]
    BY <2>1 DEF GateCall, Goto, Raise, GateInv, TypeOK, Typed, TypedThreads
  <2>3. [call'[t] EXCEPT !.hash = ResultHash(call'[t].hash.result)] = p
    <3>1. q.hash.result = r
      BY DEF Question, ResultHash, ReaskHash
    <3> QED BY <2>2, <3>1
  <2>4. StaysAnswered(p)
    BY <2>3 DEF PassedInv
  <2> QED BY <2>2, <2>4 DEF StaysAnswered, Again, AskOf, Question, Answered, ResultHash
<1> QED BY <1>1, GateInvariant, InitPassedInv, NextPassedInv, PTL DEF Spec, PassedStaysPassed


-----------------------------------------------------------------------------
(* How a parked supervisor exits                                           *)

(* Once admission is closed the body stays in the primitive that closed it *)
(* or on its way out: only a caller that is not parked could move it       *)
(* elsewhere, and an item that parks keeps the body in its primitive.      *)
LEMMA LeavingNext ==
  ASSUME Typed, IdleElsewhere, ClosedIsLeaving, [Next]_vars
  PROVE  ClosedIsLeaving'
<1>1. CASE UNCHANGED vars
  BY <1>1 DEF vars, ClosedIsLeaving
<1>2. ASSUME NEW t \in Threads, AgentAdmitted(t) PROVE ClosedIsLeaving'
  BY <1>2, Bounds DEF AgentAdmitted, Calling, Goto, Counted, disk, pool, admission,
    ClosedIsLeaving, Leaving, IdleElsewhere, Typed, TypedThreads, TypedHistory, Lasts, NoExc
<1>3. ASSUME NEW t \in Threads, AgentRefused(t) PROVE ClosedIsLeaving'
  BY <1>3, Bounds DEF AgentRefused, Calling, Counted, Raise, Goto, disk, pool, admission,
    ClosedIsLeaving, Leaving, IdleElsewhere, Typed, TypedThreads, TypedHistory, Lasts, NoExc
<1>4. ASSUME NEW t \in Threads, AgentEnds(t) PROVE ClosedIsLeaving'
  BY <1>4, Bounds DEF AgentEnds, Goto, Raise, disk, pool, admission, ClosedIsLeaving, Leaving,
    IdleElsewhere, Typed, TypedThreads, TypedHistory, Lasts, NoExc
<1>5. ASSUME NEW t \in Threads, NEW g \in Gates, NEW r \in Results,
             NEW o \in Offers \cup {{}}, GateCall(t, g, r, o)
      PROVE  ClosedIsLeaving'
  BY <1>5, Bounds DEF GateCall, Calling, Counted, Raise, Goto, disk, pool, admission,
    ClosedIsLeaving, Leaving, IdleElsewhere, Typed, TypedThreads, TypedHistory, Lasts, NoExc
<1>6. ASSUME NEW t \in Threads, GateReturns(t) PROVE ClosedIsLeaving'
  BY <1>6, Bounds DEF GateReturns, Goto, disk, pool, admission, ClosedIsLeaving, Leaving,
    IdleElsewhere, Typed, TypedThreads, TypedHistory, Lasts, NoExc
<1>7. ASSUME NEW t \in Threads, ParkRow(t) PROVE ClosedIsLeaving'
  BY <1>7, Bounds DEF ParkRow, Goto, disk, pool, admission, ClosedIsLeaving, Leaving,
    IdleElsewhere, Typed, TypedThreads, TypedHistory, Lasts, NoExc
<1>8. ASSUME NEW t \in Threads, ParkClose(t) PROVE ClosedIsLeaving'
  BY <1>8, Bounds DEF ParkClose, Goto, disk, pool, admission, ClosedIsLeaving, Leaving,
    IdleElsewhere, Typed, TypedThreads, TypedHistory, Lasts, NoExc
<1>9. ASSUME NEW t \in Threads, ParkDrained(t) PROVE ClosedIsLeaving'
  BY <1>9, Bounds DEF ParkDrained, Goto, disk, pool, admission, ClosedIsLeaving, Leaving,
    IdleElsewhere, Typed, TypedThreads, TypedHistory, Lasts, NoExc
<1>10. ASSUME NEW t \in Threads, ParkProjects(t) PROVE ClosedIsLeaving'
  BY <1>10, Bounds DEF ParkProjects, Goto, disk, pool, admission, ClosedIsLeaving, Leaving,
    IdleElsewhere, Typed, TypedThreads, TypedHistory, Lasts, NoExc
<1>11. ASSUME NEW t \in Threads, ScriptLogs(t) PROVE ClosedIsLeaving'
  BY <1>11, Bounds DEF ScriptLogs, disk, pool, admission, ClosedIsLeaving, Leaving, IdleElsewhere,
    Typed, TypedThreads, TypedHistory, Lasts, NoExc
<1>12. ASSUME NEW t \in Threads, ScriptCatches(t) PROVE ClosedIsLeaving'
  BY <1>12, Bounds DEF ScriptCatches, Goto, disk, pool, admission, ClosedIsLeaving, Leaving,
    IdleElsewhere, Typed, TypedThreads, TypedHistory, Lasts, NoExc
<1>13. ASSUME NEW t \in Threads, ItemReturns(t) PROVE ClosedIsLeaving'
  BY <1>13, Bounds DEF ItemReturns, Goto, disk, pool, admission, ClosedIsLeaving, Leaving,
    IdleElsewhere, Typed, TypedThreads, TypedHistory, Lasts, NoExc
<1>14. ASSUME NEW t \in Threads, ItemUnwinds(t) PROVE ClosedIsLeaving'
  BY <1>14, Bounds DEF ItemUnwinds, Goto, disk, pool, admission, ClosedIsLeaving, Leaving,
    IdleElsewhere, Typed, TypedThreads, TypedHistory, Lasts, NoExc
<1>15. ASSUME NEW W \in SUBSET Items, Primitive(W)
      PROVE  ClosedIsLeaving'
  BY <1>15, Bounds DEF Primitive, Calling, Goto, Counted, disk, pool, admission, ClosedIsLeaving,
    Leaving, IdleElsewhere, Typed, TypedThreads, TypedHistory, Lasts, NoExc
<1>16. ASSUME StartCheck PROVE ClosedIsLeaving'
  BY <1>16, Bounds DEF StartCheck, Goto, LoopEnd, disk, pool, admission, ClosedIsLeaving, Leaving,
    IdleElsewhere, Typed, TypedThreads, TypedHistory, Lasts, NoExc
<1>17. ASSUME StartItem PROVE ClosedIsLeaving'
  BY <1>17, Bounds DEF StartItem, Goto, LoopEnd, disk, pool, admission, ClosedIsLeaving, Leaving,
    IdleElsewhere, Typed, TypedThreads, TypedHistory, Lasts, NoExc
<1>18. ASSUME BarrierOpens PROVE ClosedIsLeaving'
  BY <1>18, Bounds DEF BarrierOpens, disk, pool, admission, ClosedIsLeaving, Leaving,
    IdleElsewhere, Typed, TypedThreads, TypedHistory, Lasts, NoExc
<1>19. ASSUME Join PROVE ClosedIsLeaving'
  BY <1>19, Bounds DEF Join, disk, pool, admission, ClosedIsLeaving, Leaving, IdleElsewhere,
    Typed, TypedThreads, TypedHistory, Lasts, NoExc
<1>20. ASSUME Boot PROVE ClosedIsLeaving'
  BY <1>20, Bounds DEF Boot, Goto, disk, pool, admission, ClosedIsLeaving, Leaving, IdleElsewhere,
    Typed, TypedThreads, TypedHistory, Lasts, NoExc
<1>21. ASSUME ScriptReturns PROVE ClosedIsLeaving'
  BY <1>21, Bounds DEF ScriptReturns, Ends, disk, pool, admission, ClosedIsLeaving, Leaving,
    IdleElsewhere, Typed, TypedThreads, TypedHistory, Lasts, NoExc
<1>22. ASSUME ExitAtGate PROVE ClosedIsLeaving'
  BY <1>22, Bounds DEF ExitAtGate, Unwinding, Ends, disk, pool, admission, ClosedIsLeaving,
    Leaving, IdleElsewhere, Typed, TypedThreads, TypedHistory, Lasts, NoExc
<1>23. ASSUME ExitCancelled PROVE ClosedIsLeaving'
  BY <1>23, Bounds DEF ExitCancelled, Fails, Unwinding, Ends, disk, pool, admission, ClosedIsLeaving,
    Leaving, IdleElsewhere, Typed, TypedThreads, TypedHistory, Lasts, NoExc
<1>24. ASSUME ExitFailed PROVE ClosedIsLeaving'
  BY <1>24, Bounds DEF ExitFailed, Fails, Unwinding, Ends, disk, pool, admission, ClosedIsLeaving,
    Leaving, IdleElsewhere, Typed, TypedThreads, TypedHistory, Lasts, NoExc
<1>25. ASSUME Signal PROVE ClosedIsLeaving'
  BY <1>25, Bounds DEF Signal, disk, pool, admission, ClosedIsLeaving, Leaving, IdleElsewhere,
    Typed, TypedThreads, TypedHistory, Lasts, NoExc
<1>26. ASSUME Crash PROVE ClosedIsLeaving'
  BY <1>26, Bounds DEF Crash, Ends, disk, pool, admission, ClosedIsLeaving, Leaving,
    IdleElsewhere, Typed, TypedThreads, TypedHistory, Lasts, NoExc
<1>27. ASSUME Resume PROVE ClosedIsLeaving'
  BY <1>27, Bounds DEF Resume, Commanding, Launches, NotEnded, disk, pool, admission, ClosedIsLeaving,
    Leaving, IdleElsewhere, Typed, TypedThreads, TypedHistory, Lasts, NoExc
<1>28. ASSUME ResumeDies PROVE ClosedIsLeaving'
  BY <1>28, Bounds DEF ResumeDies, Commanding, disk, pool, admission, ClosedIsLeaving, Leaving,
    IdleElsewhere, Typed, TypedThreads, TypedHistory, Lasts, NoExc
<1>29. ASSUME NEW gs \in Named, NEW c \in Choices, ApproveLaunches(gs, c)
      PROVE  ClosedIsLeaving'
  BY <1>29, Bounds DEF ApproveLaunches, Commanding, Launches, NotEnded, disk, pool, admission,
    ClosedIsLeaving, Leaving, IdleElsewhere, Typed, TypedThreads, TypedHistory, Lasts, NoExc
<1>30. ASSUME NEW gs \in Named, NEW c \in Choices, ApproveFails(gs, c)
      PROVE  ClosedIsLeaving'
  BY <1>30, Bounds DEF ApproveFails, Commanding, disk, pool, admission, ClosedIsLeaving, Leaving,
    IdleElsewhere, Typed, TypedThreads, TypedHistory, Lasts, NoExc
<1> QED
  BY <1>1, <1>2, <1>3, <1>4, <1>5, <1>6, <1>7, <1>8, <1>9, <1>10, <1>11, <1>12, <1>13, <1>14,
    <1>15, <1>16, <1>17, <1>18, <1>19, <1>20, <1>21, <1>22, <1>23, <1>24, <1>25, <1>26, <1>27,
    <1>28, <1>29, <1>30 DEF Next, ThreadStep, MainStep, Command

(* The journal still holds the question a supervisor exits from: if no     *)
(* approval answers it, it pends.                                          *)
LEMMA ParkedPends ==
  ASSUME Typed, QuestionsAsked, pending # NoAsk, Answers(pending) = {}
  PROVE  PendingRows(Gates) # {}
<1>1. PICK i \in DOMAIN rows : AskOf(rows[i]) = pending
  BY DEF QuestionsAsked, GateAsked, Questions
<1>2. rows[i].gate \in Gates
  BY CopiedQuestions, QuestionTypes
<1> QED BY <1>1, <1>2 DEF PendingRows

LEMMA ExitsNext ==
  ASSUME Typed, QuestionsAsked, ClosedIsLeaving, GateExitsPaused, [Next]_vars
  PROVE  GateExitsPaused'
<1>1. CASE UNCHANGED vars
  BY <1>1 DEF vars, GateExitsPaused, Answers
<1>2. ASSUME NEW t \in Threads, AgentAdmitted(t) PROVE GateExitsPaused'
  BY <1>2 DEF AgentAdmitted, Calling, Goto, Counted, disk, pool, admission, GateExitsPaused
<1>3. ASSUME NEW t \in Threads, AgentRefused(t) PROVE GateExitsPaused'
  BY <1>3 DEF AgentRefused, Calling, Counted, Raise, Goto, disk, pool, admission, GateExitsPaused
<1>4. ASSUME NEW t \in Threads, AgentEnds(t) PROVE GateExitsPaused'
  BY <1>4 DEF AgentEnds, Goto, Raise, disk, pool, admission, GateExitsPaused
<1>5. ASSUME NEW t \in Threads, NEW g \in Gates, NEW r \in Results,
             NEW o \in Offers \cup {{}}, GateCall(t, g, r, o)
      PROVE  GateExitsPaused'
  BY <1>5 DEF GateCall, Calling, Counted, Raise, Goto, disk, pool, admission, GateExitsPaused
<1>6. ASSUME NEW t \in Threads, GateReturns(t) PROVE GateExitsPaused'
  BY <1>6 DEF GateReturns, Goto, disk, pool, admission, GateExitsPaused
<1>7. ASSUME NEW t \in Threads, ParkRow(t) PROVE GateExitsPaused'
  BY <1>7 DEF ParkRow, Goto, disk, pool, admission, GateExitsPaused
<1>8. ASSUME NEW t \in Threads, ParkClose(t) PROVE GateExitsPaused'
  BY <1>8 DEF ParkClose, Goto, disk, pool, admission, GateExitsPaused
<1>9. ASSUME NEW t \in Threads, ParkDrained(t) PROVE GateExitsPaused'
  BY <1>9 DEF ParkDrained, Goto, disk, pool, admission, GateExitsPaused
<1>10. ASSUME NEW t \in Threads, ParkProjects(t) PROVE GateExitsPaused'
  BY <1>10 DEF ParkProjects, Goto, disk, pool, admission, GateExitsPaused
<1>11. ASSUME NEW t \in Threads, ScriptLogs(t) PROVE GateExitsPaused'
  BY <1>11 DEF ScriptLogs, disk, pool, admission, GateExitsPaused
<1>12. ASSUME NEW t \in Threads, ScriptCatches(t) PROVE GateExitsPaused'
  BY <1>12 DEF ScriptCatches, Goto, disk, pool, admission, GateExitsPaused
<1>13. ASSUME NEW t \in Threads, ItemReturns(t) PROVE GateExitsPaused'
  BY <1>13 DEF ItemReturns, Goto, disk, pool, admission, GateExitsPaused
<1>14. ASSUME NEW t \in Threads, ItemUnwinds(t) PROVE GateExitsPaused'
  BY <1>14 DEF ItemUnwinds, Goto, disk, pool, admission, GateExitsPaused
<1>15. ASSUME NEW W \in SUBSET Items, Primitive(W)
      PROVE  GateExitsPaused'
  BY <1>15 DEF Primitive, Calling, Goto, Counted, disk, pool, admission, GateExitsPaused
<1>16. ASSUME StartCheck PROVE GateExitsPaused'
  BY <1>16 DEF StartCheck, Goto, LoopEnd, disk, pool, admission, GateExitsPaused
<1>17. ASSUME StartItem PROVE GateExitsPaused'
  BY <1>17 DEF StartItem, Goto, LoopEnd, disk, pool, admission, GateExitsPaused
<1>18. ASSUME BarrierOpens PROVE GateExitsPaused'
  BY <1>18 DEF BarrierOpens, disk, pool, admission, GateExitsPaused
<1>19. ASSUME Join PROVE GateExitsPaused'
  BY <1>19 DEF Join, disk, pool, admission, GateExitsPaused
<1>20. ASSUME Boot PROVE GateExitsPaused'
  BY <1>20 DEF Boot, Goto, disk, pool, admission, GateExitsPaused
<1>21. ASSUME ScriptReturns PROVE GateExitsPaused'
  <2>1. pending # NoAsk => last.caught
    BY <1>21 DEF ScriptReturns, QuestionsAsked, GateAsked, ClosedIsLeaving, Leaving
  <2> QED BY <1>21, <2>1 DEF ScriptReturns, Ends, GateExitsPaused, Typed, TypedHistory, Lasts
<1>22. ASSUME ExitAtGate PROVE GateExitsPaused'
  BY <1>22 DEF ExitAtGate, Ends, Projection, GateExitsPaused
<1>23. ASSUME ExitCancelled PROVE GateExitsPaused'
  <2>1. /\ last'.parked = pending /\ last'.how \in {"stuck", "cancelled"}
        /\ approvals' = approvals
    BY <1>23 DEF ExitCancelled, Fails, Ends, Typed, TypedHistory, Lasts
  <2>2. last'.how = "cancelled" /\ PendingRows(Gates) # {} => status'.phase = "paused"
    <3>1. CASE Fails /\ Ends("stuck")
      BY <3>1 DEF Ends, Typed, TypedHistory, Lasts
    <3>2. CASE ~(Fails /\ Ends("stuck"))
      <4>1. PendingRows(Gates) # {} =>
              \E i \in Latest(PendingRows(Gates)) : status' = Projection(AskOf(rows[i]))
        BY <1>23, <3>2 DEF ExitCancelled
      <4> QED BY <4>1 DEF Projection
    <3> QED BY <3>1, <3>2
  <2>3. pending # NoAsk /\ PendingRows(Gates) = {} => Answers(pending) # {}
    BY ParkedPends
  <2> QED BY <2>1, <2>2, <2>3 DEF GateExitsPaused, Answers
<1>24. ASSUME ExitFailed PROVE GateExitsPaused'
  <2>1. pending # NoAsk => last.caught
    BY <1>24 DEF ExitFailed, Fails, Unwinding, QuestionsAsked, GateAsked, ClosedIsLeaving, Leaving
  <2> QED BY <1>24, <2>1 DEF ExitFailed, Fails, Ends, GateExitsPaused, Typed, TypedHistory, Lasts
<1>25. ASSUME Signal PROVE GateExitsPaused'
  BY <1>25 DEF Signal, disk, pool, admission, GateExitsPaused
<1>26. ASSUME Crash PROVE GateExitsPaused'
  BY <1>26 DEF Crash, Ends, disk, pool, admission, GateExitsPaused
<1>27. ASSUME Resume PROVE GateExitsPaused'
  BY <1>27 DEF Resume, Commanding, Launches, NotEnded, disk, pool, admission, GateExitsPaused
<1>28. ASSUME ResumeDies PROVE GateExitsPaused'
  BY <1>28 DEF ResumeDies, ResumeRecords, Commanding, pool, admission, GateExitsPaused, Answers
<1>29. ASSUME NEW gs \in Named, NEW c \in Choices, ApproveLaunches(gs, c)
      PROVE  GateExitsPaused'
  BY <1>29 DEF ApproveLaunches, Commanding, Launches, NotEnded, disk, pool, admission, GateExitsPaused
<1>30. ASSUME NEW gs \in Named, NEW c \in Choices, ApproveFails(gs, c)
      PROVE  GateExitsPaused'
  BY <1>30 DEF ApproveFails, Projection, GateExitsPaused
<1> QED
  BY <1>1, <1>2, <1>3, <1>4, <1>5, <1>6, <1>7, <1>8, <1>9, <1>10, <1>11, <1>12, <1>13, <1>14,
    <1>15, <1>16, <1>17, <1>18, <1>19, <1>20, <1>21, <1>22, <1>23, <1>24, <1>25, <1>26, <1>27,
    <1>28, <1>29, <1>30 DEF Next, ThreadStep, MainStep, Command

LEMMA InitExitInv == Init => ExitInv
BY Bounds DEF Init, ExitInv, ClosedIsLeaving, GateExitsPaused, NotEnded

LEMMA NextExitInv == GateInv /\ ExitInv /\ [Next]_vars => ExitInv'
<1> SUFFICES ASSUME GateInv, ExitInv, [Next]_vars PROVE ExitInv'
  OBVIOUS
<1> USE DEF GateInv, TypeOK, ExitInv
<1> QED BY LeavingNext, ExitsNext

(* A supervisor that parked and ended by itself leaves "paused", but for   *)
(* the exceptions that the property names.                                 *)
THEOREM ParkedExits == Spec => []GateExitsPaused
<1>1. ExitInv => GateExitsPaused
  BY DEF ExitInv
<1> QED BY <1>1, InitExitInv, NextExitInv, GateInvariant, PTL DEF Spec
=============================================================================
