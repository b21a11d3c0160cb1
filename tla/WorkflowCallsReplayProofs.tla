--------------------- MODULE WorkflowCallsReplayProofs ---------------------
(***************************************************************************)
(* What a supervisor of WorkflowCalls remembers of its journal: the memory *)
(* that append_event updates row by row is the one that _load_replay makes *)
(* of all the rows, a keyed step is answered once, and a child that        *)
(* succeeded under a supervisor that died is adopted by the next.          *)
(***************************************************************************)
EXTENDS WorkflowCallsProofs, WellFoundedInduction

-----------------------------------------------------------------------------
(* Induction over the numbers, and the fold of a journal by it.            *)

Below == {p \in Nat \X Nat : p[1] < p[2]}

LEMMA BelowIsWellFounded == IsWellFoundedOn(Below, Nat)
BY NatLessThanWellFounded DEF OpToRel, Below

LEMMA SetInduction ==
  ASSUME NEW S, 0 \in S, \A n \in Nat : n \in S => n + 1 \in S
  PROVE  Nat \subseteq S
<1> DEFINE T == Nat \ S
<1>1. SUFFICES ASSUME T # {} PROVE FALSE
  OBVIOUS
<1>2. PICK x \in T : \A y \in T : <<y, x>> \notin Below
  BY <1>1, BelowIsWellFounded, WFMin
<1>3. x \in Nat /\ x # 0
  BY <1>2
<1>4. x - 1 \in Nat /\ x - 1 < x /\ x = (x - 1) + 1
  BY <1>3
<1>5. <<x - 1, x>> \in Below
  BY <1>3, <1>4 DEF Below
<1>6. x - 1 \in S
  BY <1>2, <1>4, <1>5
<1> QED BY <1>2, <1>4, <1>6

(* The memory after each of the first n rows.                              *)
Reads(g, rows, n) ==
  g = [i \in 0 .. n |-> IF i = 0 THEN Blank ELSE ReadRow(g[i - 1], rows[i])]

LEMMA ReadsExist ==
  ASSUME NEW rows \in Seq(Rows)
  PROVE  \E g : Reads(g, rows, Len(rows))
<1> DEFINE S == {k \in Nat : k <= Len(rows) => \E g : Reads(g, rows, k)}
<1>1. 0 \in S
  <2> DEFINE g == [i \in 0 .. 0 |-> Blank]
  <2>1. Reads(g, rows, 0)
    BY DEF Reads
  <2> QED BY <2>1
<1>2. ASSUME NEW k \in Nat, k \in S PROVE k + 1 \in S
  <2> SUFFICES ASSUME k + 1 <= Len(rows) PROVE \E g : Reads(g, rows, k + 1)
    OBVIOUS
  <2>1. PICK h : Reads(h, rows, k)
    BY <1>2
  <2> DEFINE g == [i \in 0 .. k + 1 |-> IF i = k + 1 THEN ReadRow(h[k], rows[k + 1]) ELSE h[i]]
  <2>2. g = [i \in 0 .. k + 1 |-> IF i = 0 THEN Blank ELSE ReadRow(g[i - 1], rows[i])]
    <3> SUFFICES ASSUME NEW i \in 0 .. k + 1
                 PROVE  g[i] = IF i = 0 THEN Blank ELSE ReadRow(g[i - 1], rows[i])
      OBVIOUS
    <3>1. CASE i = k + 1
      BY <3>1
    <3>2. CASE i # k + 1
      <4>1. i \in 0 .. k /\ g[i] = h[i]
        BY <3>2
      <4>2. h[i] = IF i = 0 THEN Blank ELSE ReadRow(h[i - 1], rows[i])
        BY <2>1, <4>1 DEF Reads
      <4>3. i # 0 => g[i - 1] = h[i - 1]
        BY <4>1
      <4> QED BY <4>1, <4>2, <4>3
    <3> QED BY <3>1, <3>2
  <2>3. Reads(g, rows, k + 1)
    BY <2>2 DEF Reads
  <2> QED BY <2>3
<1>3. Nat \subseteq S
  BY <1>1, <1>2, SetInduction
<1> QED BY <1>3

LEMMA LoadIsRead ==
  ASSUME NEW rows \in Seq(Rows)
  PROVE  \E g : Reads(g, rows, Len(rows)) /\ Load(rows) = g[Len(rows)]
<1> DEFINE f == CHOOSE g : Reads(g, rows, Len(rows))
<1>1. Reads(f, rows, Len(rows))
  BY ReadsExist
<1>2. Load(rows) = f[Len(rows)]
  BY DEF Load, Reads
<1> QED BY <1>1, <1>2

(* Two reads of journals that begin alike agree on what they share.        *)
LEMMA ReadsAgree ==
  ASSUME NEW rows, NEW more, NEW n \in Nat, NEW m \in Nat, NEW g, NEW h,
         Reads(g, rows, n), Reads(h, more, m), n <= m,
         \A i \in 1 .. n : rows[i] = more[i]
  PROVE  \A i \in 0 .. n : g[i] = h[i]
<1> DEFINE S == {k \in Nat : k <= n => g[k] = h[k]}
<1>1. 0 \in S
  BY DEF Reads
<1>2. ASSUME NEW k \in Nat, k \in S PROVE k + 1 \in S
  <2> SUFFICES ASSUME k + 1 <= n PROVE g[k + 1] = h[k + 1]
    OBVIOUS
  <2>1. k + 1 \in 0 .. n /\ k + 1 \in 0 .. m /\ k + 1 \in 1 .. n /\ k + 1 # 0
        /\ (k + 1) - 1 = k
    OBVIOUS
  <2>2. g[k + 1] = ReadRow(g[k], rows[k + 1]) /\ h[k + 1] = ReadRow(h[k], more[k + 1])
    BY <2>1 DEF Reads
  <2> QED BY <1>2, <2>1, <2>2
<1>3. Nat \subseteq S
  BY <1>1, <1>2, SetInduction
<1> QED BY <1>3

(* Loading a journal with one row more reads that row last.                *)
LEMMA LoadAppend ==
  ASSUME NEW rows \in Seq(Rows), NEW row \in Rows
  PROVE  Load(Append(rows, row)) = ReadRow(Load(rows), row)
<1> DEFINE more == Append(rows, row)
           n == Len(rows)
<1>1. /\ more \in Seq(Rows) /\ Len(more) = n + 1 /\ n \in Nat /\ more[n + 1] = row
      /\ \A i \in 1 .. n : rows[i] = more[i]
  OBVIOUS
<1>2. PICK g : Reads(g, rows, n) /\ Load(rows) = g[n]
  BY LoadIsRead
<1>3. PICK h : Reads(h, more, n + 1) /\ Load(more) = h[n + 1]
  BY <1>1, LoadIsRead
<1> HIDE DEF more
<1>4. g[n] = h[n]
  <2>1. n \in Nat /\ n + 1 \in Nat /\ n <= n + 1 /\ n \in 0 .. n
    BY <1>1
  <2>2. \A i \in 0 .. n : g[i] = h[i]
    BY <1>1, <1>2, <1>3, <2>1, ReadsAgree, SMTT(30)
  <2> QED BY <2>1, <2>2
<1>5. h[n + 1] = ReadRow(h[n], more[n + 1])
  BY <1>1, <1>3 DEF Reads
<1> QED BY <1>1, <1>2, <1>3, <1>4, <1>5 DEF more

LEMMA LoadEmpty == Load(<<>>) = Blank
<1>1. <<>> \in Seq(Rows) /\ Len(<<>>) = 0
  OBVIOUS
<1>2. PICK g : Reads(g, <<>>, 0) /\ Load(<<>>) = g[0]
  BY <1>1, LoadIsRead
<1> QED BY <1>2 DEF Reads

-----------------------------------------------------------------------------
(* One row, read and appended.                                             *)

LEMMA BlankIsMemory == Blank \in Memory
BY DEF Blank, Memory, Results

LEMMA RowAgrees ==
  ASSUME NEW m \in Memory, NEW read \in Memory, NEW row \in Rows, Agrees(m, read)
  PROVE  /\ Live(m, row) \in Memory /\ ReadRow(read, row) \in Memory
         /\ Agrees(Live(m, row), ReadRow(read, row))
<1>0. row.n \in Ids /\ row.result \in Results
      /\ row.type \in {"budget", "started", "finished", "exhausted", "rejected"}
  BY DEF Rows
<1>1. CASE row.type = "started"
  BY <1>0, <1>1 DEF Live, ReadRow, Agrees, Memory
<1>2. CASE row.type = "finished"
  BY <1>0, <1>2 DEF Live, ReadRow, Agrees, Memory
<1>3. CASE row.type = "exhausted"
  BY <1>0, <1>3 DEF Live, ReadRow, Agrees, Memory
<1>4. CASE row.type = "rejected"
  <2>1. m.replay[row.n] = read.replay[row.n]
    BY DEF Agrees
  <2>2. CASE m.replay[row.n] = "missing"
    BY <1>0, <1>4, <2>1, <2>2 DEF Live, ReadRow, Agrees, Memory
  <2>3. CASE m.replay[row.n] # "missing"
    <3>1. "missing" \in Results
      BY DEF Results
    <3> DEFINE Refused(x) == [replay |-> [x.replay EXCEPT ![row.n] = "missing"],
                              started |-> x.started \ {row.n},
                              exhausted |-> x.exhausted \ {row.n},
                              tomb |-> x.tomb \cup {row.n},
                              restarted |-> x.restarted \ {row.n},
                              scoped |-> x.scoped, mine |-> x.mine]
    <3>2. Live(m, row) = Refused(m)
      BY <1>4, <2>3 DEF Live, Memory
    <3>3. ReadRow(read, row) = Refused(read)
      BY <1>4, <2>1, <2>3 DEF ReadRow, Memory
    <3>4. Refused(m) \in Memory /\ Refused(read) \in Memory
      BY <1>0, <3>1 DEF Memory
    <3>5. Agrees(Refused(m), Refused(read))
      BY DEF Agrees
    <3> QED BY <3>2, <3>3, <3>4, <3>5
  <2> QED BY <2>2, <2>3
<1>5. CASE row.type = "budget"
  BY <1>0, <1>5 DEF Live, ReadRow
<1> QED BY <1>0, <1>1, <1>2, <1>3, <1>4, <1>5

LEMMA AgreesRefl == \A m : Agrees(m, m)
BY DEF Agrees

(* A journal's memory is one.                                              *)
LEMMA LoadType ==
  ASSUME NEW rows \in Seq(Rows)
  PROVE  Load(rows) \in Memory
<1>1. PICK g : Reads(g, rows, Len(rows)) /\ Load(rows) = g[Len(rows)]
  BY LoadIsRead
<1> DEFINE S == {k \in Nat : k <= Len(rows) => g[k] \in Memory}
<1>2. 0 \in S
  BY <1>1, BlankIsMemory DEF Reads
<1>3. ASSUME NEW k \in Nat, k \in S PROVE k + 1 \in S
  <2> SUFFICES ASSUME k + 1 <= Len(rows) PROVE g[k + 1] \in Memory
    OBVIOUS
  <2>1. k + 1 \in 0 .. Len(rows) /\ k + 1 # 0 /\ (k + 1) - 1 = k /\ rows[k + 1] \in Rows
    OBVIOUS
  <2>2. g[k + 1] = ReadRow(g[k], rows[k + 1])
    BY <1>1, <2>1 DEF Reads
  <2>3. g[k] \in Memory
    BY <1>3
  <2> QED BY <2>1, <2>2, <2>3, AgreesRefl, RowAgrees
<1>4. Nat \subseteq S
  BY <1>2, <1>3, SetInduction
<1> QED BY <1>1, <1>4

-----------------------------------------------------------------------------
(* Memory and journal agree, whatever a thread does.                       *)

Remembers(M, J) ==
  M \in [Steps -> Memory] /\ \A s \in Steps : Agrees(M[s], Load(J[s]))
ReplayInv ==
  /\ mem \in [Steps -> Memory]
  /\ sup = "up" => Remembers(mem, journal)

(* A row is appended and remembered, on top of marks dropped from memory.  *)
LEMMA AppendRemembers ==
  ASSUME BookTypeOK, Remembers(mem, journal), NEW s \in Steps, NEW row \in Rows,
         NEW m \in Memory, Agrees(m, Load(journal[s]))
  PROVE  Remembers([mem EXCEPT ![s] = Live(m, row)],
                   [journal EXCEPT ![s] = Append(@, row)])
<1>1. journal[s] \in Seq(Rows) /\ journal \in [Steps -> Seq(Rows)]
  BY DEF BookTypeOK
<1>2. Load(Append(journal[s], row)) = ReadRow(Load(journal[s]), row)
  BY <1>1, LoadAppend
<1>3. /\ Live(m, row) \in Memory
      /\ Agrees(Live(m, row), ReadRow(Load(journal[s]), row))
  BY <1>1, LoadType, RowAgrees
<1>4. mem \in [Steps -> Memory]
  BY DEF Remembers
<1> QED BY <1>1, <1>2, <1>3, <1>4 DEF Remembers

(* Marks dropped from memory.                                              *)
LEMMA DropRemembers ==
  ASSUME Remembers(mem, journal), NEW s \in Steps, NEW m \in Memory,
         Agrees(m, Load(journal[s]))
  PROVE  Remembers([mem EXCEPT ![s] = m], journal)
BY DEF Remembers

(* The marks an adoption or a sweep drops.                                 *)
LEMMA Dropped ==
  ASSUME Remembers(mem, journal), NEW s \in Steps, NEW K
  PROVE  /\ mem[s] \in Memory /\ Agrees(mem[s], Load(journal[s]))
         /\ Unexhausted(s) \in Memory /\ Agrees(Unexhausted(s), Load(journal[s]))
         /\ [mem[s] EXCEPT !.started = @ \ K] \in Memory
         /\ Agrees([mem[s] EXCEPT !.started = @ \ K], Load(journal[s]))
<1>1. mem[s] \in Memory /\ Agrees(mem[s], Load(journal[s]))
  BY DEF Remembers
<1> QED BY <1>1 DEF Unexhausted, Memory, Agrees

LEMMA JournalsRemembers ==
  ASSUME BookTypeOK, Remembers(mem, journal), NEW s \in Steps, NEW row \in Rows,
         Journals(s, row)
  PROVE  Remembers(mem', journal')
<1>1. mem[s] \in Memory /\ Agrees(mem[s], Load(journal[s]))
  BY DEF Remembers
<1> QED BY <1>1, AppendRemembers DEF Journals

LEMMA AdoptAnswerRemembers ==
  ASSUME BookTypeOK, Remembers(mem, journal), NEW s \in Steps, NEW result \in Results,
         AdoptAnswer(s, result)
  PROVE  Remembers(mem', journal')
<1>1. Row("finished", call[s].n, result) \in Rows
  BY RowTypes DEF BookTypeOK
<1>2. Unexhausted(s) \in Memory /\ Agrees(Unexhausted(s), Load(journal[s]))
  BY Dropped
<1> QED BY <1>1, <1>2, AppendRemembers DEF AdoptAnswer

LEMMA FinishRemembers ==
  ASSUME BookTypeOK, Remembers(mem, journal), NEW s \in Steps,
         NEW type \in {"finished", "exhausted"}, NEW result \in Results,
         Finish(s, type, result)
  PROVE  Remembers(mem', journal')
<1>1. Row(type, call[s].n, result) \in Rows
  BY RowTypes DEF BookTypeOK
<1> QED BY <1>1, JournalsRemembers DEF Finish

LEMMA LookupRemembers ==
  ASSUME BookTypeOK, Remembers(mem, journal), NEW s \in Steps,
         Call(s) \/ Adopt(s) \/ WaitEnds(s) \/ WaitTimesOut(s)
  PROVE  Remembers(mem', journal')
<1>1. CASE Call(s)
  <2>1. journal' = journal
        /\ (mem' = mem \/ \E K : mem' = [mem EXCEPT ![s].started = @ \ K])
    BY <1>1 DEF Call
  <2>2. CASE mem' = mem
    BY <2>1, <2>2
  <2>3. ASSUME NEW K, mem' = [mem EXCEPT ![s].started = @ \ K]
        PROVE  Remembers(mem', journal')
    <3>1. mem' = [mem EXCEPT ![s] = [mem[s] EXCEPT !.started = @ \ K]]
      BY <2>3
    <3> QED BY <2>1, <3>1, Dropped, DropRemembers
  <2> QED BY <2>1, <2>2, <2>3
<1>2. CASE Adopt(s)
  <2>1. \/ mem' = [mem EXCEPT ![s] = Unexhausted(s)] /\ journal' = journal
        \/ AdoptAnswer(s, "answer")
    BY <1>2 DEF Adopt
  <2>2. CASE mem' = [mem EXCEPT ![s] = Unexhausted(s)] /\ journal' = journal
    BY <2>2, Dropped, DropRemembers
  <2>3. CASE AdoptAnswer(s, "answer")
    BY <2>3, AdoptAnswerRemembers DEF Results
  <2> QED BY <2>1, <2>2, <2>3
<1>3. CASE WaitEnds(s)
  <2>1. CASE AdoptAnswer(s, "answer")
    BY <2>1, AdoptAnswerRemembers DEF Results
  <2>2. CASE UNCHANGED <<journal, mem>>
    BY <2>2
  <2> QED BY <1>3, <2>1, <2>2 DEF WaitEnds
<1>4. CASE WaitTimesOut(s)
  <2>1. CASE AdoptAnswer(s, "none")
    BY <2>1, AdoptAnswerRemembers DEF Results
  <2>2. CASE UNCHANGED <<journal, mem>>
    BY <2>2
  <2> QED BY <1>4, <2>1, <2>2 DEF WaitTimesOut
<1> QED BY <1>1, <1>2, <1>3, <1>4

LEMMA LaunchRemembers ==
  ASSUME BookTypeOK, Remembers(mem, journal), NEW s \in Steps,
         \/ CacheHit(s) \/ Claim(s) \/ Charge(s) \/ SaveStatus(s) \/ Start(s)
         \/ Launch(s) \/ ChildReturns(s) \/ ChildTimesOut(s) \/ ChildCancelled(s)
         \/ Backoff(s)
  PROVE  Remembers(mem', journal')
<1>0. call[s].n \in Ids
  BY DEF BookTypeOK
<1>1. CASE UNCHANGED <<journal, mem>>
  BY <1>1
<1>2. CASE Charge(s)
  <2> DEFINE row == Row("budget", call[s].n, "missing")
  <2>1. row \in Rows /\ row.type = "budget"
    BY <1>0, RowTypes DEF Results
  <2>2. journal' = [journal EXCEPT ![s] = Append(@, row)] /\ mem' = mem
    BY <1>2 DEF Charge
  <2> HIDE DEF row
  <2>3. Live(mem[s], row) = mem[s]
    BY <2>1 DEF Live
  <2>4. mem[s] \in Memory /\ Agrees(mem[s], Load(journal[s]))
        /\ [mem EXCEPT ![s] = mem[s]] = mem
    BY DEF Remembers
  <2> QED BY <2>1, <2>2, <2>3, <2>4, AppendRemembers
<1>3. CASE Start(s)
  <2>1. Row("started", call[s].n, "missing") \in Rows
    BY <1>0, RowTypes DEF Results
  <2> QED BY <1>1, <1>3, <2>1, JournalsRemembers DEF Start
<1>4. CASE ChildReturns(s) \/ ChildTimesOut(s)
  <2>1. \/ UNCHANGED <<journal, mem>>
        \/ Finish(s, "exhausted", "none") \/ Finish(s, "finished", "answer")
    BY <1>4 DEF ChildReturns, ChildTimesOut, FailedAttempt
  <2> QED BY <1>1, <2>1, FinishRemembers DEF Results
<1> QED BY <1>1, <1>2, <1>3, <1>4
    DEF CacheHit, Claim, SaveStatus, Launch, ChildCancelled, Backoff

-----------------------------------------------------------------------------

LEMMA ThreadKeepsReplay ==
  ASSUME BookTypeOK, ReplayInv, NEW s \in Steps, CallStep(s) \/ ChildTimesOut(s)
  PROVE  ReplayInv'
<1>1. sup = "up" /\ sup' = sup
  BY DEF CallStep, Call, CacheHit, Adopt, WaitEnds, WaitTimesOut, Claim, Charge, SaveStatus, 
     Start, Launch, ChildReturns, ChildTimesOut, ChildCancelled, Backoff
<1>2. Remembers(mem', journal')
  BY <1>1, LookupRemembers, LaunchRemembers DEF ReplayInv, CallStep
<1> QED BY <1>1, <1>2 DEF ReplayInv, Remembers

LEMMA ScriptKeepsReplay ==
  ASSUME BookTypeOK, ReplayInv, NEW s \in Steps,
         ChildSteps(s) \/ ScriptRejects(s) \/ OperatorRejects(s)
  PROVE  ReplayInv'
<1>1. CASE ChildSteps(s)
  <2>1. UNCHANGED <<sup, journal, mem>>
    BY <1>1 DEF ChildSteps
  <2> QED BY <2>1 DEF ReplayInv, Remembers
<1>2. CASE ScriptRejects(s)
  <2>1. Row("rejected", call[s].n, "missing") \in Rows
    BY RowTypes DEF BookTypeOK, Results
  <2>2. sup = "up" /\ sup' = sup /\ Journals(s, Row("rejected", call[s].n, "missing"))
    BY <1>2 DEF ScriptRejects
  <2>3. Remembers(mem', journal')
    BY <2>1, <2>2, JournalsRemembers DEF ReplayInv
  <2> QED BY <2>2, <2>3 DEF ReplayInv, Remembers
<1>3. CASE OperatorRejects(s)
  BY <1>3 DEF OperatorRejects, ReplayInv
<1> QED BY <1>1, <1>2, <1>3

LEMMA BlankRemembers ==
  ASSUME NEW M, NEW J, M = [s \in Steps |-> Blank], J = [s \in Steps |-> <<>>]
  PROVE  Remembers(M, J)
BY BlankIsMemory, LoadEmpty, AgreesRefl DEF Remembers

LEMMA SupervisorKeepsReplay ==
  ASSUME BookTypeOK, ReplayInv, ScriptEnds \/ Signal \/ Crash \/ Resume
  PROVE  ReplayInv'
<1>1. CASE ScriptEnds \/ Crash
  <2>1. sup' # "up" /\ mem' = [s \in Steps |-> Blank]
    BY <1>1 DEF ScriptEnds, Crash, Gone
  <2> QED BY <2>1, BlankIsMemory DEF ReplayInv
<1>2. CASE Signal
  BY <1>2 DEF Signal, ReplayInv
<1>3. CASE Resume
  <2>1. CASE UNCHANGED <<sup, journal, mem>>
    BY <2>1 DEF ReplayInv, Remembers
  <2>2. CASE Boots
    <3>1. mem' = [s \in Steps |-> Load(journal[s])] /\ journal' = journal
      BY <2>2 DEF Boots
    <3>2. \A s \in Steps : Load(journal[s]) \in Memory
      BY LoadType DEF BookTypeOK
    <3> QED BY <3>1, <3>2, AgreesRefl DEF ReplayInv, Remembers
  <2> QED BY <1>3, <2>1, <2>2 DEF Resume
<1> QED BY <1>1, <1>2, <1>3

LEMMA ReplayInvariant == Spec => []ReplayInv
<1>1. Init => ReplayInv
  BY BlankRemembers, BlankIsMemory DEF Init, ReplayInv
<1>2. ASSUME BookTypeOK, ReplayInv, [Next]_vars
      PROVE  ReplayInv'
  <2>1. CASE UNCHANGED vars
    BY <1>2, <2>1 DEF vars, ReplayInv
  <2> QED BY <1>2, <2>1, ThreadKeepsReplay, ScriptKeepsReplay, SupervisorKeepsReplay DEF Next
<1>3. BudgetInv => BookTypeOK
  BY DEF BudgetInv
<1> QED BY <1>1, <1>2, <1>3, BudgetInvariant, PTL DEF Spec

(* Every variable of the workflow keeps its type, the replay memory that   *)
(* _load_replay folds out of a journal of any length included.             *)
THEOREM WorkflowTypes == Spec => []TypeOK
<1>1. BudgetInv /\ ReplayInv => TypeOK
  BY DEF BudgetInv, ReplayInv, TypeOK
<1> QED BY <1>1, BudgetInvariant, ReplayInvariant, PTL

(* What append_event has made of the replay memory, row by row, is what    *)
(* _load_replay makes of the journal, but for the marks an adoption or a   *)
(* sweep dropped: a successor takes no step for settled, rejected or new   *)
(* that its predecessor took for another, in a journal of any length.      *)
THEOREM MemoryMatchesJournal == Spec => []ReplayAgrees
<1>1. BudgetInv /\ ReplayInv => ReplayAgrees
  BY DEF BudgetInv, ReplayInv, Remembers, ReplayAgrees
<1> QED BY <1>1, BudgetInvariant, ReplayInvariant, PTL

-----------------------------------------------------------------------------
(* A keyed step is answered once.                                          *)

LEMMA AnswersAppend ==
  ASSUME NEW rows \in Seq(Rows), NEW row \in Rows
  PROVE  /\ row.type \notin {"finished", "rejected"}
              => Answers(Append(rows, row)) = Answers(rows)
         /\ row.type = "finished"
              => Answers(Append(rows, row)) = Answers(rows) \cup {Len(rows) + 1}
         /\ row.type = "rejected"
              => Answers(Append(rows, row)) = {i \in Answers(rows) : rows[i].n # row.n}
<1> DEFINE more == Append(rows, row)
<1>1. /\ DOMAIN more = DOMAIN rows \cup {Len(rows) + 1}
      /\ more[Len(rows) + 1] = row
      /\ \A i \in DOMAIN rows : more[i] = rows[i] /\ i \in Nat /\ i < Len(rows) + 1
      /\ Len(rows) \in Nat /\ Len(rows) + 1 \notin DOMAIN rows
  OBVIOUS
<1> HIDE DEF more
<1> QED BY <1>1 DEF Answers, more

LEMMA SettlesAppend ==
  ASSUME NEW rows \in Seq(Rows), NEW row \in Rows, SettlesOnce(rows),
         row.type \in {"finished", "exhausted"} => Answers(rows) = {}
  PROVE  SettlesOnce(Append(rows, row))
<1> DEFINE more == Append(rows, row)
           m == Len(rows) + 1
<1>1. /\ DOMAIN more = DOMAIN rows \cup {m} /\ more[m] = row
      /\ \A i \in DOMAIN rows : more[i] = rows[i] /\ i \in Nat /\ i < m
      /\ DOMAIN rows = 1 .. m - 1 /\ m \in Nat
  OBVIOUS
<1> HIDE DEF more, m
<1>2. SUFFICES ASSUME NEW i \in DOMAIN more, NEW j \in DOMAIN more, i < j,
                      more[i].type = "finished", more[j].type \in {"finished", "exhausted"}
               PROVE  \E k \in i + 1 .. j - 1 :
                        more[k].type = "rejected" /\ more[k].n = more[i].n
  BY DEF SettlesOnce, more
<1>3. i \in DOMAIN rows
  BY <1>1, <1>2
<1>4. CASE j \in DOMAIN rows
  <2>1. PICK k \in i + 1 .. j - 1 : rows[k].type = "rejected" /\ rows[k].n = rows[i].n
    BY <1>1, <1>2, <1>3, <1>4 DEF SettlesOnce
  <2>2. k \in DOMAIN rows
    BY <1>1, <1>3, <1>4
  <2> QED BY <1>1, <1>3, <2>1, <2>2
<1>5. CASE j = m
  <2>1. i \notin Answers(rows)
    BY <1>1, <1>2, <1>5
  <2>2. PICK k \in DOMAIN rows : k > i /\ rows[k].type = "rejected" /\ rows[k].n = rows[i].n
    BY <1>1, <1>2, <1>3, <2>1 DEF Answers
  <2>3. k \in i + 1 .. j - 1
    BY <1>1, <1>3, <1>5, <2>2
  <2> QED BY <1>1, <1>3, <2>2, <2>3
<1> QED BY <1>1, <1>4, <1>5

(* What one more row does to a settled journal.                            *)
LEMMA RowSettles ==
  ASSUME NEW rows \in Seq(Rows), NEW row \in Rows, Settled(rows),
         row.type \in {"started", "finished", "exhausted"} => Answers(rows) = {},
         row.type = "finished" => row.result # "missing" /\ Passed(Load(rows), row.n)
  PROVE  /\ Settled(Append(rows, row))
         /\ Answers(rows) = {} /\ row.type # "finished" => Answers(Append(rows, row)) = {}
         /\ row.type \in {"budget", "rejected"}
              => \A n \in Ids : Passed(Load(rows), n) => Passed(Load(Append(rows, row)), n)
         /\ row.type = "started" /\ Passed(Load(rows), row.n)
              => Passed(Load(Append(rows, row)), row.n)
<1> DEFINE more == Append(rows, row)
           read == Load(rows)
<1>0. /\ row.n \in Ids /\ row.result \in Results /\ Ids \subseteq Nat
      /\ row.type \in {"budget", "started", "finished", "exhausted", "rejected"}
  BY Bounds DEF Rows
<1>1. read \in Memory /\ Load(more) = ReadRow(read, row)
  BY LoadType, LoadAppend
<1>2. /\ more[Len(rows) + 1] = row /\ Len(rows) + 1 \notin DOMAIN rows
      /\ \A i \in DOMAIN rows : more[i] = rows[i] /\ rows[i] \in Rows
  OBVIOUS
<1>3. SettlesOnce(more)
  BY SettlesAppend DEF Settled
<1>4. \A i \in Answers(rows) :
        i \in DOMAIN rows /\ Answered(read, rows[i].n) /\ rows[i].n \in Ids
  BY <1>2 DEF Settled, Answers, Rows
<1>5. Answers(rows) = {} /\ row.type # "finished" => Answers(more) = {}
  BY <1>0, AnswersAppend
<1> HIDE DEF more, read
<1>6. CASE row.type = "budget"
  <2>1. Load(more) = read
    BY <1>1, <1>6 DEF ReadRow
  <2>2. Answers(more) = Answers(rows)
    BY <1>6, AnswersAppend DEF more
  <2> QED BY <1>2, <1>3, <1>4, <1>5, <1>6, <2>1, <2>2 DEF Settled, more, read
<1>7. CASE row.type = "started"
  <2>1. Passed(read, row.n) => Passed(Load(more), row.n)
    <3>1. /\ ReadRow(read, row).tomb = read.tomb
          /\ ReadRow(read, row).restarted \subseteq read.restarted \cup {row.n}
      BY <1>0, <1>1, <1>7 DEF ReadRow, Memory
    <3> QED BY <1>0, <1>1, <3>1 DEF Passed
  <2> QED BY <1>3, <1>5, <1>7, <2>1 DEF Settled, more, read
<1>8. CASE row.type = "finished"
  <2>1. Answers(more) = {Len(rows) + 1}
    BY <1>8, AnswersAppend DEF more
  <2>2. Answered(ReadRow(read, row), row.n)
    <3>1. Passed(read, row.n) /\ row.result # "missing"
      BY <1>8 DEF read
    <3>2. /\ ReadRow(read, row).tomb = read.tomb \ {row.n}
          /\ ReadRow(read, row).restarted = read.restarted \ {row.n}
          /\ ReadRow(read, row).exhausted = read.exhausted \ {row.n}
          /\ ReadRow(read, row).replay[row.n] = row.result
      BY <1>0, <1>1, <1>8 DEF ReadRow, Memory
    <3>3. Passed(ReadRow(read, row), row.n)
      BY <1>0, <3>1, <3>2 DEF Passed
    <3> QED BY <3>1, <3>2, <3>3 DEF Answered
  <2> QED BY <1>1, <1>2, <1>3, <1>8, <2>1, <2>2 DEF Settled, more, read
<1>9. CASE row.type = "exhausted"
  BY <1>3, <1>5, <1>9 DEF Settled, more
<1>10. CASE row.type = "rejected"
  <2>1. Answers(more) = {i \in Answers(rows) : rows[i].n # row.n}
    BY <1>10, AnswersAppend DEF more
  <2>2. /\ ReadRow(read, row).tomb = read.tomb \cup {row.n}
        /\ ReadRow(read, row).restarted = read.restarted \ {row.n}
        /\ ReadRow(read, row).exhausted \subseteq read.exhausted
        /\ \A n \in Ids \ {row.n} : ReadRow(read, row).replay[n] = read.replay[n]
    BY <1>0, <1>1, <1>10 DEF ReadRow, Memory
  <2>3. \A n \in Ids : Passed(read, n) => Passed(Load(more), n)
    BY <1>0, <1>1, <2>2 DEF Passed
  <2>4. \A n \in Ids \ {row.n} : Answered(read, n) => Answered(Load(more), n)
    BY <1>1, <2>2, <2>3 DEF Answered
  <2> QED BY <1>2, <1>3, <1>4, <1>5, <1>10, <2>1, <2>3, <2>4 DEF Settled, more, read
<1> QED BY <1>0, <1>6, <1>7, <1>8, <1>9, <1>10

-----------------------------------------------------------------------------

(* A step that concerns one keyed call at most.                            *)
Steady(rows, at, n) ==
  Settled(rows) /\ (at \in Working => Answers(rows) = {} /\ Passed(Load(rows), n))

LEMMA SteadySteps ==
  ASSUME SettleInv, NEW s \in Steps,
         \A t \in Steps \ {s} :
           pc'[t] = pc[t] /\ call'[t].n = call[t].n /\ journal'[t] = journal[t],
         s \in Keyed => Steady(journal'[s], pc'[s], call'[s].n)
  PROVE  SettleInv'
<1>1. \A t \in Keyed : t \in Steps /\ Steady(journal[t], pc[t], call[t].n)
  BY CallsAssumption DEF SettleInv, Steady
<1>2. \A t \in Keyed : Steady(journal'[t], pc'[t], call'[t].n)
  BY <1>1
<1> QED BY <1>2 DEF SettleInv, Steady

(* A call that journals nothing and gets no further than it was.           *)
LEMMA MoveSettles ==
  ASSUME BookTypeOK, SettleInv, NEW s \in Steps, NEW to,
         pc' = [pc EXCEPT ![s] = to], to \in Working => pc[s] \in Working,
         journal' = journal, call' = call
  PROVE  SettleInv'
BY DEF SettleInv

(* A call that journals a row.                                             *)
LEMMA RowSteps ==
  ASSUME BookTypeOK, SettleInv, NEW s \in Steps, NEW to, NEW row \in Rows, row.n = call[s].n,
         pc' = [pc EXCEPT ![s] = to],
         journal' = [journal EXCEPT ![s] = Append(@, row)], call' = call,
         to \in Working => pc[s] \in Working /\ row.type \in {"budget", "started", "rejected"},
         row.type \in {"started", "finished", "exhausted"} => pc[s] \in Working,
         row.type = "finished" => row.result # "missing"
  PROVE  SettleInv'
<1>1. journal[s] \in Seq(Rows) /\ call[s].n \in Ids
  BY DEF BookTypeOK
<1>2. /\ pc'[s] = to /\ journal'[s] = Append(journal[s], row)
      /\ \A t \in Steps \ {s} : pc'[t] = pc[t] /\ journal'[t] = journal[t]
  BY DEF BookTypeOK
<1>3. ASSUME s \in Keyed
      PROVE  Steady(Append(journal[s], row), to, call[s].n)
  <2>1. /\ Settled(journal[s])
        /\ pc[s] \in Working => Answers(journal[s]) = {} /\ Passed(Load(journal[s]), row.n)
    BY <1>3 DEF SettleInv
  <2>2. /\ Settled(Append(journal[s], row))
        /\ Answers(journal[s]) = {} /\ row.type # "finished"
             => Answers(Append(journal[s], row)) = {}
        /\ row.type \in {"budget", "rejected"}
             => \A n \in Ids : Passed(Load(journal[s]), n)
                                 => Passed(Load(Append(journal[s], row)), n)
        /\ row.type = "started" /\ Passed(Load(journal[s]), row.n)
             => Passed(Load(Append(journal[s], row)), row.n)
    BY <1>1, <2>1, RowSettles
  <2> QED BY <1>1, <2>1, <2>2 DEF Steady
<1> QED BY <1>2, <1>3, SteadySteps

LEMMA CallSettles ==
  ASSUME BookTypeOK, Remembers(mem, journal), SettleInv, NEW s \in Steps, Call(s)
  PROVE  SettleInv'
<1>1. PICK n \in Ids :
        /\ Takes(s, n)
        /\ call' = [call EXCEPT ![s] = [n |-> n, found |-> Found(mem[s], n), tries |-> 0]]
        /\ \/ pc' = [pc EXCEPT ![s] = "raised"]
           \/ pc' = [pc EXCEPT ![s] = CASE Found(mem[s], n) = "cached" -> "hit"
                                        [] Found(mem[s], n) = "fresh" -> "claim"
                                        [] OTHER -> "adopt"]
  BY DEF Call
<1>2. journal' = journal /\ journal[s] \in Seq(Rows)
  BY DEF Call, BookTypeOK
<1>3. /\ \A t \in Steps \ {s} : pc'[t] = pc[t] /\ call'[t].n = call[t].n
      /\ call'[s].n = n
      /\ pc'[s] = "raised" \/ pc'[s] = "hit" \/ Found(mem[s], n) # "cached"
  BY <1>1 DEF BookTypeOK
<1>4. ASSUME s \in Keyed
      PROVE  Steady(journal[s], pc'[s], n)
  <2> DEFINE m == mem[s]
             read == Load(journal[s])
             rows == journal[s]
  <2>1. /\ m.replay = read.replay /\ m.tomb = read.tomb /\ m.restarted = read.restarted
        /\ m.exhausted \subseteq read.exhausted
    BY DEF Remembers, Agrees
  <2>2. /\ n \in Free(m) /\ \A k \in Free(m) : n <= k
    BY <1>1, <1>4 DEF Takes
  <2>3. Ids \subseteq Nat /\ Settled(rows)
    BY <1>4, Bounds DEF SettleInv
  <2> HIDE DEF m, read, rows
  <2>4. Passed(read, n)
    BY <2>1, <2>2, <2>3 DEF Passed, Free
  <2>5. ASSUME NEW i \in Answers(rows)
        PROVE  Found(m, n) = "cached"
    <3>1. Answered(read, rows[i].n)
      BY <2>3, <2>5 DEF Settled, read, rows
    <3>2. rows[i].n \in Ids
      <4>1. i \in DOMAIN rows /\ rows[i] \in Rows
        BY <1>2, <2>5 DEF rows, Answers
      <4> QED BY <4>1 DEF Rows
    <3>3. rows[i].n \in Free(m) /\ \A k \in Ids : k < rows[i].n => k \notin Free(m)
      BY <2>1, <3>1, <3>2 DEF Answered, Passed, Free
    <3>4. n = rows[i].n
      <4>1. n <= rows[i].n /\ ~(n < rows[i].n)
        BY <2>2, <3>3
      <4> QED BY <1>1, <2>3, <3>2, <4>1
    <3> QED BY <2>1, <3>1, <3>4 DEF Answered, Found
  <2>6. pc'[s] \in Working => Answers(rows) = {}
    BY <1>3, <2>5 DEF Working, m
  <2> QED BY <2>3, <2>4, <2>6 DEF Steady, rows, read
<1> QED BY <1>2, <1>3, <1>4, SteadySteps

LEMMA AdoptAnswerSettles ==
  ASSUME BookTypeOK, SettleInv, NEW s \in Steps, pc[s] \in Working,
         NEW result \in {"answer", "none"}, AdoptAnswer(s, result), call' = call
  PROVE  SettleInv'
<1> DEFINE row == Row("finished", call[s].n, result)
<1>1. row \in Rows /\ row.n = call[s].n /\ row.type = "finished" /\ row.result = result
  BY RowTypes DEF BookTypeOK, Results, Row
<1>2. /\ journal' = [journal EXCEPT ![s] = Append(@, row)]
      /\ pc' = [pc EXCEPT ![s] = "done"]
  BY DEF AdoptAnswer
<1>3. "done" \notin Working
  BY DEF Working
<1> HIDE DEF row
<1> QED BY <1>1, <1>2, <1>3, RowSteps

LEMMA FinishSettles ==
  ASSUME BookTypeOK, SettleInv, NEW s \in Steps, pc[s] = "child",
         \/ Finish(s, "finished", "answer") \/ Finish(s, "exhausted", "none"),
         call' = call
  PROVE  SettleInv'
<1>1. PICK row \in {Row("finished", call[s].n, "answer"), Row("exhausted", call[s].n, "none")} :
        /\ journal' = [journal EXCEPT ![s] = Append(@, row)]
        /\ pc' = [pc EXCEPT ![s] = "done"]
  BY DEF Finish, Journals
<1>2. row \in Rows /\ row.n = call[s].n /\ row.result # "missing"
      /\ row.type \in {"finished", "exhausted"}
  <2>1. call[s].n \in Ids /\ {"none", "answer"} \subseteq Results
    BY DEF BookTypeOK, Results
  <2> QED BY <1>1, <2>1, RowTypes DEF Row
<1>3. "done" \notin Working /\ pc[s] \in Working
  BY DEF Working
<1> QED BY <1>1, <1>2, <1>3, RowSteps

LEMMA ThreadSettles ==
  ASSUME BookTypeOK, ReplayInv, SettleInv, NEW s \in Steps, CallStep(s) \/ ChildTimesOut(s)
  PROVE  SettleInv'
<1>0. call[s].n \in Ids
  BY DEF BookTypeOK
<1>1. CASE Call(s)
  BY <1>1, CallSettles DEF Call, ReplayInv
<1>2. CASE /\ UNCHANGED <<journal, call>>
           /\ \E to \in CallPcs : /\ pc' = [pc EXCEPT ![s] = to]
                                  /\ to \in Working => pc[s] \in Working
  BY <1>2, MoveSettles
<1>3. CASE CacheHit(s) \/ Claim(s) \/ SaveStatus(s) \/ ChildCancelled(s) \/ Backoff(s)
  <2>1. /\ UNCHANGED <<journal, call>>
        /\ \E to \in {"done", "charge", "raised", "admit", "unwound", "launch"} :
             /\ pc' = [pc EXCEPT ![s] = to]
             /\ to \in {"done", "raised", "unwound"} \/ pc[s] \in Working
    BY <1>3 DEF CacheHit, Claim, SaveStatus, ChildCancelled, Backoff, Working
  <2> QED BY <1>2, <2>1 DEF CallPcs, Working
<1>4. CASE Adopt(s)
  <2>1. \/ AdoptAnswer(s, "answer")
        \/ journal' = journal /\ pc' \in {[pc EXCEPT ![s] = to] : to \in {"hit", "claim", "waiting"}}
    BY <1>4 DEF Adopt, NothingToAdopt
  <2>2. pc[s] \in Working /\ call' = call
    BY <1>4 DEF Adopt, Working
  <2>3. CASE AdoptAnswer(s, "answer")
    BY <2>2, <2>3, AdoptAnswerSettles
  <2>4. CASE journal' = journal
             /\ pc' \in {[pc EXCEPT ![s] = to] : to \in {"hit", "claim", "waiting"}}
    BY <1>2, <2>2, <2>4 DEF CallPcs
  <2> QED BY <2>1, <2>3, <2>4
<1>5. CASE WaitEnds(s) \/ WaitTimesOut(s)
  <2>1. \/ AdoptAnswer(s, "answer") \/ AdoptAnswer(s, "none")
        \/ journal' = journal /\ pc' \in {[pc EXCEPT ![s] = to] : to \in {"hit", "claim", "raised"}}
    BY <1>5 DEF WaitEnds, WaitTimesOut, NothingToAdopt
  <2>2. pc[s] \in Working /\ call' = call
    BY <1>5 DEF WaitEnds, WaitTimesOut, Working
  <2>3. CASE AdoptAnswer(s, "answer") \/ AdoptAnswer(s, "none")
    BY <2>2, <2>3, AdoptAnswerSettles
  <2>4. CASE journal' = journal
             /\ pc' \in {[pc EXCEPT ![s] = to] : to \in {"hit", "claim", "raised"}}
    BY <1>2, <2>2, <2>4 DEF CallPcs
  <2> QED BY <2>1, <2>3, <2>4
<1>6. CASE Charge(s)
  <2> DEFINE row == Row("budget", call[s].n, "missing")
  <2>1. row \in Rows /\ row.n = call[s].n /\ row.type = "budget"
    BY <1>0, RowTypes DEF Results
  <2>2. /\ journal' = [journal EXCEPT ![s] = Append(@, row)] /\ call' = call
        /\ pc' = [pc EXCEPT ![s] = "saving"] /\ pc[s] \in Working
    BY <1>6 DEF Charge, Working
  <2> HIDE DEF row
  <2> QED BY <2>1, <2>2, RowSteps
<1>7. CASE Start(s)
  <2> DEFINE row == Row("started", call[s].n, "missing")
  <2>1. row \in Rows /\ row.n = call[s].n /\ row.type = "started"
    BY <1>0, RowTypes DEF Results
  <2>2. pc[s] \in Working /\ call' = call
    BY <1>7 DEF Start, Working
  <2>3. \/ /\ journal' = [journal EXCEPT ![s] = Append(@, row)]
           /\ pc' = [pc EXCEPT ![s] = "launch"]
        \/ journal' = journal /\ pc' = [pc EXCEPT ![s] = "unwound"]
    BY <1>7 DEF Start, Journals
  <2> HIDE DEF row
  <2>4. CASE journal' = [journal EXCEPT ![s] = Append(@, row)] /\ pc' = [pc EXCEPT ![s] = "launch"]
    BY <2>1, <2>2, <2>4, RowSteps
  <2>5. CASE journal' = journal /\ pc' = [pc EXCEPT ![s] = "unwound"]
    BY <1>2, <2>2, <2>5 DEF CallPcs
  <2> QED BY <2>3, <2>4, <2>5
<1>8. CASE Launch(s)
  <2>1. /\ journal' = journal /\ pc[s] \in Working /\ pc'[s] = "child" /\ call'[s].n = call[s].n
        /\ \A t \in Steps \ {s} : pc'[t] = pc[t] /\ call'[t].n = call[t].n
    BY <1>8 DEF Launch, Working, BookTypeOK
  <2> QED BY <2>1, SteadySteps DEF SettleInv, Steady
<1>9. CASE ChildReturns(s) \/ ChildTimesOut(s)
  <2>1. \/ Finish(s, "finished", "answer") \/ Finish(s, "exhausted", "none")
        \/ journal' = journal /\ pc' = [pc EXCEPT ![s] = "backoff"]
    BY <1>9 DEF ChildReturns, ChildTimesOut, FailedAttempt
  <2>2. pc[s] = "child" /\ call' = call
    BY <1>9 DEF ChildReturns, ChildTimesOut
  <2>3. CASE journal' = journal /\ pc' = [pc EXCEPT ![s] = "backoff"]
    BY <1>2, <2>2, <2>3 DEF CallPcs, Working
  <2>4. CASE Finish(s, "finished", "answer") \/ Finish(s, "exhausted", "none")
    BY <2>2, <2>4, FinishSettles
  <2> QED BY <2>1, <2>3, <2>4
<1> QED BY <1>1, <1>3, <1>4, <1>5, <1>6, <1>7, <1>8, <1>9 DEF CallStep

LEMMA RejectsSettle ==
  ASSUME BookTypeOK, SettleInv, NEW s \in Steps, ScriptRejects(s) \/ OperatorRejects(s)
  PROVE  SettleInv'
<1>1. CASE ScriptRejects(s)
  <2> DEFINE row == Row("rejected", call[s].n, "missing")
  <2>1. row \in Rows /\ row.n = call[s].n /\ row.type = "rejected"
    BY RowTypes DEF BookTypeOK, Results
  <2>2. /\ journal' = [journal EXCEPT ![s] = Append(@, row)] /\ call' = call
        /\ pc' = [pc EXCEPT ![s] = "idle"] \/ pc' = [pc EXCEPT ![s] = pc[s]]
    BY <1>1 DEF ScriptRejects, Journals
  <2>3. "idle" \notin Working
    BY DEF Working
  <2> HIDE DEF row
  <2> QED BY <2>1, <2>2, <2>3, RowSteps
<1>2. CASE OperatorRejects(s)
  <2>1. PICK i \in DOMAIN journal[s] :
          journal' = [journal EXCEPT ![s] = Append(@, Row("rejected", journal[s][i].n, "missing"))]
    BY <1>2 DEF OperatorRejects
  <2> DEFINE row == Row("rejected", journal[s][i].n, "missing")
  <2>2. journal[s] \in Seq(Rows) /\ journal[s][i] \in Rows /\ journal[s][i].n \in Ids
    <3>1. journal[s] \in Seq(Rows) /\ journal[s][i] \in Rows
      BY DEF BookTypeOK
    <3> QED BY <3>1 DEF Rows
  <2>3. row \in Rows /\ row.type = "rejected"
    BY <2>2, RowTypes DEF Results
  <2>4. /\ journal'[s] = Append(journal[s], row) /\ UNCHANGED <<pc, call>>
        /\ \A t \in Steps \ {s} : journal'[t] = journal[t]
    BY <1>2, <2>1 DEF OperatorRejects, BookTypeOK
  <2> HIDE DEF row
  <2>5. ASSUME s \in Keyed
        PROVE  Steady(journal'[s], pc[s], call[s].n)
    <3>1. call[s].n \in Ids /\ Steady(journal[s], pc[s], call[s].n)
      BY <2>5 DEF BookTypeOK, SettleInv, Steady
    <3> QED BY <2>2, <2>3, <2>4, <3>1, RowSettles DEF Steady
  <2> QED BY <2>4, <2>5, SteadySteps
<1> QED BY <1>1, <1>2

LEMMA RestSettles ==
  ASSUME BookTypeOK, SettleInv, journal' = journal,
         UNCHANGED <<pc, call>> \/ pc' = [s \in Steps |-> "idle"]
  PROVE  SettleInv'
<1>1. "idle" \notin Working /\ Keyed \subseteq Steps
  BY CallsAssumption DEF Working
<1> QED BY <1>1 DEF SettleInv

LEMMA SupervisorSettles ==
  ASSUME BookTypeOK, SettleInv,
         \/ \E s \in Steps : ChildSteps(s)
         \/ ScriptEnds \/ Signal \/ Crash \/ Resume \/ UNCHANGED vars
  PROVE  SettleInv'
BY RestSettles DEF ChildSteps, ScriptEnds, Signal, Crash, Resume, Gone, Boots, vars

LEMMA EmptySettled == Answers(<<>>) = {} /\ Settled(<<>>)
BY DEF Answers, Settled, SettlesOnce

(* Init and every step establish SettleInv.                                *)
THEOREM SettleInvariant == Spec => []SettleInv
<1>1. Init => SettleInv
  <2> SUFFICES ASSUME Init PROVE SettleInv
    OBVIOUS
  <2>1. \A s \in Keyed : journal[s] = <<>> /\ pc[s] = "idle"
    BY CallsAssumption DEF Init
  <2> QED BY <2>1, EmptySettled DEF SettleInv, Working
<1>2. ASSUME BookTypeOK, ReplayInv, SettleInv, [Next]_vars
      PROVE  SettleInv'
  BY <1>2, ThreadSettles, RejectsSettle, SupervisorSettles DEF Next
<1>3. BudgetInv => BookTypeOK
  BY DEF BudgetInv
<1> QED BY <1>1, <1>2, <1>3, BudgetInvariant, ReplayInvariant, PTL DEF Spec

(* A keyed step with an answer gets another only after a rejection of that *)
(* answer, however many supervisors, rejections and retries there were     *)
(* (agent's choice of a free identity, append_event, _load_replay).        *)
THEOREM KeyedStepsSettleOnce == Spec => []KeyedSettleOnce
<1>1. SettleInv => KeyedSettleOnce
  BY DEF SettleInv, Settled, KeyedSettleOnce
<1> QED BY <1>1, SettleInvariant, PTL

-----------------------------------------------------------------------------
(* A child that succeeded in an earlier life is adopted.  First, what one  *)
(* step does to the runs of a key.                                         *)

(* Runs of a step go on without registering, starting or succeeding; a     *)
(* launch adds one.                                                        *)
Continues(rs, rt, s) ==
  /\ \A i \in DOMAIN rs :
       /\ i \in DOMAIN rt
       /\ rt[i].n = rs[i].n /\ rt[i].life = rs[i].life /\ rt[i].ord = rs[i].ord
       /\ Recorded(rt[i]) <=> Recorded(rs[i])
       /\ rt[i].phase \in Alive \cup {"succeeded"} => rt[i].phase = rs[i].phase
  /\ \A i \in DOMAIN rt \ DOMAIN rs :
       /\ pc[s] = "launch" /\ rt[i].n = call[s].n
       /\ rt[i].life = life /\ rt[i].ord = 0 /\ rt[i].phase = "starting"

LEMMA ContinuesRefl == \A rs, s : Continues(rs, rs, s)
BY DEF Continues

(* One run's phase changes to one that may follow it here.                 *)
LEMMA PhaseContinues ==
  ASSUME NEW rs \in Seq(ChildRuns), NEW rt, DOMAIN rt = DOMAIN rs, NEW s,
         \A i \in DOMAIN rs : \E phase :
           /\ rt[i] = rs[i] \/ rt[i] = [rs[i] EXCEPT !.phase = phase]
           /\ phase \in Unrecorded <=> rs[i].phase \in Unrecorded
           /\ phase \in Alive \cup {"succeeded"} => phase = rs[i].phase
  PROVE  Continues(rs, rt, s)
<1>1. ASSUME NEW i \in DOMAIN rs
      PROVE  /\ rt[i].n = rs[i].n /\ rt[i].life = rs[i].life /\ rt[i].ord = rs[i].ord
             /\ Recorded(rt[i]) <=> Recorded(rs[i])
             /\ rt[i].phase \in Alive \cup {"succeeded"} => rt[i].phase = rs[i].phase
  <2>1. PICK phase :
          /\ rt[i] = rs[i] \/ rt[i] = [rs[i] EXCEPT !.phase = phase]
          /\ phase \in Unrecorded <=> rs[i].phase \in Unrecorded
          /\ phase \in Alive \cup {"succeeded"} => phase = rs[i].phase
    OBVIOUS
  <2>2. rs[i] \in ChildRuns
    OBVIOUS
  <2> DEFINE r == [rs[i] EXCEPT !.phase = phase]
  <2>3. r.phase = phase /\ r.n = rs[i].n /\ r.life = rs[i].life /\ r.ord = rs[i].ord
    BY <2>2 DEF ChildRuns
  <2> QED BY <2>1, <2>3 DEF Recorded
<1> QED BY <1>1 DEF Continues

LEMMA CancelContinues ==
  ASSUME NEW rs \in Seq(ChildRuns), NEW K, NEW quiet \in BOOLEAN, NEW s
  PROVE  Continues(rs, CancelRuns(rs, K, quiet), s)
<1> DEFINE rt == CancelRuns(rs, K, quiet)
<1>1. DOMAIN rt = DOMAIN rs
  BY DEF CancelRuns
<1>2. ASSUME NEW i \in DOMAIN rs
      PROVE  \E phase :
               /\ rt[i] = rs[i] \/ rt[i] = [rs[i] EXCEPT !.phase = phase]
               /\ phase \in Unrecorded <=> rs[i].phase \in Unrecorded
               /\ phase \in Alive \cup {"succeeded"} => phase = rs[i].phase
  <2> DEFINE after == AfterCancel(rs[i].phase, quiet)
  <2>1. rt[i] = rs[i] \/ rt[i] = [rs[i] EXCEPT !.phase = after]
    BY DEF CancelRuns
  <2>2. /\ after \in Unrecorded <=> rs[i].phase \in Unrecorded
        /\ after \in Alive \cup {"succeeded"} => after = rs[i].phase
    BY DEF AfterCancel, Unrecorded, Alive
  <2> QED BY <2>1, <2>2
<1> HIDE DEF rt
<1> QED BY <1>1, <1>2, PhaseContinues DEF rt

LEMMA KillContinues ==
  ASSUME NEW rs \in Seq(ChildRuns), NEW j \in Nat, NEW after \in AfterKill(rs[j].phase), NEW s
  PROVE  Continues(rs, [rs EXCEPT ![j].phase = after], s)
<1> DEFINE rt == [rs EXCEPT ![j].phase = after]
<1>1. DOMAIN rt = DOMAIN rs
  OBVIOUS
<1>2. /\ after \in Unrecorded <=> rs[j].phase \in Unrecorded
      /\ after \in Alive \cup {"succeeded"} => after = rs[j].phase
  BY DEF AfterKill, Unrecorded, Alive
<1>3. ASSUME NEW i \in DOMAIN rs
      PROVE  \E phase :
               /\ rt[i] = rs[i] \/ rt[i] = [rs[i] EXCEPT !.phase = phase]
               /\ phase \in Unrecorded <=> rs[i].phase \in Unrecorded
               /\ phase \in Alive \cup {"succeeded"} => phase = rs[i].phase
  <2>1. CASE i = j
    <3>1. rt[i] = [rs[i] EXCEPT !.phase = after]
      BY <2>1
    <3> QED BY <1>2, <2>1, <3>1
  <2>2. CASE i # j
    <3>1. rt[i] = rs[i]
      BY <2>2
    <3> QED BY <3>1
  <2> QED BY <2>1, <2>2
<1> HIDE DEF rt
<1> QED BY <1>1, <1>3, PhaseContinues DEF rt

LEMMA ContinuesTwice ==
  ASSUME NEW rs, NEW rt, NEW ru, NEW s, Continues(rs, rt, s), Continues(rt, ru, s),
         DOMAIN rt = DOMAIN rs, DOMAIN ru = DOMAIN rt
  PROVE  Continues(rs, ru, s)
BY DEF Continues

(* What every step but a child's own does to the runs of every key.        *)
LEMMA LaunchContinues ==
  ASSUME BookTypeOK, NEW s \in Steps, Launch(s)
  PROVE  Continues(runs[s], runs'[s], s)
<1> DEFINE r == [n |-> call[s].n, life |-> life, phase |-> "starting", ord |-> 0]
<1>1. runs[s] \in Seq(ChildRuns) /\ runs \in [Steps -> Seq(ChildRuns)]
  BY DEF BookTypeOK
<1>2. pc[s] = "launch" /\ runs' = [runs EXCEPT ![s] = Append(@, r)]
  BY DEF Launch
<1>3. r.n = call[s].n /\ r.life = life /\ r.ord = 0 /\ r.phase = "starting"
  OBVIOUS
<1>4. r \in ChildRuns
  BY DEF BookTypeOK, ChildRuns, Phases
<1> HIDE DEF r
<1>5. runs'[s] = Append(runs[s], r)
  BY <1>1, <1>2
<1>6. /\ \A i \in DOMAIN runs[s] : i \in DOMAIN runs'[s] /\ runs'[s][i] = runs[s][i]
      /\ \A i \in DOMAIN runs'[s] \ DOMAIN runs[s] : runs'[s][i] = r
  BY <1>1, <1>4, <1>5
<1> QED BY <1>2, <1>3, <1>6 DEF Continues

LEMMA ThreadContinues ==
  ASSUME BudgetInv, NEW s \in Steps, CallStep(s) \/ ChildTimesOut(s)
  PROVE  \A t \in Steps : Continues(runs[t], runs'[t], t)
<1> DEFINE rs == runs[s]
           n == call[s].n
<1>0. /\ BookTypeOK /\ runs \in [Steps -> Seq(ChildRuns)] /\ rs \in Seq(ChildRuns)
      /\ Child(s) \in Nat
  BY DEF BudgetInv, BookTypeOK, Child
<1>1. ASSUME NEW rt, runs' = [runs EXCEPT ![s] = rt], Continues(rs, rt, s)
      PROVE  \A t \in Steps : Continues(runs[t], runs'[t], t)
  BY <1>0, <1>1, ContinuesRefl
<1>2. ASSUME NEW K, NEW quiet \in BOOLEAN, runs' = [runs EXCEPT ![s] = CancelRuns(rs, K, quiet)]
      PROVE  \A t \in Steps : Continues(runs[t], runs'[t], t)
  <2>1. Continues(rs, CancelRuns(rs, K, quiet), s)
    BY <1>0, CancelContinues
  <2> QED BY <1>1, <1>2, <2>1
<1>3. CASE runs' = runs
  BY <1>3, ContinuesRefl
<1>4. CASE Call(s)
  <2>1. PICK quiet \in BOOLEAN : \E K : runs' = [runs EXCEPT ![s] = CancelRuns(rs, K, quiet)]
    BY <1>4 DEF Call
  <2> QED BY <1>2, <2>1
<1>5. CASE Adopt(s)
  <2>1. [runs EXCEPT ![s] = rs] = runs
    BY <1>0
  <2>2. \E quiet \in BOOLEAN :
          \/ runs' = runs \/ runs' = [runs EXCEPT ![s] = rs]
          \/ runs' = [runs EXCEPT ![s] = CancelRuns(rs, {n}, quiet)]
    BY <1>5, ZenonT(60) DEF Adopt, AdoptAnswer
  <2> QED BY <1>2, <1>3, <2>1, <2>2
<1>6. CASE WaitTimesOut(s)
  <2>1. \E quiet \in BOOLEAN : runs' = [runs EXCEPT ![s] = CancelRuns(rs, {n}, quiet)]
    BY <1>6 DEF WaitTimesOut
  <2> QED BY <1>2, <2>1
<1>7. CASE Launch(s)
  <2>1. \A t \in Steps \ {s} : runs'[t] = runs[t]
    BY <1>0, <1>7 DEF Launch
  <2> QED BY <1>0, <1>7, <2>1, LaunchContinues, ContinuesRefl
<1>8. CASE ChildTimesOut(s)
  <2>1. PICK after \in AfterKill(rs[Child(s)].phase), quiet \in BOOLEAN :
          runs' = [runs EXCEPT ![s] =
                     CancelRuns([rs EXCEPT ![Child(s)].phase = after], {n}, quiet)]
    BY <1>8 DEF ChildTimesOut, Phase
  <2> DEFINE killed == [rs EXCEPT ![Child(s)].phase = after]
             rt == CancelRuns(killed, {n}, quiet)
  <2>2. Continues(rs, killed, s) /\ SameKeys(rs, killed)
    <3>1. Continues(rs, killed, s)
      BY <1>0, KillContinues
    <3>2. SameKeys(rs, killed)
      BY <1>0, KillKeepsKeys
    <3> QED BY <3>1, <3>2
  <2>3. killed \in Seq(ChildRuns) /\ DOMAIN killed = DOMAIN rs
    BY <2>2 DEF SameKeys
  <2> HIDE DEF killed
  <2>4. Continues(killed, rt, s) /\ DOMAIN rt = DOMAIN killed
    BY <2>3, CancelContinues DEF CancelRuns
  <2>5. Continues(rs, rt, s)
    BY <2>2, <2>3, <2>4, ContinuesTwice
  <2> QED BY <1>1, <2>1, <2>5 DEF killed
<1>9. CASE ChildCancelled(s)
  <2>1. PICK after \in AfterKill(rs[Child(s)].phase) :
          runs' = [runs EXCEPT ![s] = [rs EXCEPT ![Child(s)].phase = after]]
    BY <1>9 DEF ChildCancelled, Phase
  <2>2. Continues(rs, [rs EXCEPT ![Child(s)].phase = after], s)
    BY <1>0, KillContinues
  <2> QED BY <1>1, <2>1, <2>2
<1> QED BY <1>3, <1>4, <1>5, <1>6, <1>7, <1>8, <1>9
    DEF CallStep, CacheHit, WaitEnds, Claim, Charge, SaveStatus, Start, ChildReturns, Backoff

LEMMA SupervisorContinues ==
  ASSUME BookTypeOK,
         \/ \E s \in Steps : ScriptRejects(s) \/ OperatorRejects(s)
         \/ ScriptEnds \/ Signal \/ Crash \/ Resume \/ UNCHANGED vars
  PROVE  \A t \in Steps : Continues(runs[t], runs'[t], t)
<1>1. \/ runs' = runs
      \/ \E quiet \in BOOLEAN : runs' = [t \in Steps |-> CancelRuns(runs[t], Ids, quiet)]
  BY DEF ScriptRejects, OperatorRejects, ScriptEnds, Signal, Crash, Resume, vars
<1>2. \A t \in Steps : runs[t] \in Seq(ChildRuns)
  BY DEF BookTypeOK
<1> QED BY <1>1, <1>2, CancelContinues, ContinuesRefl

-----------------------------------------------------------------------------
(* Runs keep their numbers, and only this life's are at work.              *)

LEMMA RegisteredAre ==
  ASSUME NEW rs \in Seq(ChildRuns)
  PROVE  LET registered == {i \in DOMAIN rs : rs[i].ord # 0}
         IN IsFiniteSet(registered) /\ Cardinality(registered) \in Nat
<1>1. IsFiniteSet(1 .. Len(rs)) /\ DOMAIN rs = 1 .. Len(rs)
  BY FS_Interval
<1>2. {i \in DOMAIN rs : rs[i].ord # 0} \subseteq 1 .. Len(rs)
  BY <1>1
<1> QED BY <1>1, <1>2, FS_Subset, FS_CardinalityType

LEMMA NumberedContinues ==
  ASSUME NEW rs \in Seq(ChildRuns), NEW rt \in Seq(ChildRuns), NEW s, Continues(rs, rt, s), Numbered(rs)
  PROVE  Numbered(rt)
<1>1. {i \in DOMAIN rt : rt[i].ord # 0} = {i \in DOMAIN rs : rs[i].ord # 0}
  BY DEF Continues
<1>2. \A i \in DOMAIN rt : Recorded(rt[i]) => i \in DOMAIN rs /\ Recorded(rs[i])
  BY DEF Continues, Recorded, Unrecorded
<1>3. \A i \in DOMAIN rt : rt[i].phase = "starting" => rt[i].ord = 0
  BY DEF Continues, Numbered, Alive
<1>4. \A i \in DOMAIN rs : rt[i].ord = rs[i].ord
  BY DEF Continues
<1> QED BY <1>1, <1>2, <1>3, <1>4 DEF Numbered

(* A child's own step.                                                     *)
LEMMA ChildSteps1 ==
  ASSUME BookTypeOK, NEW s \in Steps, ChildSteps(s)
  PROVE  LET rs == runs[s] IN
         \E i \in DOMAIN rs, r \in ChildRuns :
           /\ runs' = [runs EXCEPT ![s] = [rs EXCEPT ![i] = r]]
           /\ r.n = rs[i].n /\ r.life = rs[i].life /\ r.phase \in NextPhases(rs[i].phase)
           /\ r.ord = IF r.phase = "registered"
                      THEN Cardinality({j \in DOMAIN rs : rs[j].ord # 0}) + 1
                      ELSE rs[i].ord
<1> DEFINE rs == runs[s]
           fresh == Cardinality({j \in DOMAIN rs : rs[j].ord # 0}) + 1
<1>0. runs \in [Steps -> Seq(ChildRuns)] /\ rs \in Seq(ChildRuns)
  BY DEF BookTypeOK
<1>1. PICK i \in DOMAIN rs : \E phase \in NextPhases(rs[i].phase) :
        runs' = [runs EXCEPT ![s][i].phase = phase,
                             ![s][i].ord = IF phase = "registered" THEN fresh ELSE rs[i].ord]
  BY DEF ChildSteps
<1>2. PICK phase \in NextPhases(rs[i].phase) :
        runs' = [runs EXCEPT ![s][i].phase = phase,
                             ![s][i].ord = IF phase = "registered" THEN fresh ELSE rs[i].ord]
  BY <1>1
<1> DEFINE ord == IF phase = "registered" THEN fresh ELSE rs[i].ord
           r == [[rs[i] EXCEPT !.phase = phase] EXCEPT !.ord = ord]
<1>3. rs[i] \in ChildRuns
  BY <1>0
<1>4. fresh \in Nat
  <2>1. Cardinality({j \in DOMAIN rs : rs[j].ord # 0}) \in Nat
    BY <1>0, RegisteredAre, Zenon
  <2> QED BY <2>1
<1> HIDE DEF fresh
<1>5. ord \in Nat /\ phase \in Phases
  BY <1>3, <1>4 DEF ChildRuns, NextPhases, Phases
<1>6. r \in ChildRuns /\ r.n = rs[i].n /\ r.life = rs[i].life /\ r.phase = phase /\ r.ord = ord
  BY <1>3, <1>5 DEF ChildRuns
<1>7. runs' = [runs EXCEPT ![s] = [rs EXCEPT ![i] = r]]
  BY <1>0, <1>2
<1>8. r.phase \in NextPhases(rs[i].phase)
      /\ r.ord = IF r.phase = "registered" THEN fresh ELSE rs[i].ord
  BY <1>6
<1> HIDE DEF r
<1> QED BY <1>6, <1>7, <1>8 DEF fresh

LEMMA NumberedRegisters ==
  ASSUME NEW rs \in Seq(ChildRuns), Numbered(rs), NEW i \in DOMAIN rs, NEW r \in ChildRuns,
         r.phase \in NextPhases(rs[i].phase),
         r.ord = IF r.phase = "registered"
                 THEN Cardinality({j \in DOMAIN rs : rs[j].ord # 0}) + 1 ELSE rs[i].ord
  PROVE  Numbered([rs EXCEPT ![i] = r])
<1> DEFINE rt == [rs EXCEPT ![i] = r]
           old == {j \in DOMAIN rs : rs[j].ord # 0}
           new == {j \in DOMAIN rt : rt[j].ord # 0}
<1>1. DOMAIN rt = DOMAIN rs /\ rt[i] = r /\ \A j \in DOMAIN rs \ {i} : rt[j] = rs[j]
  OBVIOUS
<1>2. IsFiniteSet(old) /\ Cardinality(old) \in Nat
  BY RegisteredAre
<1>3. r.phase # "starting"
  BY DEF NextPhases
<1>4. CASE r.phase = "registered"
  <2>1. rs[i].phase = "starting"
    BY <1>4 DEF NextPhases
  <2>2. rs[i].ord = 0 /\ r.ord = Cardinality(old) + 1
    BY <1>4, <2>1 DEF Numbered
  <2>3. i \notin old /\ new = old \cup {i}
    BY <1>1, <1>2, <2>2
  <2>4. Cardinality(new) = Cardinality(old) + 1
    BY <1>2, <2>3, FS_AddElement
  <2>5. \A j \in DOMAIN rs \ {i} : Recorded(rs[j]) => rs[j].ord \in 1 .. Cardinality(old)
    BY DEF Numbered
  <2> HIDE DEF rt, old, new
  <2>6. \A j \in DOMAIN rt : rt[j].phase = "starting" => rt[j].ord = 0
    BY <1>1, <1>3 DEF Numbered
  <2>7. \A j \in DOMAIN rt : Recorded(rt[j]) =>
           /\ rt[j].ord \in 1 .. Cardinality(new)
           /\ rt[j].ord = Cardinality(new) => j = i
    BY <1>1, <1>2, <2>2, <2>4, <2>5
  <2>8. \A j, k \in DOMAIN rt : Recorded(rt[j]) /\ Recorded(rt[k]) /\ rt[k].ord = rt[j].ord => j = k
    <3> SUFFICES ASSUME NEW j \in DOMAIN rt, NEW k \in DOMAIN rt, Recorded(rt[j]),
                        Recorded(rt[k]), rt[k].ord = rt[j].ord
                 PROVE  j = k
      OBVIOUS
    <3>1. CASE j = i \/ k = i
      <4>1. rt[i].ord = Cardinality(new)
        BY <1>1, <2>2, <2>4
      <4> QED BY <2>7, <3>1, <4>1
    <3>2. CASE j # i /\ k # i
      BY <1>1, <3>2 DEF Numbered
    <3> QED BY <3>1, <3>2
  <2> QED BY <2>6, <2>7, <2>8 DEF Numbered, new, rt
<1>5. CASE r.phase # "registered"
  <2>1. r.ord = rs[i].ord /\ (Recorded(r) => Recorded(rs[i]))
    BY <1>5 DEF NextPhases, Recorded, Unrecorded
  <2>2. new = old
    BY <1>1, <2>1
  <2>3. \A j \in DOMAIN rs : rt[j].ord = rs[j].ord /\ (Recorded(rt[j]) => Recorded(rs[j]))
    BY <1>1, <2>1
  <2>4. \A j \in DOMAIN rs : rt[j].phase = "starting" => rs[j].phase = "starting"
    BY <1>1, <1>3
  <2>5. \A j \in DOMAIN rs :
          /\ rs[j].phase = "starting" => rs[j].ord = 0
          /\ Recorded(rs[j]) =>
               /\ rs[j].ord \in 1 .. Cardinality(old)
               /\ \A k \in DOMAIN rs : Recorded(rs[k]) /\ rs[k].ord = rs[j].ord => j = k
    BY DEF Numbered
  <2> HIDE DEF rt, old, new
  <2>6. \A j \in DOMAIN rt : rt[j].phase = "starting" => rt[j].ord = 0
    BY <1>1, <2>3, <2>4, <2>5
  <2>7. \A j \in DOMAIN rt : Recorded(rt[j]) =>
          /\ rt[j].ord \in 1 .. Cardinality(new)
          /\ \A k \in DOMAIN rt : Recorded(rt[k]) /\ rt[k].ord = rt[j].ord => j = k
    BY <1>1, <2>2, <2>3, <2>5
  <2> QED BY <2>6, <2>7 DEF Numbered, new, rt
<1> QED BY <1>4, <1>5

LEMMA ContinuesAges ==
  ASSUME BookTypeOK, BookTypeOK', AgeInv, life' \in {life, life + 1},
         \A t \in Steps : Continues(runs[t], runs'[t], t),
         sup' = "up" => \/ sup = "up" /\ life' = life
                        \/ \A t \in Steps : NoneAlive(runs'[t])
  PROVE  AgeInv'
<1> SUFFICES ASSUME NEW t \in Steps
             PROVE  /\ Numbered(runs'[t])
                    /\ \A i \in DOMAIN runs'[t] :
                         /\ runs'[t][i].life <= life'
                         /\ sup' = "up" /\ runs'[t][i].life < life' => runs'[t][i].phase \notin Alive
  BY DEF AgeInv
<1>0. life \in Nat /\ life' \in Nat /\ life <= life' /\ runs[t] \in Seq(ChildRuns) /\ runs'[t] \in Seq(ChildRuns)
  BY DEF BookTypeOK
<1>1. Numbered(runs'[t])
  BY <1>0, NumberedContinues DEF AgeInv
<1>2. ASSUME NEW i \in DOMAIN runs'[t]
      PROVE  /\ runs'[t][i].life <= life'
             /\ sup' = "up" /\ runs'[t][i].life < life' => runs'[t][i].phase \notin Alive
  <2>1. CASE i \in DOMAIN runs[t]
    <3>1. /\ runs'[t][i].life = runs[t][i].life
          /\ runs'[t][i].phase \in Alive => runs'[t][i].phase = runs[t][i].phase
      BY <2>1 DEF Continues
    <3>2. runs[t][i] \in ChildRuns
      BY <1>0, <2>1
    <3>3. runs[t][i].life <= life /\ runs[t][i].life \in Nat
      BY <2>1, <3>2 DEF AgeInv, ChildRuns
    <3> QED BY <1>0, <2>1, <3>1, <3>3 DEF AgeInv, NoneAlive
  <2>2. CASE i \notin DOMAIN runs[t]
    <3>1. runs'[t][i].life = life
      BY <2>2 DEF Continues
    <3> QED BY <1>0, <3>1 DEF NoneAlive
  <2> QED BY <2>1, <2>2
<1> QED BY <1>1, <1>2

LEMMA ChildStepsAges ==
  ASSUME BookTypeOK, AgeInv, NEW s \in Steps, ChildSteps(s)
  PROVE  AgeInv'
<1>1. PICK i \in DOMAIN runs[s], r \in ChildRuns :
           /\ runs' = [runs EXCEPT ![s] = [runs[s] EXCEPT ![i] = r]]
           /\ r.n = runs[s][i].n /\ r.life = runs[s][i].life
           /\ r.phase \in NextPhases(runs[s][i].phase)
           /\ r.ord = IF r.phase = "registered"
                      THEN Cardinality({j \in DOMAIN runs[s] : runs[s][j].ord # 0}) + 1
                      ELSE runs[s][i].ord
  BY ChildSteps1
<1>2. runs \in [Steps -> Seq(ChildRuns)] /\ runs[s] \in Seq(ChildRuns) /\ Numbered(runs[s])
  BY DEF BookTypeOK, AgeInv
<1>3. UNCHANGED <<sup, life>> /\ runs[s][i].phase \in Alive
  BY <1>1 DEF ChildSteps, NextPhases, Alive
<1>4. /\ \A t \in Steps \ {s} : runs'[t] = runs[t]
      /\ runs'[s] = [runs[s] EXCEPT ![i] = r] /\ runs'[s][i] = r
      /\ DOMAIN runs'[s] = DOMAIN runs[s]
      /\ \A j \in DOMAIN runs[s] \ {i} : runs'[s][j] = runs[s][j]
  BY <1>1, <1>2
<1>5. Numbered(runs'[s])
  BY <1>1, <1>2, <1>4, NumberedRegisters
<1>6. \A j \in DOMAIN runs'[s] :
        /\ runs'[s][j].life <= life
        /\ sup = "up" /\ runs'[s][j].life < life => runs'[s][j].phase \notin Alive
  BY <1>1, <1>3, <1>4 DEF AgeInv
<1> QED BY <1>3, <1>4, <1>5, <1>6 DEF AgeInv

LEMMA AgeInvariant ==
  ASSUME ~LateChildren
  PROVE  Spec => []AgeInv
<1>1. Init => AgeInv
  BY DEF Init, AgeInv, Numbered
<1>2. ASSUME BudgetInv, BudgetInv', ChildInv', AgeInv, [Next]_vars
      PROVE  AgeInv'
  <2>0. BookTypeOK /\ BookTypeOK' /\ life \in Nat
    BY <1>2 DEF BudgetInv, BookTypeOK
  <2>1. CASE \E s \in Steps : CallStep(s) \/ ChildTimesOut(s)
    <3>1. UNCHANGED <<sup, life>> /\ sup = "up"
      BY <2>1 DEF CallStep, Call, CacheHit, Adopt, WaitEnds, WaitTimesOut, Claim, Charge,
         SaveStatus, Start, Launch, ChildReturns, ChildTimesOut, ChildCancelled, Backoff
    <3>2. \A t \in Steps : Continues(runs[t], runs'[t], t)
      BY <1>2, <2>1, ThreadContinues
    <3> QED BY <1>2, <2>0, <3>1, <3>2, ContinuesAges
  <2>2. CASE \E s \in Steps : ChildSteps(s)
    BY <1>2, <2>0, <2>2, ChildStepsAges
  <2>3. CASE \/ \E s \in Steps : ScriptRejects(s) \/ OperatorRejects(s)
             \/ ScriptEnds \/ Signal \/ Crash \/ Resume \/ UNCHANGED vars
    <3>1. \A t \in Steps : Continues(runs[t], runs'[t], t)
      BY <2>0, <2>3, SupervisorContinues
    <3>2. \/ UNCHANGED <<sup, life>>
          \/ life' = life /\ sup' # "up"
          \/ life' = life + 1 /\ pc' = [s \in Steps |-> "idle"]
      <4>1. CASE \/ \E s \in Steps : ScriptRejects(s) \/ OperatorRejects(s)
                 \/ Signal \/ UNCHANGED vars
        BY <4>1 DEF ScriptRejects, OperatorRejects, Signal, vars
      <4>2. CASE ScriptEnds \/ Crash
        BY <4>2 DEF ScriptEnds, Crash, Gone
      <4>3. CASE Resume
        BY <4>3 DEF Resume, Boots
      <4> QED BY <2>3, <4>1, <4>2, <4>3
    <3>3. sup' = "up" /\ pc' = [s \in Steps |-> "idle"] => \A t \in Steps : NoneAlive(runs'[t])
      BY <1>2 DEF ChildInv, NoneAlive
    <3> QED BY <1>2, <2>0, <3>1, <3>2, <3>3, ContinuesAges
  <2> QED BY <1>2, <2>1, <2>2, <2>3 DEF Next
<1> QED BY <1>1, <1>2, BudgetInvariant, ChildInvariant, PTL DEF Spec

-----------------------------------------------------------------------------
(* What a row does to the scopes.                                          *)

LEMMA RowKeeps ==
  ASSUME NEW read \in Memory, NEW row \in Rows, Kept(read),
         row.type \in {"finished", "exhausted"} => row.result # "missing"
  PROVE  Kept(ReadRow(read, row))
<1>0. row.n \in Ids /\ row.result \in Results
      /\ row.type \in {"budget", "started", "finished", "exhausted", "rejected"}
  BY DEF Rows
<1>1. CASE row.type = "started"
  BY <1>0, <1>1 DEF ReadRow, Kept, Memory
<1> DEFINE r == ReadRow(read, row)
<1>2. CASE row.type \in {"finished", "exhausted"}
  <2>1. /\ r.scoped = read.scoped /\ r.started = read.started \ {row.n}
        /\ r.tomb = read.tomb \ {row.n} /\ r.restarted = read.restarted \ {row.n}
        /\ r.replay = [read.replay EXCEPT ![row.n] = row.result]
    BY <1>0, <1>2 DEF ReadRow, Memory
  <2>2. \A k \in Ids : r.replay[k] = IF k = row.n THEN row.result ELSE read.replay[k]
    BY <1>0, <2>1 DEF Memory
  <2>3. read.scoped \subseteq Ids
    BY DEF Memory
  <2> HIDE DEF r
  <2> QED BY <1>2, <2>1, <2>2, <2>3 DEF Kept, r
<1>3. CASE row.type = "rejected" /\ read.replay[row.n] = "missing"
  BY <1>0, <1>3 DEF ReadRow, Kept, Memory
<1>4. CASE row.type = "rejected" /\ read.replay[row.n] # "missing"
  <2>1. /\ r.scoped = read.scoped /\ r.started = read.started \ {row.n}
        /\ r.tomb = read.tomb \cup {row.n} /\ r.restarted = read.restarted \ {row.n}
        /\ r.replay = [read.replay EXCEPT ![row.n] = "missing"]
    BY <1>0, <1>4 DEF ReadRow, Memory
  <2>2. \A k \in Ids : k # row.n => r.replay[k] = read.replay[k]
    BY <1>0, <2>1 DEF Memory
  <2>3. read.scoped \subseteq Ids
    BY DEF Memory
  <2> HIDE DEF r
  <2> QED BY <2>1, <2>2, <2>3 DEF Kept, r
<1>5. CASE row.type = "budget"
  BY <1>5 DEF ReadRow
<1> QED BY <1>0, <1>1, <1>2, <1>3, <1>4, <1>5

(* The identities that a keyed call passes by.                             *)
Refused(m) == m.tomb \ m.restarted

LEMMA RowRefuses ==
  ASSUME NEW read \in Memory, NEW row \in Rows
  PROVE  /\ ReadRow(read, row).scoped =
              IF row.type = "started" THEN read.scoped \cup {row.n} ELSE read.scoped
         /\ Refused(ReadRow(read, row)) =
              CASE row.type = "rejected" -> Refused(read) \cup {row.n}
                [] row.type = "budget" -> Refused(read)
                [] OTHER -> Refused(read) \ {row.n}
<1>0. row.n \in Ids /\ row.type \in {"budget", "started", "finished", "exhausted", "rejected"}
  BY DEF Rows
<1>1. CASE row.type = "started"
  BY <1>0, <1>1 DEF ReadRow, Refused, Memory
<1>2. CASE row.type = "finished"
  BY <1>0, <1>2 DEF ReadRow, Refused, Memory
<1>3. CASE row.type = "exhausted"
  BY <1>0, <1>3 DEF ReadRow, Refused, Memory
<1>4. CASE row.type = "rejected"
  BY <1>0, <1>4 DEF ReadRow, Refused, Memory
<1>5. CASE row.type = "budget"
  BY <1>5 DEF ReadRow
<1> QED BY <1>0, <1>1, <1>2, <1>3, <1>4, <1>5

LEMMA RowPasses ==
  ASSUME NEW read \in Memory, NEW row \in Rows, NEW k \in Ids, Passed(read, k),
         row.type \in {"rejected", "budget"} \/ k <= row.n
  PROVE  Passed(ReadRow(read, row), k)
<1>0. row.n \in Ids /\ Ids \subseteq Nat
  BY Bounds DEF Rows
<1>1. \A j \in Ids : j < k => j \in Refused(read)
  BY DEF Passed, Refused
<1>2. ASSUME NEW j \in Ids, j < k PROVE j \in Refused(ReadRow(read, row))
  <2>1. row.type \in {"rejected", "budget"} \/ j # row.n
    BY <1>0, <1>2
  <2> QED BY <1>1, <1>2, <2>1, RowRefuses
<1> QED BY <1>2 DEF Passed, Refused

(* What memory has swept of the started keys is still refused.             *)
LEMMA RowSweeps ==
  ASSUME NEW m \in Memory, NEW read \in Memory, NEW row \in Rows, Agrees(m, read),
         read.started \ m.started \subseteq Refused(read)
  PROVE  LET r == ReadRow(read, row) IN r.started \ Live(m, row).started \subseteq Refused(r)
<1>0. row.n \in Ids /\ row.type \in {"budget", "started", "finished", "exhausted", "rejected"}
  BY DEF Rows
<1> DEFINE r == ReadRow(read, row)
           l == Live(m, row)
<1>1. CASE row.type = "started"
  <2>1. r.started = read.started \cup {row.n} /\ l.started = m.started \cup {row.n}
    BY <1>1 DEF ReadRow, Live, Memory
  <2>2. Refused(r) = Refused(read) \ {row.n}
    BY <1>1, RowRefuses
  <2> QED BY <2>1, <2>2
<1>2. CASE row.type \in {"finished", "exhausted"}
  <2>1. r.started = read.started \ {row.n} /\ l.started = m.started \ {row.n}
    BY <1>0, <1>2 DEF ReadRow, Live, Memory
  <2>2. Refused(r) = Refused(read) \ {row.n}
    BY <1>2, RowRefuses
  <2> QED BY <2>1, <2>2
<1>3. CASE row.type = "rejected"
  <2>1. m.replay[row.n] = read.replay[row.n]
    BY DEF Agrees
  <2>2. \/ r.started = read.started \ {row.n} /\ l.started = m.started \ {row.n}
        \/ r.started = read.started /\ l.started = m.started
    BY <1>0, <1>3, <2>1 DEF ReadRow, Live, Memory
  <2>3. Refused(r) = Refused(read) \cup {row.n}
    BY <1>3, RowRefuses
  <2> QED BY <2>2, <2>3
<1>4. CASE row.type = "budget"
  BY <1>4 DEF ReadRow, Live
<1> QED BY <1>0, <1>1, <1>2, <1>3, <1>4

-----------------------------------------------------------------------------
(* The scopes, step by step.                                               *)

LEMMA RunsScoped ==
  ASSUME NEW rs, NEW rt, NEW s, Continues(rs, rt, s), NEW K,
         \A i \in DOMAIN rs : rs[i].n \in K, pc[s] = "launch" => call[s].n \in K
  PROVE  \A i \in DOMAIN rt : rt[i].n \in K
BY DEF Continues

LEMMA ScopeSteps ==
  ASSUME ScopeInv, NEW s \in Steps, sup' = sup, life' = life,
         \A t \in Steps \ {s} : /\ Continues(runs[t], runs'[t], t)
                                /\ pc'[t] = pc[t] /\ call'[t].n = call[t].n
                                /\ journal'[t] = journal[t] /\ mem'[t] = mem[t],
         Scope(s, Load(journal'[s]), mem'[s], pc'[s], call'[s].n, runs'[s])
  PROVE  ScopeInv'
<1>1. ASSUME NEW t \in Steps
      PROVE  Scope(t, Load(journal'[t]), mem'[t], pc'[t], call'[t].n, runs'[t])
  <2>1. CASE t = s
    BY <2>1
  <2>2. CASE t # s
    <3>1. Scope(t, Load(journal[t]), mem[t], pc[t], call[t].n, runs[t])
      BY DEF ScopeInv
    <3>2. \A i \in DOMAIN runs'[t] : runs'[t][i].n \in Load(journal[t]).scoped
      BY <2>2, <3>1, RunsScoped DEF Scope
    <3> QED BY <2>2, <3>1, <3>2 DEF Scope
  <2> QED BY <2>1, <2>2
<1> QED BY <1>1 DEF ScopeInv, Scope, KeyedScope, LifeScope

(* A call that journals nothing and gets no further than it was.           *)
LEMMA MoveScopes ==
  ASSUME BookTypeOK, mem \in [Steps -> Memory], ScopeInv, NEW s \in Steps, NEW to,
         pc' = [pc EXCEPT ![s] = to], UNCHANGED <<sup, life, journal>>,
         NEW m, mem' = [mem EXCEPT ![s] = m], m.started = mem[s].started,
         \A t \in Steps : Continues(runs[t], runs'[t], t) /\ call'[t].n = call[t].n,
         to \in Working => pc[s] \in Working, to # "idle",
         to \in {"launch", "child", "backoff"} => pc[s] \in {"launch", "child", "backoff"}
  PROVE  ScopeInv'
<1>1. /\ pc'[s] = to /\ mem'[s] = m
      /\ \A t \in Steps \ {s} : pc'[t] = pc[t] /\ mem'[t] = mem[t]
  BY DEF BookTypeOK
<1>2. Scope(s, Load(journal[s]), mem[s], pc[s], call[s].n, runs[s])
  BY DEF ScopeInv
<1>3. \A i \in DOMAIN runs'[s] : runs'[s][i].n \in Load(journal[s]).scoped
  <2>1. Continues(runs[s], runs'[s], s)
    OBVIOUS
  <2>2. /\ \A i \in DOMAIN runs[s] : runs[s][i].n \in Load(journal[s]).scoped
        /\ pc[s] = "launch" => call[s].n \in Load(journal[s]).scoped
    BY <1>2 DEF Scope
  <2> QED BY <2>1, <2>2 DEF Continues
<1>4. Scope(s, Load(journal[s]), m, to, call[s].n, runs'[s])
  BY <1>2, <1>3 DEF Scope, KeyedScope, LifeScope
<1> QED BY <1>1, <1>4, ScopeSteps

(* A row of a keyed call.                                                  *)
LEMMA KeyedRow ==
  ASSUME NEW m \in Memory, NEW read \in Memory, NEW row \in Rows, Agrees(m, read),
         NEW at, NEW to, KeyedScope(read, m, at, row.n), sup = "up",
         to \in Working => at \in Working,
         row.type \in {"started", "finished", "exhausted"}
           => at \in Working /\ Passed(read, row.n)
  PROVE  KeyedScope(ReadRow(read, row), Live(m, row), to, row.n)
<1> DEFINE r == ReadRow(read, row)
           l == Live(m, row)
<1>0. row.n \in Ids /\ row.type \in {"budget", "started", "finished", "exhausted", "rejected"}
      /\ read.scoped \subseteq Ids /\ Ids \subseteq Nat
  BY Bounds DEF Rows, Memory
<1>1. r.scoped = IF row.type = "started" THEN read.scoped \cup {row.n} ELSE read.scoped
  BY RowRefuses
<1>2. r.started \ l.started \subseteq Refused(r)
  BY RowSweeps DEF KeyedScope, Refused
<1>3. \A k \in read.scoped : Passed(read, k) /\ (at \in Working => k <= row.n)
  BY DEF KeyedScope
<1>4. ASSUME NEW k \in r.scoped
      PROVE  Passed(r, k) /\ (to \in Working => k <= row.n)
  <2>1. k \in Ids /\ Passed(read, k)
    BY <1>0, <1>1, <1>3
  <2>2. at \in Working => k <= row.n
    <3>1. k \in read.scoped \/ k = row.n
      BY <1>1
    <3>2. row.n <= row.n
      <4>1. row.n \in Nat
        BY <1>0, Zenon
      <4> QED BY <4>1
    <3> QED BY <1>3, <3>1, <3>2
  <2>3. row.type \in {"rejected", "budget"} \/ k <= row.n
    BY <1>0, <2>2
  <2> QED BY <2>1, <2>2, <2>3, RowPasses
<1> HIDE DEF r, l
<1> QED BY <1>2, <1>4 DEF KeyedScope, Refused, r, l

(* And of one that is not.                                                 *)
LEMMA LifeRow ==
  ASSUME NEW m, NEW read \in Memory, NEW row \in Rows, NEW l,
         NEW at, NEW to, LifeScope(read, m, at, row.n),
         to \in Working => at \in Working, to = "idle" => at = "idle" /\ sup # "up",
         row.type = "started" => at \in Working
  PROVE  LifeScope(ReadRow(read, row), l, to, row.n)
<1>1. ReadRow(read, row).scoped =
        IF row.type = "started" THEN read.scoped \cup {row.n} ELSE read.scoped
  BY RowRefuses
<1> QED BY <1>1 DEF LifeScope

LEMMA RowScopes ==
  ASSUME BudgetInv, Remembers(mem, journal), ScopeInv, NEW s \in Steps, NEW to, NEW row \in Rows,
         NEW m \in Memory, Agrees(m, Load(journal[s])), m.started = mem[s].started,
         row.n = call[s].n, row.type \in {"finished", "exhausted"} => row.result # "missing",
         pc' = [pc EXCEPT ![s] = to],
         journal' = [journal EXCEPT ![s] = Append(@, row)],
         mem' = [mem EXCEPT ![s] = Live(m, row)],
         sup = "up", UNCHANGED <<sup, life, call>>,
         \A t \in Steps : Continues(runs[t], runs'[t], t),
         to \in Working => pc[s] \in Working,
         to \in {"launch", "child", "backoff"} => row.type = "started" \/ to = pc[s],
         row.type \in {"started", "finished", "exhausted"}
           => pc[s] \in Working /\ (s \in Keyed => Passed(Load(journal[s]), row.n)),
         to = "idle" => s \in Keyed
  PROVE  ScopeInv'
<1> DEFINE read == Load(journal[s])
<1>0. BookTypeOK /\ mem \in [Steps -> Memory] /\ journal[s] \in Seq(Rows)
  BY DEF BudgetInv, BookTypeOK, Remembers
<1>1. /\ pc'[s] = to /\ mem'[s] = Live(m, row) /\ journal'[s] = Append(journal[s], row)
      /\ \A t \in Steps \ {s} : pc'[t] = pc[t] /\ mem'[t] = mem[t] /\ journal'[t] = journal[t]
  BY <1>0 DEF BookTypeOK
<1>2. read \in Memory /\ Load(journal'[s]) = ReadRow(read, row)
  BY <1>0, <1>1, LoadType, LoadAppend
<1>3. Scope(s, read, mem[s], pc[s], row.n, runs[s])
  BY DEF ScopeInv
<1> HIDE DEF read
<1>4. ReadRow(read, row).scoped =
        IF row.type = "started" THEN read.scoped \cup {row.n} ELSE read.scoped
  BY <1>2, RowRefuses
<1>5. Kept(ReadRow(read, row))
  BY <1>2, <1>3, RowKeeps DEF Scope
<1>6. \A i \in DOMAIN runs'[s] : runs'[s][i].n \in ReadRow(read, row).scoped
  <2>1. \A i \in DOMAIN runs'[s] : runs'[s][i].n \in read.scoped
    BY <1>3, RunsScoped DEF Scope
  <2> QED BY <1>4, <2>1
<1>7. to \in {"launch", "child", "backoff"} => row.n \in ReadRow(read, row).scoped
  BY <1>3, <1>4 DEF Scope
<1>8. CASE s \in Keyed
  <2>1. KeyedScope(read, m, pc[s], row.n)
    BY <1>3, <1>8 DEF Scope, KeyedScope
  <2>2. KeyedScope(ReadRow(read, row), Live(m, row), to, row.n)
    BY <1>2, <1>8, <2>1, KeyedRow DEF read
  <2> QED BY <1>1, <1>2, <1>5, <1>6, <1>7, <1>8, <2>2, ScopeSteps DEF Scope
<1>9. CASE s \notin Keyed
  <2>1. LifeScope(read, mem[s], pc[s], row.n)
    BY <1>3, <1>9 DEF Scope
  <2>2. LifeScope(ReadRow(read, row), Live(m, row), to, row.n)
    BY <1>2, <1>9, <2>1, LifeRow
  <2> QED BY <1>1, <1>2, <1>5, <1>6, <1>7, <1>9, <2>2, ScopeSteps DEF Scope
<1> QED BY <1>8, <1>9

(* A call takes an identity that is not behind any it has started, and the *)
(* keys that it sweeps are behind it.                                      *)
LEMMA TakesNext ==
  ASSUME BookTypeOK, Remembers(mem, journal), ScopeInv, NEW s \in Steps, s \in Keyed,
         NEW n \in Ids, Takes(s, n)
  PROVE  /\ n \notin Refused(Load(journal[s]))
         /\ \A k \in Load(journal[s]).scoped : k <= n /\ (k # n => k \in Refused(Load(journal[s])))
<1> DEFINE read == Load(journal[s])
<1>1. journal[s] \in Seq(Rows)
  BY DEF BookTypeOK
<1>2. read \in Memory /\ Ids \subseteq Nat
  BY <1>1, LoadType, Bounds
<1>3. mem[s].tomb = read.tomb /\ mem[s].restarted = read.restarted
  BY DEF Remembers, Agrees
<1>4. KeyedScope(read, mem[s], pc[s], call[s].n)
  BY DEF ScopeInv, Scope
<1> HIDE DEF read
<1>5. Free(mem[s]) = Ids \ Refused(read)
  BY <1>3 DEF Free, Refused
<1>6. n \notin Refused(read) /\ \A k \in Ids \ Refused(read) : n <= k
  BY <1>5 DEF Takes
<1>7. ASSUME NEW k \in read.scoped
      PROVE  k <= n /\ (k # n => k \in Refused(read))
  <2>1. k \in Ids /\ \A j \in Ids : j < k => j \in Refused(read)
    BY <1>2, <1>4 DEF KeyedScope, Passed, Refused, Memory
  <2>2. k \in Nat /\ n \in Nat
    BY <1>2, <2>1
  <2>3. ~(n < k)
    BY <1>6, <2>1
  <2>4. k # n => ~(n <= k)
    BY <2>2, <2>3
  <2> QED BY <1>6, <2>1, <2>2, <2>3, <2>4
<1> QED BY <1>6, <1>7 DEF read

(* A call without a key takes the original identity or the life's own.     *)
LEMMA TakesOwn ==
  ASSUME BookTypeOK, Remembers(mem, journal), ScopeInv, NEW s \in Steps, s \notin Keyed,
         sup = "up", pc[s] = "idle", NEW n \in Ids, Takes(s, n)
  PROVE  \/ n = 0 /\ 0 \notin Load(journal[s]).tomb
         \/ n # 0 /\ n = life - 1
<1>1. life \in Nat /\ life >= 1
  BY DEF BookTypeOK
<1>2. mem[s].tomb = Load(journal[s]).tomb
  BY DEF Remembers, Agrees
<1>3. life = 1 => Load(journal[s]).tomb = {}
  BY DEF ScopeInv, Scope, LifeScope
<1>4. n = IF 0 \in mem[s].tomb THEN Biggest(life - 1, 1) ELSE 0
  BY DEF Takes
<1>5. CASE 0 \in mem[s].tomb
  <2>1. life # 1
    BY <1>2, <1>3, <1>5
  <2> QED BY <1>1, <1>4, <1>5, <2>1 DEF Biggest
<1>6. CASE 0 \notin mem[s].tomb
  BY <1>2, <1>4, <1>6
<1> QED BY <1>5, <1>6

LEMMA CallIs ==
  ASSUME BookTypeOK, mem \in [Steps -> Memory], NEW s \in Steps, Call(s)
  PROVE  \E n \in Ids :
           LET stale == (mem[s].scoped \cap mem[s].started) \ (mem[s].mine \cup {n})
           IN /\ Takes(s, n) /\ call'[s].n = n
              /\ pc'[s] \in {"raised", "hit", "claim", "adopt"}
              /\ pc'[s] = "claim" => Found(mem[s], n) = "fresh"
              /\ mem[s].started \ mem'[s].started \subseteq stale
              /\ \A t \in Steps \ {s} : /\ pc'[t] = pc[t] /\ call'[t] = call[t]
                                        /\ mem'[t] = mem[t]
              /\ UNCHANGED <<sup, life, journal>> /\ sup = "up" /\ pc[s] = "idle"
<1>1. PICK n \in Ids :
        LET m == mem[s]
            stale == (m.scoped \cap m.started) \ (m.mine \cup {n})
        IN /\ Takes(s, n)
           /\ call' = [call EXCEPT ![s] = [n |-> n, found |-> Found(m, n), tries |-> 0]]
           /\ \/ pc' = [pc EXCEPT ![s] = "raised"] /\ mem' = mem
              \/ /\ pc' = [pc EXCEPT ![s] = CASE Found(m, n) = "cached" -> "hit"
                                              [] Found(m, n) = "fresh" -> "claim"
                                              [] OTHER -> "adopt"]
                 /\ mem' = [mem EXCEPT ![s].started = @ \ stale]
  BY DEF Call
<1> DEFINE m == mem[s]
           stale == (m.scoped \cap m.started) \ (m.mine \cup {n})
<1>2. UNCHANGED <<sup, life, journal>> /\ sup = "up" /\ pc[s] = "idle" /\ m \in Memory
  BY DEF Call
<1>3. call'[s].n = n /\ \A t \in Steps \ {s} : call'[t] = call[t]
  BY <1>1 DEF BookTypeOK
<1>4. /\ pc'[s] \in {"raised", "hit", "claim", "adopt"}
      /\ pc'[s] = "claim" => Found(m, n) = "fresh"
      /\ \A t \in Steps \ {s} : pc'[t] = pc[t]
  BY <1>1 DEF BookTypeOK
<1>5. CASE mem' = mem
  <2>1. mem[s].started \ mem'[s].started \subseteq stale
    BY <1>5
  <2> QED BY <1>1, <1>2, <1>3, <1>4, <1>5, <2>1
<1>6. CASE mem' = [mem EXCEPT ![s].started = @ \ stale]
  <2>1. mem[s].started \ mem'[s].started \subseteq stale /\ \A t \in Steps \ {s} : mem'[t] = mem[t]
    BY <1>2, <1>6 DEF Memory
  <2> QED BY <1>1, <1>2, <1>3, <1>4, <2>1
<1> QED BY <1>1, <1>5, <1>6

LEMMA CallScopes ==
  ASSUME BudgetInv, Remembers(mem, journal), ScopeInv, NEW s \in Steps, Call(s)
  PROVE  ScopeInv'
<1>0. BookTypeOK /\ mem \in [Steps -> Memory] /\ Keyed \subseteq Steps
  BY CallsAssumption DEF BudgetInv, Remembers
<1>1. PICK n \in Ids :
        LET stale == (mem[s].scoped \cap mem[s].started) \ (mem[s].mine \cup {n})
        IN /\ Takes(s, n) /\ call'[s].n = n
           /\ pc'[s] \in {"raised", "hit", "claim", "adopt"}
           /\ mem[s].started \ mem'[s].started \subseteq stale
           /\ \A t \in Steps \ {s} : /\ pc'[t] = pc[t] /\ call'[t] = call[t]
                                     /\ mem'[t] = mem[t]
           /\ UNCHANGED <<sup, life, journal>> /\ sup = "up" /\ pc[s] = "idle"
  BY <1>0, CallIs
<1> DEFINE read == Load(journal[s])
<1>2. \A t \in Steps : Continues(runs[t], runs'[t], t)
  BY ThreadContinues DEF CallStep
<1>3. Scope(s, read, mem[s], pc[s], call[s].n, runs[s]) /\ mem[s].scoped = read.scoped
  BY DEF ScopeInv, Remembers, Agrees
<1>4. \A i \in DOMAIN runs'[s] : runs'[s][i].n \in read.scoped
  <2>1. Continues(runs[s], runs'[s], s)
    BY <1>2
  <2> QED BY <1>1, <1>3, <2>1 DEF Continues, Scope
<1>5. mem[s].started \ mem'[s].started \subseteq read.scoped \ {n}
  BY <1>1, <1>3
<1>6. CASE s \in Keyed
  <2>1. \A k \in read.scoped : k <= n /\ (k # n => k \in Refused(read))
    BY <1>0, <1>1, <1>6, TakesNext
  <2>2. KeyedScope(read, mem'[s], pc'[s], n)
    BY <1>1, <1>3, <1>5, <1>6, <2>1 DEF Scope, KeyedScope, Refused
  <2>3. Scope(s, read, mem'[s], pc'[s], n, runs'[s])
    BY <1>1, <1>3, <1>4, <1>6, <2>2 DEF Scope
  <2> QED BY <1>1, <1>2, <2>3, ScopeSteps
<1>7. CASE s \notin Keyed
  <2>1. n = 0 \/ n < life
    <3>1. n = 0 \/ n = life - 1
      BY <1>0, <1>1, <1>7, TakesOwn
    <3>2. life \in Nat
      BY <1>0 DEF BookTypeOK
    <3> QED BY <3>1, <3>2
  <2>2. LifeScope(read, mem'[s], pc'[s], n)
    BY <1>1, <1>3, <1>7, <2>1 DEF Scope, LifeScope
  <2>3. Scope(s, read, mem'[s], pc'[s], n, runs'[s])
    BY <1>1, <1>3, <1>4, <1>7, <2>2 DEF Scope
  <2> QED BY <1>1, <1>2, <2>3, ScopeSteps
<1> QED BY <1>6, <1>7

-----------------------------------------------------------------------------
(* Every step keeps the scopes.                                            *)

LEMMA StayScopes ==
  ASSUME BookTypeOK, mem \in [Steps -> Memory], ScopeInv, NEW s \in Steps, NEW to,
         pc' = [pc EXCEPT ![s] = to], UNCHANGED <<sup, life, journal, mem>>,
         \A t \in Steps : Continues(runs[t], runs'[t], t) /\ call'[t].n = call[t].n,
         to \in Working => pc[s] \in Working, to # "idle",
         to \in {"launch", "child", "backoff"} => pc[s] \in {"launch", "child", "backoff"}
  PROVE  ScopeInv'
<1>1. mem' = [mem EXCEPT ![s] = mem[s]]
  OBVIOUS
<1> QED BY <1>1, MoveScopes

LEMMA AdoptAnswerScopes ==
  ASSUME BudgetInv, Remembers(mem, journal), SettleInv, ScopeInv, NEW s \in Steps,
         pc[s] \in Working, NEW result \in {"answer", "none"}, AdoptAnswer(s, result),
         sup = "up", UNCHANGED <<sup, life, call>>,
         \A t \in Steps : Continues(runs[t], runs'[t], t)
  PROVE  ScopeInv'
<1> DEFINE row == Row("finished", call[s].n, result)
           m == Unexhausted(s)
<1>1. row \in Rows /\ row.n = call[s].n /\ row.type = "finished" /\ row.result = result
  BY RowTypes DEF BudgetInv, BookTypeOK, Results, Row
<1>2. /\ journal' = [journal EXCEPT ![s] = Append(@, row)]
      /\ pc' = [pc EXCEPT ![s] = "done"] /\ mem' = [mem EXCEPT ![s] = Live(m, row)]
  BY DEF AdoptAnswer
<1>3. m \in Memory /\ Agrees(m, Load(journal[s])) /\ mem[s] \in Memory
  BY Dropped
<1>4. m.started = mem[s].started
  BY <1>3 DEF Unexhausted, Memory
<1>5. s \in Keyed => Passed(Load(journal[s]), row.n)
  BY <1>1 DEF SettleInv
<1>6. "done" \notin Working
  BY DEF Working
<1> HIDE DEF row, m
<1> QED BY <1>1, <1>2, <1>3, <1>4, <1>5, <1>6, RowScopes

LEMMA JournalsScopes ==
  ASSUME BudgetInv, Remembers(mem, journal), SettleInv, ScopeInv, NEW s \in Steps, NEW to,
         NEW row \in Rows, Journals(s, row), row.n = call[s].n,
         row.type \in {"finished", "exhausted"} => row.result # "missing",
         pc' = [pc EXCEPT ![s] = to],
         sup = "up", UNCHANGED <<sup, life, call, runs>>,
         to \in Working => pc[s] \in Working,
         to \in {"launch", "child", "backoff"} => row.type = "started" \/ to = pc[s],
         row.type \in {"started", "finished", "exhausted"} => pc[s] \in Working,
         to = "idle" => s \in Keyed
  PROVE  ScopeInv'
<1>1. mem[s] \in Memory /\ Agrees(mem[s], Load(journal[s]))
  BY Dropped
<1>2. /\ journal' = [journal EXCEPT ![s] = Append(@, row)]
      /\ mem' = [mem EXCEPT ![s] = Live(mem[s], row)]
  BY DEF Journals
<1>3. pc[s] \in Working /\ s \in Keyed => Passed(Load(journal[s]), row.n)
  BY DEF SettleInv
<1>4. \A t \in Steps : Continues(runs[t], runs'[t], t)
  BY ContinuesRefl
<1> QED BY <1>1, <1>2, <1>3, <1>4, RowScopes

LEMMA AdoptScopes ==
  ASSUME BudgetInv, Remembers(mem, journal), SettleInv, ScopeInv, NEW s \in Steps,
         Adopt(s) \/ WaitEnds(s) \/ WaitTimesOut(s)
  PROVE  ScopeInv'
<1>0. BookTypeOK /\ mem \in [Steps -> Memory]
  BY DEF BudgetInv, Remembers
<1>1. \A t \in Steps : Continues(runs[t], runs'[t], t)
  BY ThreadContinues DEF CallStep
<1>2. pc[s] \in Working /\ sup = "up" /\ UNCHANGED <<sup, life, call>>
  BY DEF Adopt, WaitEnds, WaitTimesOut, Working
<1>3. CASE AdoptAnswer(s, "answer") \/ AdoptAnswer(s, "none")
  BY <1>1, <1>2, <1>3, AdoptAnswerScopes
<1>4. CASE /\ journal' = journal /\ mem' \in {mem, [mem EXCEPT ![s] = Unexhausted(s)]}
           /\ \E to \in {"hit", "claim", "waiting", "raised"} : pc' = [pc EXCEPT ![s] = to]
  <2>1. PICK to \in {"hit", "claim", "waiting", "raised"} : pc' = [pc EXCEPT ![s] = to]
    BY <1>4
  <2>2. to # "idle" /\ to \notin {"launch", "child", "backoff"}
    OBVIOUS
  <2>3. Unexhausted(s).started = mem[s].started
    BY <1>0 DEF Unexhausted, Memory
  <2> QED BY <1>0, <1>1, <1>2, <1>4, <2>1, <2>2, <2>3, StayScopes, MoveScopes
<1>5. CASE Adopt(s)
  <2>1. \/ AdoptAnswer(s, "answer")
        \/ /\ journal' = journal /\ mem' = [mem EXCEPT ![s] = Unexhausted(s)]
           /\ pc' \in {[pc EXCEPT ![s] = to] : to \in {"hit", "claim", "waiting"}}
    BY <1>5 DEF Adopt, NothingToAdopt
  <2> QED BY <1>3, <1>4, <2>1
<1>6. CASE WaitEnds(s) \/ WaitTimesOut(s)
  <2>1. \/ AdoptAnswer(s, "answer") \/ AdoptAnswer(s, "none")
        \/ /\ journal' = journal /\ mem' = mem
           /\ pc' \in {[pc EXCEPT ![s] = to] : to \in {"hit", "claim", "raised"}}
    BY <1>6 DEF WaitEnds, WaitTimesOut, NothingToAdopt
  <2> QED BY <1>3, <1>4, <2>1
<1> QED BY <1>5, <1>6

LEMMA ThreadScopes ==
  ASSUME BudgetInv, Remembers(mem, journal), SettleInv, ScopeInv, NEW s \in Steps,
         CallStep(s) \/ ChildTimesOut(s)
  PROVE  ScopeInv'
<1>0. BookTypeOK /\ mem \in [Steps -> Memory] /\ call[s].n \in Ids
  BY DEF BudgetInv, BookTypeOK, Remembers
<1>1. \A t \in Steps : Continues(runs[t], runs'[t], t)
  BY ThreadContinues
<1>2. CASE CacheHit(s) \/ Claim(s) \/ SaveStatus(s) \/ ChildCancelled(s) \/ Backoff(s)
  <2>1. /\ UNCHANGED <<sup, life, journal, mem, call>>
        /\ \E to \in {"done", "charge", "raised", "admit", "unwound", "launch"} :
             /\ pc' = [pc EXCEPT ![s] = to]
             /\ to \in {"done", "raised", "unwound"} \/ pc[s] \in Working
             /\ to = "launch" => pc[s] = "backoff"
    BY <1>2 DEF CacheHit, Claim, SaveStatus, ChildCancelled, Backoff, Working
  <2>2. "done" \notin Working /\ "raised" \notin Working /\ "unwound" \notin Working
    BY DEF Working
  <2>3. PICK to \in {"done", "charge", "raised", "admit", "unwound", "launch"} :
          /\ pc' = [pc EXCEPT ![s] = to]
          /\ to \in {"done", "raised", "unwound"} \/ pc[s] \in Working
          /\ to = "launch" => pc[s] = "backoff"
    BY <2>1
  <2> QED BY <1>0, <1>1, <2>1, <2>2, <2>3, StayScopes
<1>3. CASE Charge(s)
  <2> DEFINE row == Row("budget", call[s].n, "missing")
  <2>1. row \in Rows /\ row.n = call[s].n /\ row.type = "budget"
    BY <1>0, RowTypes DEF Results
  <2>2. /\ journal' = [journal EXCEPT ![s] = Append(@, row)] /\ sup = "up"
        /\ pc' = [pc EXCEPT ![s] = "saving"] /\ UNCHANGED <<sup, life, mem, call>>
    BY <1>3 DEF Charge
  <2> HIDE DEF row
  <2>3. mem' = [mem EXCEPT ![s] = Live(mem[s], row)]
    BY <2>1, <2>2, <1>0 DEF Live
  <2>4. mem[s] \in Memory /\ Agrees(mem[s], Load(journal[s])) /\ pc[s] \in Working
    BY <1>3, Dropped DEF Charge, Working
  <2> QED BY <1>1, <2>1, <2>2, <2>3, <2>4, RowScopes
<1>4. CASE Start(s)
  <2> DEFINE row == Row("started", call[s].n, "missing")
  <2>1. row \in Rows /\ row.n = call[s].n /\ row.type = "started"
    BY <1>0, RowTypes DEF Results
  <2>2. pc[s] \in Working /\ sup = "up" /\ UNCHANGED <<sup, life, call, runs>>
    BY <1>4 DEF Start, Working
  <2>3. \/ Journals(s, row) /\ pc' = [pc EXCEPT ![s] = "launch"]
        \/ UNCHANGED <<journal, mem>> /\ pc' = [pc EXCEPT ![s] = "unwound"]
    BY <1>4 DEF Start
  <2> HIDE DEF row
  <2>4. CASE Journals(s, row) /\ pc' = [pc EXCEPT ![s] = "launch"]
    BY <2>1, <2>2, <2>4, JournalsScopes
  <2>5. CASE UNCHANGED <<journal, mem>> /\ pc' = [pc EXCEPT ![s] = "unwound"]
    <3>1. "unwound" \notin Working
      BY DEF Working
    <3> QED BY <1>0, <1>1, <2>2, <2>5, <3>1, StayScopes
  <2> QED BY <2>3, <2>4, <2>5
<1>5. CASE Launch(s)
  <2>1. /\ UNCHANGED <<sup, life, journal, mem>> /\ pc' = [pc EXCEPT ![s] = "child"]
        /\ pc[s] = "launch" /\ pc[s] \in Working
        /\ \A t \in Steps : call'[t].n = call[t].n
    BY <1>5 DEF Launch, Working, BudgetInv, BookTypeOK
  <2> QED BY <1>0, <1>1, <2>1, StayScopes
<1>6. CASE ChildReturns(s) \/ ChildTimesOut(s)
  <2>0. pc[s] = "child" /\ pc[s] \in Working /\ sup = "up" /\ UNCHANGED <<sup, life, call>>
    BY <1>6 DEF ChildReturns, ChildTimesOut, Working
  <2>1. \/ \E row \in {Row("finished", call[s].n, "answer"), Row("exhausted", call[s].n, "none")} :
             Journals(s, row) /\ pc' = [pc EXCEPT ![s] = "done"]
        \/ UNCHANGED <<journal, mem>> /\ pc' = [pc EXCEPT ![s] = "backoff"]
    BY <1>6 DEF ChildReturns, ChildTimesOut, FailedAttempt, Finish
  <2>2. CASE UNCHANGED <<journal, mem>> /\ pc' = [pc EXCEPT ![s] = "backoff"]
    BY <1>0, <1>1, <2>0, <2>2, StayScopes
  <2>3. ASSUME NEW row \in {Row("finished", call[s].n, "answer"), Row("exhausted", call[s].n, "none")},
               Journals(s, row), pc' = [pc EXCEPT ![s] = "done"]
        PROVE  ScopeInv'
    <3>1. row \in Rows /\ row.n = call[s].n /\ row.result # "missing"
          /\ row.type \in {"finished", "exhausted"}
      <4>1. {"none", "answer"} \subseteq Results
        BY DEF Results
      <4> QED BY <1>0, <2>3, <4>1, RowTypes DEF Row
    <3>2. "done" \notin Working
      BY DEF Working
    <3>3. /\ journal' = [journal EXCEPT ![s] = Append(@, row)]
          /\ mem' = [mem EXCEPT ![s] = Live(mem[s], row)]
      BY <2>3 DEF Journals
    <3>4. mem[s] \in Memory /\ Agrees(mem[s], Load(journal[s]))
      BY Dropped
    <3>5. s \in Keyed => Passed(Load(journal[s]), row.n)
      BY <2>0, <3>1 DEF SettleInv
    <3> QED BY <1>1, <2>0, <2>3, <3>1, <3>2, <3>3, <3>4, <3>5, RowScopes
  <2> QED BY <2>1, <2>2, <2>3
<1> QED BY <1>2, <1>3, <1>4, <1>5, <1>6, CallScopes, AdoptScopes DEF CallStep

LEMMA ScriptRejectScopes ==
  ASSUME BudgetInv, Remembers(mem, journal), SettleInv, ScopeInv, NEW s \in Steps,
         ScriptRejects(s)
  PROVE  ScopeInv'
<1> DEFINE row == Row("rejected", call[s].n, "missing")
           to == IF pc[s] = "done" /\ s \in Keyed THEN "idle" ELSE pc[s]
<1>1. row \in Rows /\ row.n = call[s].n /\ row.type = "rejected"
  BY RowTypes DEF BudgetInv, BookTypeOK, Results
<1>2. /\ Journals(s, row) /\ pc' = [pc EXCEPT ![s] = to]
      /\ sup = "up" /\ UNCHANGED <<sup, life, call, runs>> /\ pc[s] # "idle"
  BY DEF ScriptRejects
<1>3. to = "idle" => s \in Keyed
  BY <1>2
<1>4. to = "idle" \/ to = pc[s]
  OBVIOUS
<1> HIDE DEF row, to
<1>5. to \in {"launch", "child", "backoff"} => to = pc[s]
  BY <1>4
<1>6. to \in Working => pc[s] \in Working
  BY <1>4 DEF Working
<1> QED BY <1>1, <1>2, <1>3, <1>5, <1>6, JournalsScopes

LEMMA OperatorRejectScopes ==
  ASSUME BookTypeOK, ScopeInv, NEW s \in Steps, OperatorRejects(s)
  PROVE  ScopeInv'
<1>1. PICK i \in DOMAIN journal[s] :
        journal' = [journal EXCEPT ![s] = Append(@, Row("rejected", journal[s][i].n, "missing"))]
  BY DEF OperatorRejects
<1> DEFINE row == Row("rejected", journal[s][i].n, "missing")
           read == Load(journal[s])
<1>2. journal[s] \in Seq(Rows) /\ journal[s][i] \in Rows
  BY DEF BookTypeOK
<1>3. row \in Rows /\ row.type = "rejected"
  <2>1. journal[s][i].n \in Ids
    BY <1>2 DEF Rows
  <2> QED BY <2>1, RowTypes DEF Results
<1>4. /\ journal'[s] = Append(journal[s], row) /\ \A t \in Steps \ {s} : journal'[t] = journal[t]
      /\ sup # "up" /\ UNCHANGED <<sup, life, mem, pc, call, runs>>
  BY <1>1 DEF OperatorRejects, BookTypeOK
<1> HIDE DEF row
<1>5. read \in Memory /\ Load(journal'[s]) = ReadRow(read, row)
  BY <1>2, <1>3, <1>4, LoadType, LoadAppend
<1>6. Scope(s, read, mem[s], pc[s], call[s].n, runs[s])
  BY DEF ScopeInv
<1> HIDE DEF read
<1>7. Kept(ReadRow(read, row)) /\ ReadRow(read, row).scoped = read.scoped
  BY <1>3, <1>5, <1>6, RowKeeps, RowRefuses DEF Scope
<1>8. s \in Keyed => KeyedScope(ReadRow(read, row), mem[s], pc[s], call[s].n)
  <2>1. \A k \in Ids : Passed(read, k) => Passed(ReadRow(read, row), k)
    BY <1>3, <1>5, RowPasses
  <2>2. read.scoped \subseteq Ids
    BY <1>5 DEF Memory
  <2> QED BY <1>4, <1>6, <1>7, <2>1, <2>2 DEF Scope, KeyedScope
<1>9. s \notin Keyed => LifeScope(ReadRow(read, row), mem[s], pc[s], call[s].n)
  BY <1>4, <1>6, <1>7 DEF Scope, LifeScope
<1>10. Scope(s, ReadRow(read, row), mem[s], pc[s], call[s].n, runs[s])
  BY <1>6, <1>7, <1>8, <1>9 DEF Scope
<1> QED BY <1>4, <1>5, <1>10, ContinuesRefl, ScopeSteps

LEMMA ChildStepScopes ==
  ASSUME BookTypeOK, ScopeInv, NEW s \in Steps, ChildSteps(s)
  PROVE  ScopeInv'
<1>1. PICK i \in DOMAIN runs[s], r \in ChildRuns :
        runs' = [runs EXCEPT ![s] = [runs[s] EXCEPT ![i] = r]] /\ r.n = runs[s][i].n
  BY ChildSteps1
<1>2. UNCHANGED <<sup, life, journal, mem, pc, call>>
  BY DEF ChildSteps
<1>3. /\ \A t \in Steps \ {s} : runs'[t] = runs[t]
      /\ \A j \in DOMAIN runs'[s] : j \in DOMAIN runs[s] /\ runs'[s][j].n = runs[s][j].n
  BY <1>1 DEF BookTypeOK
<1>4. Scope(s, Load(journal[s]), mem[s], pc[s], call[s].n, runs[s])
  BY DEF ScopeInv
<1>5. Scope(s, Load(journal[s]), mem[s], pc[s], call[s].n, runs'[s])
  BY <1>3, <1>4 DEF Scope
<1> QED BY <1>2, <1>3, <1>5, ContinuesRefl, ScopeSteps

LEMMA SupervisorScopes ==
  ASSUME BookTypeOK, ScopeInv,
         ScriptEnds \/ Signal \/ Crash \/ Resume \/ UNCHANGED vars
  PROVE  ScopeInv'
<1>1. \A t \in Steps : Continues(runs[t], runs'[t], t)
  BY SupervisorContinues
<1>2. journal' = journal /\ life \in Nat /\ life >= 1
  BY DEF ScriptEnds, Signal, Crash, Resume, Gone, Boots, vars, BookTypeOK
<1> SUFFICES ASSUME NEW t \in Steps
             PROVE  Scope(t, Load(journal[t]), mem[t], pc[t], call[t].n, runs[t])'
  BY DEF ScopeInv
<1> DEFINE read == Load(journal[t])
<1>3. Scope(t, read, mem[t], pc[t], call[t].n, runs[t])
  BY DEF ScopeInv
<1>4. \A i \in DOMAIN runs'[t] : runs'[t][i].n \in read.scoped
  <2>1. Continues(runs[t], runs'[t], t)
    BY <1>1
  <2> QED BY <1>3, <2>1 DEF Continues, Scope
<1>5. CASE UNCHANGED <<sup, life, mem, pc, call>>
  BY <1>2, <1>3, <1>4, <1>5 DEF Scope, KeyedScope, LifeScope
<1>6. CASE sup' # "up" /\ life' = life /\ pc'[t] = "idle"
  <2>1. "idle" \notin Working
    BY DEF Working
  <2> QED BY <1>2, <1>3, <1>4, <1>6, <2>1 DEF Scope, KeyedScope, LifeScope
<1>7. CASE life' = life + 1 /\ pc'[t] = "idle" /\ mem'[t] = read
  <2>1. "idle" \notin Working
    BY DEF Working
  <2>2. read.scoped \subseteq Nat
    <3>1. read \in Memory /\ Ids \subseteq Nat
      BY LoadType, Bounds DEF BookTypeOK
    <3> QED BY <3>1 DEF Memory
  <2>3. \A k \in read.scoped : (k = 0 \/ k < life) => (k = 0 \/ k < life') /\ (k = 0 \/ k < life' - 1)
    BY <1>2, <1>7, <2>2
  <2>4. life' # 1
    BY <1>2, <1>7
  <2> HIDE DEF read
  <2>5. t \in Keyed => KeyedScope(read, read, "idle", call[t].n)'
    BY <1>2, <1>3, <2>1 DEF Scope, KeyedScope, read
  <2>6. t \notin Keyed => LifeScope(read, read, "idle", call[t].n)'
    BY <1>2, <1>3, <2>1, <2>3, <2>4 DEF Scope, LifeScope, read
  <2> QED BY <1>2, <1>3, <1>4, <1>7, <2>5, <2>6 DEF Scope, read
<1> QED BY <1>2, <1>5, <1>6, <1>7
    DEF ScriptEnds, Signal, Crash, Resume, Gone, Boots, vars

(* Init and every step establish ScopeInv.                                 *)
LEMMA ScopeInvariant == Spec => []ScopeInv
<1>1. Init => ScopeInv
  <2> SUFFICES ASSUME Init, NEW s \in Steps
               PROVE  Scope(s, Load(journal[s]), mem[s], pc[s], call[s].n, runs[s])
    BY DEF ScopeInv
  <2>1. /\ Load(journal[s]) = Blank /\ mem[s] = Blank /\ pc[s] = "idle" /\ runs[s] = <<>>
        /\ life = 1
    BY LoadEmpty DEF Init
  <2>2. Blank.scoped = {} /\ Blank.started = {} /\ Blank.tomb = {} /\ Blank.restarted = {}
    BY DEF Blank
  <2>3. "idle" \notin Working
    BY DEF Working
  <2> QED BY <2>1, <2>2, <2>3 DEF Scope, Kept, KeyedScope, LifeScope
<1>2. ASSUME BudgetInv, ReplayInv, SettleInv, ScopeInv, [Next]_vars
      PROVE  ScopeInv'
  <2>0. BookTypeOK
    BY <1>2 DEF BudgetInv
  <2>1. CASE \E s \in Steps : CallStep(s) \/ ChildTimesOut(s)
    <3>1. sup = "up"
      BY <2>1 DEF CallStep, Call, CacheHit, Adopt, WaitEnds, WaitTimesOut, Claim, Charge,
         SaveStatus, Start, Launch, ChildReturns, ChildTimesOut, ChildCancelled, Backoff
    <3> QED BY <1>2, <2>1, <3>1, ThreadScopes DEF ReplayInv
  <2>2. CASE \E s \in Steps : ScriptRejects(s)
    <3>1. sup = "up"
      BY <2>2 DEF ScriptRejects
    <3> QED BY <1>2, <2>2, <3>1, ScriptRejectScopes DEF ReplayInv
  <2>3. CASE \E s \in Steps : ChildSteps(s) \/ OperatorRejects(s)
    BY <1>2, <2>0, <2>3, ChildStepScopes, OperatorRejectScopes
  <2>4. CASE ScriptEnds \/ Signal \/ Crash \/ Resume \/ UNCHANGED vars
    BY <1>2, <2>0, <2>4, SupervisorScopes
  <2> QED BY <1>2, <2>1, <2>2, <2>3, <2>4 DEF Next
<1> QED BY <1>1, <1>2, BudgetInvariant, ReplayInvariant, SettleInvariant, PTL DEF Spec

-----------------------------------------------------------------------------
(* A call that launches has no success of an earlier life to adopt.        *)

(* The numbers of some runs have a largest.                                *)
LEMMA LastRegistered ==
  ASSUME NEW rs \in Seq(ChildRuns), Numbered(rs), NEW mine, mine \subseteq DOMAIN rs, mine # {},
         \A i \in mine : Recorded(rs[i])
  PROVE  \E i \in mine : \A j \in mine : rs[j].ord <= rs[i].ord
<1> DEFINE top == Cardinality({i \in DOMAIN rs : rs[i].ord # 0})
           U == {b \in Nat : \A j \in mine : rs[j].ord <= b}
<1>1. top \in Nat
  BY RegisteredAre
<1>2. \A j \in mine : rs[j].ord \in 1 .. top
  BY DEF Numbered
<1> HIDE DEF top
<1>3. top \in U
  BY <1>1, <1>2
<1>4. PICK b \in U : \A c \in U : <<c, b>> \notin Below
  BY <1>3, BelowIsWellFounded, WFMin
<1>5. SUFFICES ASSUME \A i \in mine : rs[i].ord # b PROVE FALSE
  BY <1>4
<1>6. \A j \in mine : rs[j].ord \in Nat /\ 1 <= rs[j].ord /\ rs[j].ord < b
  <2> SUFFICES ASSUME NEW j \in mine
               PROVE  rs[j].ord \in Nat /\ 1 <= rs[j].ord /\ rs[j].ord < b
    OBVIOUS
  <2>1. rs[j].ord \in Nat /\ 1 <= rs[j].ord
    BY <1>1, <1>2
  <2>2. rs[j].ord <= b /\ rs[j].ord # b /\ b \in Nat
    BY <1>4, <1>5
  <2> QED BY <2>1, <2>2
<1>7. b \in Nat /\ b > 1
  <2>1. PICK j \in mine : TRUE
    OBVIOUS
  <2> QED BY <1>4, <1>6, <2>1
<1>8. b - 1 \in Nat /\ b - 1 < b
  BY <1>7
<1>9. \A j \in mine : rs[j].ord <= b - 1
  BY <1>6, <1>7
<1>10. b - 1 \in U /\ <<b - 1, b>> \in Below
  BY <1>7, <1>8, <1>9 DEF Below
<1> QED BY <1>4, <1>10

(* Latest is what it says.                                                 *)
LEMMA LatestIsLast ==
  ASSUME BookTypeOK, AgeInv, NEW s \in Steps, NEW n
  PROVE  LET mine == {i \in DOMAIN runs[s] : runs[s][i].n = n /\ Recorded(runs[s][i])}
         IN \/ mine = {} /\ Latest(s, n) = 0
            \/ /\ Latest(s, n) \in mine
               /\ \A j \in mine : runs[s][j].ord <= runs[s][Latest(s, n)].ord
<1> DEFINE mine == {i \in DOMAIN runs[s] : runs[s][i].n = n /\ Recorded(runs[s][i])}
<1>1. Latest(s, n) = IF mine = {} THEN 0
                     ELSE CHOOSE i \in mine : \A j \in mine : runs[s][j].ord <= runs[s][i].ord
  BY DEF Latest, Recorded
<1>2. runs[s] \in Seq(ChildRuns) /\ Numbered(runs[s])
  BY DEF BookTypeOK, AgeInv
<1>3. /\ mine \subseteq DOMAIN runs[s]
      /\ \A i \in mine : Recorded(runs[s][i])
  OBVIOUS
<1> HIDE DEF mine
<1>4. mine # {} => \E i \in mine : \A j \in mine : runs[s][j].ord <= runs[s][i].ord
  BY <1>2, <1>3, LastRegistered
<1> QED BY <1>1, <1>4 DEF mine

LEMMA NoAnswerLast ==
  ASSUME BookTypeOK, AgeInv, NEW s \in Steps, NEW n,
         Latest(s, n) = 0 \/ runs[s][Latest(s, n)].phase # "succeeded"
  PROVE  Overtaken(runs[s], n, life)
<1> DEFINE rs == runs[s]
           last == Latest(s, n)
           mine == {i \in DOMAIN rs : rs[i].n = n /\ Recorded(rs[i])}
<1>1. rs \in Seq(ChildRuns) /\ Numbered(rs)
  BY DEF BookTypeOK, AgeInv
<1>2. \/ mine = {} /\ last = 0
      \/ last \in mine /\ \A j \in mine : rs[j].ord <= rs[last].ord
  BY LatestIsLast
<1> SUFFICES ASSUME NEW i \in DOMAIN rs, rs[i].n = n, rs[i].phase = "succeeded"
             PROVE  \E j \in DOMAIN rs : rs[j].n = n /\ Recorded(rs[j]) /\ rs[j].ord > rs[i].ord
  BY DEF Overtaken
<1>3. i \in mine
  BY DEF Recorded, Unrecorded
<1> HIDE DEF last
<1>4. last \in mine /\ last \in DOMAIN rs /\ rs[i].ord <= rs[last].ord
  BY <1>2, <1>3
<1>5. last # i
  <2>1. 0 \notin DOMAIN rs
    BY <1>1
  <2> QED BY <1>4, <2>1 DEF last
<1>6. rs[i].ord # rs[last].ord
  BY <1>1, <1>3, <1>4, <1>5 DEF Numbered
<1>7. rs[i] \in ChildRuns /\ rs[last] \in ChildRuns
  BY <1>1, <1>4
<1>8. rs[last].ord > rs[i].ord
  BY <1>4, <1>6, <1>7 DEF ChildRuns
<1> QED BY <1>4, <1>8

LEMMA OvertakenStays ==
  ASSUME NEW rs, NEW rt, NEW s, NEW n, Continues(rs, rt, s), Overtaken(rs, n, life), life \in Nat
  PROVE  Overtaken(rt, n, life)
BY DEF Continues, Overtaken

(* What a lookup calls fresh has no run.                                   *)
LEMMA FreshHasNoRun ==
  ASSUME BookTypeOK, Remembers(mem, journal), ScopeInv, NEW s \in Steps,
         sup = "up", pc[s] = "idle", NEW n \in Ids, Takes(s, n), Found(mem[s], n) = "fresh"
  PROVE  \A i \in DOMAIN runs[s] : runs[s][i].n # n
<1> DEFINE m == mem[s]
           read == Load(journal[s])
<1>1. /\ m.replay = read.replay /\ m.tomb = read.tomb /\ m.restarted = read.restarted
      /\ m.started \subseteq read.started
  BY DEF Remembers, Agrees
<1>2. /\ Kept(read) /\ \A i \in DOMAIN runs[s] : runs[s][i].n \in read.scoped
      /\ IF s \in Keyed THEN KeyedScope(read, m, pc[s], call[s].n)
         ELSE LifeScope(read, m, pc[s], call[s].n)
  BY DEF ScopeInv, Scope
<1>3. /\ m.replay[n] = "missing" \/ n \in m.tomb
      /\ n \notin m.started \/ n \in m.tomb \ m.restarted
  BY DEF Found
<1>4. SUFFICES n \notin read.scoped
  BY <1>2
<1>5. CASE s \in Keyed
  <2>1. n \notin read.tomb \ read.restarted
    BY <1>5, TakesNext DEF Refused
  <2>2. read.started \ m.started \subseteq read.tomb \ read.restarted
    BY <1>2, <1>5 DEF KeyedScope
  <2> HIDE DEF m, read
  <2>3. n \notin read.started
    BY <1>1, <1>3, <2>1, <2>2
  <2> QED BY <1>1, <1>2, <1>3, <2>1, <2>3 DEF Kept
<1>6. CASE s \notin Keyed
  <2>1. /\ m.started = read.started
        /\ \A k \in read.scoped : k = 0 \/ k < life - 1
    BY <1>2, <1>6 DEF LifeScope
  <2>2. \/ n = 0 /\ 0 \notin read.tomb
        \/ n # 0 /\ n = life - 1
    BY <1>6, TakesOwn
  <2> HIDE DEF m, read
  <2>3. CASE n = 0 /\ 0 \notin read.tomb
    BY <1>1, <1>2, <1>3, <2>1, <2>3 DEF Kept
  <2>4. CASE n # 0 /\ n = life - 1
    <3>1. life \in Nat
      BY DEF BookTypeOK
    <3> QED BY <2>1, <2>4, <3>1
  <2> QED BY <2>2, <2>3, <2>4
<1> QED BY <1>5, <1>6

-----------------------------------------------------------------------------

Launching == Working \ {"adopt", "waiting"}

LEMMA LaunchSteps ==
  ASSUME LaunchInv, sup = "up", life \in Nat, life' = life,
         \A t \in Steps : Continues(runs[t], runs'[t], t), NEW s \in Steps,
         \A t \in Steps \ {s} : pc'[t] = pc[t] /\ call'[t].n = call[t].n,
         pc'[s] \in Launching => Overtaken(runs[s], call'[s].n, life)
  PROVE  LaunchInv'
<1>1. ASSUME NEW t \in Steps, pc'[t] \in Launching
      PROVE  Overtaken(runs'[t], call'[t].n, life)
  <2>1. Overtaken(runs[t], call'[t].n, life)
    BY <1>1 DEF LaunchInv, Launching
  <2>2. Continues(runs[t], runs'[t], t)
    OBVIOUS
  <2> QED BY <2>1, <2>2, OvertakenStays
<1> QED BY <1>1 DEF LaunchInv, Launching, Overtaken

LEMMA CallLaunches ==
  ASSUME BudgetInv, Remembers(mem, journal), ScopeInv, LaunchInv, NEW s \in Steps, Call(s)
  PROVE  LaunchInv'
<1>0. BookTypeOK /\ mem \in [Steps -> Memory] /\ life \in Nat
  BY DEF BudgetInv, BookTypeOK, Remembers
<1>1. PICK n \in Ids :
        /\ Takes(s, n) /\ call'[s].n = n
        /\ pc'[s] \in {"raised", "hit", "claim", "adopt"}
        /\ pc'[s] = "claim" => Found(mem[s], n) = "fresh"
        /\ \A t \in Steps \ {s} : pc'[t] = pc[t] /\ call'[t] = call[t]
        /\ UNCHANGED <<sup, life>> /\ sup = "up" /\ pc[s] = "idle"
  BY <1>0, CallIs
<1>2. \A t \in Steps : Continues(runs[t], runs'[t], t)
  BY ThreadContinues DEF CallStep
<1>3. pc'[s] \in Launching => pc'[s] = "claim"
  BY <1>1 DEF Launching, Working
<1>4. pc'[s] = "claim" => Overtaken(runs[s], n, life)
  BY <1>0, <1>1, FreshHasNoRun DEF Overtaken
<1> QED BY <1>0, <1>1, <1>2, <1>3, <1>4, LaunchSteps

LEMMA AdoptLaunches ==
  ASSUME BudgetInv, AgeInv, LaunchInv, NEW s \in Steps,
         Adopt(s) \/ WaitEnds(s) \/ WaitTimesOut(s)
  PROVE  LaunchInv'
<1> DEFINE n == call[s].n
           last == Latest(s, n)
<1>0. BookTypeOK /\ life \in Nat
  BY DEF BudgetInv, BookTypeOK
<1>1. \A t \in Steps : Continues(runs[t], runs'[t], t)
  BY ThreadContinues DEF CallStep
<1>2. sup = "up" /\ UNCHANGED <<sup, life, call>>
  BY DEF Adopt, WaitEnds, WaitTimesOut
<1>3. \E to \in {"hit", "claim", "waiting", "raised", "done"} :
        /\ pc' = [pc EXCEPT ![s] = to]
        /\ to = "claim" => last = 0 \/ runs[s][last].phase # "succeeded"
  <2>1. CASE Adopt(s)
    BY <2>1 DEF Adopt, AdoptAnswer, NothingToAdopt
  <2>2. CASE WaitEnds(s)
    BY <2>2 DEF WaitEnds, AdoptAnswer, NothingToAdopt
  <2>3. CASE WaitTimesOut(s)
    BY <2>3 DEF WaitTimesOut, AdoptAnswer
  <2> QED BY <2>1, <2>2, <2>3
<1>4. \A t \in Steps \ {s} : pc'[t] = pc[t]
  BY <1>3
<1>5. ASSUME pc'[s] \in Launching
      PROVE  Overtaken(runs[s], n, life)
  <2>1. last = 0 \/ runs[s][last].phase # "succeeded"
    BY <1>0, <1>3, <1>5 DEF Launching, Working, BookTypeOK
  <2> QED BY <1>0, <2>1, NoAnswerLast
<1> QED BY <1>0, <1>1, <1>2, <1>4, <1>5, LaunchSteps

(* The steps that follow the decision to launch.                           *)
LEMMA WorkLaunches ==
  ASSUME BudgetInv, LaunchInv, NEW s \in Steps,
         \/ CacheHit(s) \/ Claim(s) \/ Charge(s) \/ SaveStatus(s) \/ Start(s) \/ Launch(s)
         \/ ChildReturns(s) \/ ChildTimesOut(s) \/ ChildCancelled(s) \/ Backoff(s)
         \/ ScriptRejects(s)
  PROVE  LaunchInv'
<1>0. BookTypeOK /\ life \in Nat
  BY DEF BudgetInv, BookTypeOK
<1>1. \A t \in Steps : Continues(runs[t], runs'[t], t)
  <2>1. CASE ScriptRejects(s)
    BY <1>0, <2>1, SupervisorContinues
  <2> QED BY <2>1, ThreadContinues DEF CallStep
<1>2. sup = "up" /\ UNCHANGED <<sup, life>>
  BY DEF CacheHit, Claim, Charge, SaveStatus, Start, Launch, ChildReturns, ChildTimesOut,
     ChildCancelled, Backoff, ScriptRejects
<1>3. \A t \in Steps : call'[t].n = call[t].n
  <2>1. CASE Launch(s)
    BY <1>0, <2>1 DEF Launch, BookTypeOK
  <2>2. CASE call' = call
    BY <2>2
  <2> QED BY <2>1, <2>2 DEF CacheHit, Claim, Charge, SaveStatus, Start, ChildReturns,
      ChildTimesOut, ChildCancelled, Backoff, ScriptRejects
<1>4. \E to : pc' = [pc EXCEPT ![s] = to] /\ (to \in Launching => pc[s] \in Launching)
  <2>1. CASE CacheHit(s) \/ Claim(s) \/ Charge(s) \/ SaveStatus(s) \/ Start(s)
    BY <2>1 DEF CacheHit, Claim, Charge, SaveStatus, Start, Journals, Launching, Working
  <2>2. CASE Launch(s) \/ ChildCancelled(s) \/ Backoff(s)
    BY <2>2 DEF Launch, ChildCancelled, Backoff, Launching, Working
  <2>3. CASE ChildReturns(s) \/ ChildTimesOut(s)
    <3>1. pc[s] = "child"
      BY <2>3 DEF ChildReturns, ChildTimesOut
    <3>2. pc' = [pc EXCEPT ![s] = "done"] \/ pc' = [pc EXCEPT ![s] = "backoff"]
      BY <2>3 DEF ChildReturns, ChildTimesOut, FailedAttempt, Finish
    <3> QED BY <3>1, <3>2 DEF Launching, Working
  <2>4. CASE ScriptRejects(s)
    <3> DEFINE to == IF pc[s] = "done" /\ s \in Keyed THEN "idle" ELSE pc[s]
    <3>1. pc' = [pc EXCEPT ![s] = to]
      BY <2>4 DEF ScriptRejects
    <3>2. to \in Launching => pc[s] \in Launching
      BY DEF Launching, Working
    <3> QED BY <3>1, <3>2
  <2> QED BY <2>1, <2>2, <2>3, <2>4
<1>5. /\ \A t \in Steps \ {s} : pc'[t] = pc[t]
      /\ pc'[s] \in Launching => pc[s] \in Launching
  BY <1>0, <1>4 DEF BookTypeOK
<1>6. pc'[s] \in Launching => Overtaken(runs[s], call'[s].n, life)
  BY <1>2, <1>3, <1>5 DEF LaunchInv, Launching
<1> QED BY <1>0, <1>1, <1>2, <1>3, <1>5, <1>6, LaunchSteps

LEMMA ChildStepLaunches ==
  ASSUME BookTypeOK, AgeInv, LaunchInv, NEW s \in Steps, ChildSteps(s)
  PROVE  LaunchInv'
<1> DEFINE rs == runs[s]
<1>1. PICK i \in DOMAIN rs, r \in ChildRuns :
           /\ runs' = [runs EXCEPT ![s] = [rs EXCEPT ![i] = r]]
           /\ r.n = rs[i].n /\ r.life = rs[i].life /\ r.phase \in NextPhases(rs[i].phase)
           /\ r.phase # "registered" => r.ord = rs[i].ord
  BY ChildSteps1
<1>2. UNCHANGED <<sup, life, pc, call>>
  BY DEF ChildSteps
<1>3. /\ \A t \in Steps \ {s} : runs'[t] = runs[t]
      /\ DOMAIN runs'[s] = DOMAIN rs /\ runs'[s][i] = r
      /\ \A j \in DOMAIN rs \ {i} : runs'[s][j] = rs[j]
  BY <1>1 DEF BookTypeOK
<1>4. /\ rs[i].phase \in Alive
      /\ Recorded(rs[i]) => Recorded(r) /\ r.ord = rs[i].ord
  BY <1>1 DEF NextPhases, Alive, Recorded, Unrecorded
<1>5. ASSUME sup = "up", NEW n, Overtaken(rs, n, life)
      PROVE  Overtaken(runs'[s], n, life)
  <2>1. ~(rs[i].life < life)
    BY <1>4, <1>5 DEF AgeInv
  <2> SUFFICES ASSUME NEW k \in DOMAIN rs, runs'[s][k].n = n, runs'[s][k].life < life,
                      runs'[s][k].phase = "succeeded"
               PROVE  \E j \in DOMAIN rs : /\ runs'[s][j].n = n /\ Recorded(runs'[s][j])
                                           /\ runs'[s][j].ord > runs'[s][k].ord
    BY <1>3 DEF Overtaken
  <2>2. k # i
    BY <1>1, <1>3, <2>1
  <2>3. PICK j \in DOMAIN rs : rs[j].n = n /\ Recorded(rs[j]) /\ rs[j].ord > rs[k].ord
    BY <1>3, <1>5, <2>2 DEF Overtaken
  <2> QED BY <1>1, <1>3, <1>4, <2>2, <2>3
<1>6. ASSUME sup = "up", NEW t \in Steps, pc[t] \in Launching
      PROVE  Overtaken(runs'[t], call[t].n, life)
  <2>1. Overtaken(runs[t], call[t].n, life)
    BY <1>6 DEF LaunchInv, Launching
  <2> QED BY <1>3, <1>5, <1>6, <2>1
<1> QED BY <1>2, <1>6 DEF LaunchInv, Launching, Overtaken

LEMMA SupervisorLaunches ==
  ASSUME BookTypeOK, LaunchInv,
         \/ \E s \in Steps : OperatorRejects(s)
         \/ ScriptEnds \/ Signal \/ Crash \/ Resume \/ UNCHANGED vars
  PROVE  LaunchInv'
<1>0. \A t \in Steps : Continues(runs[t], runs'[t], t)
  BY SupervisorContinues
<1>1. \/ sup' # "up" \/ pc' = [s \in Steps |-> "idle"]
      \/ sup = "up" /\ UNCHANGED <<life, pc, call>>
  <2>1. CASE \E s \in Steps : OperatorRejects(s)
    BY <2>1 DEF OperatorRejects
  <2>2. CASE ScriptEnds \/ Crash
    BY <2>2 DEF ScriptEnds, Crash, Gone
  <2>3. CASE Resume
    BY <2>3 DEF Resume, Boots
  <2>4. CASE Signal \/ UNCHANGED vars
    BY <2>4 DEF Signal, vars
  <2> QED BY <2>1, <2>2, <2>3, <2>4
<1>2. CASE pc' = [s \in Steps |-> "idle"]
  BY <1>2 DEF LaunchInv, Working
<1>3. CASE sup = "up" /\ UNCHANGED <<life, pc, call>>
  <2>1. life \in Nat
    BY DEF BookTypeOK
  <2>2. ASSUME NEW t \in Steps, pc'[t] \in Launching
        PROVE  Overtaken(runs'[t], call'[t].n, life)
    <3>1. Overtaken(runs[t], call'[t].n, life)
      BY <1>3, <2>2 DEF LaunchInv, Launching
    <3>2. Continues(runs[t], runs'[t], t)
      BY <1>0
    <3> QED BY <2>1, <3>1, <3>2, OvertakenStays
  <2> QED BY <1>3, <2>2 DEF LaunchInv, Launching, Overtaken
<1> QED BY <1>1, <1>2, <1>3 DEF LaunchInv

LEMMA LaunchInvariant ==
  ASSUME ~LateChildren
  PROVE  Spec => []LaunchInv
<1>1. Init => LaunchInv
  BY DEF Init, LaunchInv, Working
<1>2. ASSUME BudgetInv, ReplayInv, AgeInv, ScopeInv, LaunchInv, [Next]_vars
      PROVE  LaunchInv'
  <2>0. BookTypeOK
    BY <1>2 DEF BudgetInv
  <2>1. CASE \E s \in Steps : Call(s)
    <3>1. sup = "up"
      BY <2>1 DEF Call
    <3> QED BY <1>2, <2>1, <3>1, CallLaunches DEF ReplayInv
  <2>2. CASE \E s \in Steps : Adopt(s) \/ WaitEnds(s) \/ WaitTimesOut(s)
    BY <1>2, <2>2, AdoptLaunches
  <2>3. CASE \E s \in Steps :
          \/ CacheHit(s) \/ Claim(s) \/ Charge(s) \/ SaveStatus(s) \/ Start(s) \/ Launch(s)
          \/ ChildReturns(s) \/ ChildTimesOut(s) \/ ChildCancelled(s) \/ Backoff(s)
          \/ ScriptRejects(s)
    BY <1>2, <2>3, WorkLaunches
  <2>4. CASE \E s \in Steps : ChildSteps(s)
    BY <1>2, <2>0, <2>4, ChildStepLaunches
  <2>5. CASE \/ \E s \in Steps : OperatorRejects(s)
             \/ ScriptEnds \/ Signal \/ Crash \/ Resume \/ UNCHANGED vars
    BY <1>2, <2>0, <2>5, SupervisorLaunches
  <2> QED BY <1>2, <2>1, <2>2, <2>3, <2>4, <2>5 DEF Next, CallStep
<1> QED BY <1>1, <1>2, BudgetInvariant, ReplayInvariant, AgeInvariant, ScopeInvariant, PTL DEF Spec

(* A key whose latest child of an earlier life succeeded is not launched   *)
(* again, when no child registers behind a dead supervisor's back          *)
(* (_adopt_existing_agent_run, the replay lookup of agent, _load_replay).  *)
THEOREM FinishedAreAdopted ==
  ASSUME ~LateChildren
  PROVE  Spec => AdoptsFinished
<1> DEFINE A == \A s \in Steps :
                  LET n == call[s].n
                      i == Latest(s, n)
                  IN Launch(s) /\ i # 0 /\ runs[s][i].life < life
                       => runs[s][i].phase # "succeeded"
<1>1. ASSUME BudgetInv, AgeInv, LaunchInv
      PROVE  A
  <2> SUFFICES ASSUME NEW s \in Steps, Launch(s), Latest(s, call[s].n) # 0,
                      runs[s][Latest(s, call[s].n)].life < life,
                      runs[s][Latest(s, call[s].n)].phase = "succeeded"
               PROVE  FALSE
    OBVIOUS
  <2> DEFINE rs == runs[s]
             n == call[s].n
             last == Latest(s, n)
  <2>1. BookTypeOK /\ rs \in Seq(ChildRuns)
    BY <1>1 DEF BudgetInv, BookTypeOK
  <2>2. sup = "up" /\ pc[s] \in Working \ {"adopt", "waiting"}
    BY DEF Launch, Working
  <2>3. Overtaken(rs, n, life)
    BY <1>1, <2>2 DEF LaunchInv
  <2>4. /\ last \in DOMAIN rs /\ rs[last].n = n
        /\ \A j \in DOMAIN rs : rs[j].n = n /\ Recorded(rs[j]) => rs[j].ord <= rs[last].ord
    BY <1>1, <2>1, LatestIsLast
  <2> HIDE DEF last
  <2>5. PICK j \in DOMAIN rs : rs[j].n = n /\ Recorded(rs[j]) /\ rs[j].ord > rs[last].ord
    BY <2>3, <2>4 DEF Overtaken, last
  <2>6. rs[j] \in ChildRuns /\ rs[last] \in ChildRuns
    BY <2>1, <2>4
  <2>7. rs[j].ord <= rs[last].ord
    BY <2>4, <2>5
  <2> QED BY <2>5, <2>6, <2>7 DEF ChildRuns
<1>2. AdoptsFinished <=> [][A]_vars
  BY DEF AdoptsFinished
<1> HIDE DEF A
<1> QED BY <1>1, <1>2, BudgetInvariant, AgeInvariant, LaunchInvariant, PTL

-----------------------------------------------------------------------------
(* The calls implement StepLedger.  First, what is paid for.               *)

LEMMA ChargedGrows ==
  ASSUME NEW rows \in Seq(Rows), NEW row
  PROVE  Charged(rows) \subseteq Charged(Append(rows, row))
BY DEF Charged

LEMMA ChargesStay ==
  ASSUME BookTypeOK, [Next]_vars
  PROVE  \A t \in Steps : Charged(journal[t]) \subseteq Charged(journal'[t])
<1>1. \/ journal' = journal
      \/ \E s \in Steps : \E row : journal' = [journal EXCEPT ![s] = Append(@, row)]
  <2>1. ASSUME NEW s \in Steps, CallStep(s) \/ ChildTimesOut(s)
        PROVE  \/ journal' = journal
               \/ \E row : journal' = [journal EXCEPT ![s] = Append(@, row)]
    <3>1. CASE \/ Call(s) \/ CacheHit(s) \/ Claim(s) \/ Charge(s) \/ SaveStatus(s) \/ Start(s)
               \/ Launch(s) \/ ChildCancelled(s) \/ Backoff(s)
      BY <3>1 DEF Call, CacheHit, Claim, Charge, SaveStatus, Start, Launch, ChildCancelled,
        Backoff, Journals
    <3>2. CASE Adopt(s) \/ WaitEnds(s) \/ WaitTimesOut(s)
      BY <3>2 DEF Adopt, WaitEnds, WaitTimesOut, AdoptAnswer
    <3>3. CASE ChildReturns(s) \/ ChildTimesOut(s)
      BY <3>3 DEF ChildReturns, ChildTimesOut, FailedAttempt, Finish, Journals
    <3> QED BY <2>1, <3>1, <3>2, <3>3 DEF CallStep
  <2>2. ASSUME NEW s \in Steps, ChildSteps(s) \/ ScriptRejects(s) \/ OperatorRejects(s)
        PROVE  \/ journal' = journal
               \/ \E row : journal' = [journal EXCEPT ![s] = Append(@, row)]
    BY <2>2 DEF ChildSteps, ScriptRejects, OperatorRejects, Journals
  <2>3. CASE ScriptEnds \/ Signal \/ Crash \/ Resume \/ UNCHANGED vars
    BY <2>3 DEF ScriptEnds, Signal, Crash, Resume, Gone, Boots, vars
  <2> QED BY <2>1, <2>2, <2>3 DEF Next
<1>2. ASSUME NEW s \in Steps, NEW row, journal' = [journal EXCEPT ![s] = Append(@, row)]
      PROVE  \A t \in Steps : Charged(journal[t]) \subseteq Charged(journal'[t])
  <2>1. journal[s] \in Seq(Rows) /\ journal \in [Steps -> Seq(Rows)]
    BY DEF BookTypeOK
  <2>2. Charged(journal[s]) \subseteq Charged(Append(journal[s], row))
    BY <2>1, ChargedGrows
  <2> QED BY <1>2, <2>1, <2>2
<1> QED BY <1>1, <1>2

(* The latest run of a key is one of its runs, so the key was paid for.    *)
LEMMA LatestIsPaid ==
  ASSUME BudgetInv, AgeInv, NEW s \in Steps, NEW n, Latest(s, n) # 0
  PROVE  n \in Charged(journal[s])
<1>1. Latest(s, n) \in DOMAIN runs[s] /\ runs[s][Latest(s, n)].n = n
  BY LatestIsLast DEF BudgetInv
<1> QED BY <1>1 DEF BudgetInv

LEMMA WaitNext ==
  ASSUME BudgetInv, AgeInv, WaitInv, [Next]_vars
  PROVE  WaitInv'
<1> SUFFICES ASSUME NEW t \in Steps, pc'[t] = "waiting"
             PROVE  call'[t].n \in Charged(journal'[t])
  BY DEF WaitInv
<1>0. /\ BookTypeOK /\ pc \in [Steps -> CallPcs]
      /\ Charged(journal[t]) \subseteq Charged(journal'[t])
  BY ChargesStay DEF BudgetInv, BookTypeOK
<1>1. CASE pc[t] = "waiting" /\ call'[t] = call[t]
  BY <1>0, <1>1 DEF WaitInv
<1>2. CASE Adopt(t)
  <2>1. CASE pc' # [pc EXCEPT ![t] = "waiting"]
    <3>1. pc' = [pc EXCEPT ![t] = "done"] \/ pc' = [pc EXCEPT ![t] = NothingToAdopt(t)]
      BY <1>2, <2>1 DEF Adopt, AdoptAnswer
    <3> QED BY <1>0, <3>1 DEF NothingToAdopt
  <2>2. CASE pc' = [pc EXCEPT ![t] = "waiting"]
    <3>1. Latest(t, call[t].n) # 0 /\ call' = call
      <4>1. "waiting" \notin {"done", NothingToAdopt(t)}
        BY DEF NothingToAdopt
      <4>2. pc' # [pc EXCEPT ![t] = "done"] /\ pc' # [pc EXCEPT ![t] = NothingToAdopt(t)]
        BY <1>0, <2>2, <4>1
      <4> QED BY <1>2, <4>2 DEF Adopt, AdoptAnswer
    <3> QED BY <1>0, <3>1, LatestIsPaid
  <2> QED BY <2>1, <2>2
<1>3. ASSUME NEW s \in Steps, CallStep(s) \/ ChildTimesOut(s), ~ (s = t /\ Adopt(s))
      PROVE  pc[t] = "waiting" /\ call'[t] = call[t]
  <2>1. CASE s = t
    BY <1>0, <1>3, <2>1 DEF CallStep, Call, CacheHit, WaitEnds, WaitTimesOut, AdoptAnswer,
      NothingToAdopt, Claim, Charge, SaveStatus, Start, Launch, ChildReturns, ChildTimesOut,
      FailedAttempt, Finish, ChildCancelled, Backoff
  <2>2. CASE s # t
    BY <1>0, <1>3, <2>2 DEF CallStep, Call, CacheHit, Adopt, WaitEnds, WaitTimesOut,
      AdoptAnswer, NothingToAdopt, Claim, Charge, SaveStatus, Start, Launch, ChildReturns,
      ChildTimesOut, FailedAttempt, Finish, ChildCancelled, Backoff, BookTypeOK
  <2> QED BY <2>1, <2>2
<1>4. ASSUME NEW s \in Steps, ChildSteps(s) \/ ScriptRejects(s) \/ OperatorRejects(s)
      PROVE  pc[t] = "waiting" /\ call'[t] = call[t]
  BY <1>0, <1>4 DEF ChildSteps, ScriptRejects, OperatorRejects
<1>5. CASE ScriptEnds \/ Crash
  BY <1>5 DEF ScriptEnds, Crash, Gone
<1>6. CASE Signal \/ Resume \/ UNCHANGED vars
  BY <1>1, <1>6 DEF Signal, Resume, Boots, vars
<1> QED BY <1>1, <1>2, <1>3, <1>4, <1>5, <1>6 DEF Next

LEMMA WaitInvariant ==
  ASSUME ~LateChildren
  PROVE  Spec => []WaitInv
<1>1. Init => WaitInv
  BY DEF Init, WaitInv
<1>2. BudgetInv /\ AgeInv /\ WaitInv /\ [Next]_vars => WaitInv'
  BY WaitNext
<1> QED BY <1>1, <1>2, BudgetInvariant, AgeInvariant, PTL DEF Spec

(* Then, who is at work.                                                   *)
LEMMA AtMostOne ==
  ASSUME NEW S, NEW x, S \subseteq {x}
  PROVE  Cardinality(S) = IF S = {} THEN 0 ELSE 1
<1>1. S = {} \/ S = {x}
  OBVIOUS
<1> QED BY <1>1, FS_EmptySet, FS_Singleton

LEMMA AgentsCounted ==
  ASSUME ChildInv, NEW t \in Steps
  PROVE  Cardinality(AtWork(runs[t])) = IF AtWork(runs[t]) = {} THEN 0 ELSE 1
<1>1. AtWork(runs[t]) \subseteq {Child(t)}
  BY DEF ChildInv, AtWork
<1> QED BY <1>1, AtMostOne

(* No step but a launch puts an agent to work.                             *)
LEMMA CalmAgents ==
  ASSUME NEW rs \in Seq(ChildRuns), NEW K, NEW quiet \in BOOLEAN
  PROVE  AtWork(CancelRuns(rs, K, quiet)) \subseteq AtWork(rs)
BY CancelCalms DEF AtWork

LEMMA NoNewAgents ==
  ASSUME BudgetInv, ChildInv', [Next]_vars, \A s \in Steps : ~ Launch(s)
  PROVE  \A t \in Steps : AtWork(runs'[t]) \subseteq AtWork(runs[t])
<1>0. BookTypeOK /\ runs \in [Steps -> Seq(ChildRuns)] /\ pc \in [Steps -> CallPcs]
  BY DEF BudgetInv, BookTypeOK
<1>1. ASSUME NEW s \in Steps, CallStep(s) \/ ChildTimesOut(s), NEW t \in Steps
      PROVE  AtWork(runs'[t]) \subseteq AtWork(runs[t])
  <2>1. Continues(runs[t], runs'[t], t)
    BY <1>1, ThreadContinues
  <2>2. CASE pc'[t] = "child"
    <3>1. pc[t] = "child"
      <4> DEFINE Moves == \E to \in CallPcs \ {"child"} : pc' = [pc EXCEPT ![s] = to]
      <4> SUFFICES Moves
        BY <1>0, <2>2
      <4>1. CASE Call(s)
        <5>1. \E to \in {"raised", "hit", "claim", "adopt"} : pc' = [pc EXCEPT ![s] = to]
          BY <4>1 DEF Call
        <5> QED BY <5>1 DEF CallPcs
      <4>2. CASE Adopt(s) \/ WaitEnds(s) \/ WaitTimesOut(s)
        <5>1. \E to \in {"done", "hit", "claim", "waiting", "raised"} : pc' = [pc EXCEPT ![s] = to]
          BY <4>2 DEF Adopt, WaitEnds, WaitTimesOut, AdoptAnswer, NothingToAdopt
        <5> QED BY <5>1 DEF CallPcs
      <4>3. CASE ChildReturns(s) \/ ChildTimesOut(s)
        BY <4>3 DEF ChildReturns, ChildTimesOut, FailedAttempt, Finish, CallPcs
      <4>4. CASE \/ CacheHit(s) \/ Claim(s) \/ Charge(s) \/ SaveStatus(s) \/ Start(s)
                 \/ ChildCancelled(s) \/ Backoff(s)
        BY <4>4 DEF CacheHit, Claim, Charge, SaveStatus, Start, ChildCancelled, Backoff, CallPcs
      <4> QED BY <1>1, <4>1, <4>2, <4>3, <4>4 DEF CallStep
    <3> QED BY <2>1, <3>1 DEF Continues, AtWork
  <2>3. CASE pc'[t] # "child"
    <3>1. sup' = "up"
      BY <1>1 DEF CallStep, Call, CacheHit, Adopt, WaitEnds, WaitTimesOut, Claim, Charge,
         SaveStatus, Start, ChildReturns, ChildTimesOut, ChildCancelled, Backoff
    <3> QED BY <2>3, <3>1 DEF ChildInv, AtWork
  <2> QED BY <2>2, <2>3
<1>2. ASSUME NEW s \in Steps, ChildSteps(s)
      PROVE  \A t \in Steps : AtWork(runs'[t]) \subseteq AtWork(runs[t])
  <2>1. PICK i \in DOMAIN runs[s], r \in ChildRuns :
          /\ runs' = [runs EXCEPT ![s] = [runs[s] EXCEPT ![i] = r]]
          /\ r.phase \in NextPhases(runs[s][i].phase)
    BY <1>0, <1>2, ChildSteps1
  <2>2. runs[s][i].phase \in Alive
    BY <2>1 DEF NextPhases, Alive
  <2>3. AtWork([runs[s] EXCEPT ![i] = r]) \subseteq AtWork(runs[s])
    BY <1>0, <2>2 DEF AtWork
  <2> QED BY <1>0, <2>1, <2>3
<1>3. CASE \/ runs' = runs
           \/ \E quiet \in BOOLEAN : runs' = [t \in Steps |-> CancelRuns(runs[t], Ids, quiet)]
  BY <1>0, <1>3, CalmAgents
<1>4. CASE \/ \E s \in Steps : ScriptRejects(s) \/ OperatorRejects(s)
           \/ ScriptEnds \/ Signal \/ Crash \/ Resume \/ UNCHANGED vars
  BY <1>3, <1>4 DEF ScriptRejects, OperatorRejects, ScriptEnds, Signal, Crash, Resume, vars
<1> QED BY <1>1, <1>2, <1>4 DEF Next

-----------------------------------------------------------------------------
(* What a step of the calls is in the ledger.                              *)

LedgerVars == <<ChargedKeys, [s \in Steps |-> Cardinality(AtWork(runs[s]))], AnsweredSteps>>

LEMMA RestMaps ==
  ASSUME ChildInv, ChildInv', ChargedKeys' = ChargedKeys, AnsweredSteps' = AnsweredSteps,
         \A t \in Steps : AtWork(runs'[t]) \subseteq AtWork(runs[t])
  PROVE  Ledger!Next
<1> DEFINE S == {t \in Steps : AtWork(runs'[t]) = {}}
           before == [s \in Steps |-> Cardinality(AtWork(runs[s]))]
           after == [s \in Steps |-> Cardinality(AtWork(runs'[s]))]
<1>1. ASSUME NEW t \in Steps
      PROVE  after[t] = IF t \in S THEN 0 ELSE before[t]
  <2>1. Cardinality(AtWork(runs[t])) = IF AtWork(runs[t]) = {} THEN 0 ELSE 1
    BY AgentsCounted
  <2>2. Cardinality(AtWork(runs'[t])) = IF AtWork(runs'[t]) = {} THEN 0 ELSE 1
    <3>1. AtWork(runs'[t]) \subseteq {Len(runs'[t])}
      BY DEF ChildInv, AtWork, Child
    <3> QED BY <3>1, AtMostOne
  <2> QED BY <2>1, <2>2
<1>2. after = [s \in Steps |-> IF s \in S THEN 0 ELSE before[s]]
  BY <1>1
<1>3. S \in SUBSET Steps
  OBVIOUS
<1>4. Ledger!Rest(S)
  BY <1>2 DEF Ledger!Rest
<1> QED BY <1>3, <1>4 DEF Ledger!Next

LEMMA WorkMaps ==
  ASSUME BudgetInv, ChildInv, ChildInv', SettleInv, NEW s \in Steps, Launch(s)
  PROVE  Ledger!Next
<1> DEFINE before == [t \in Steps |-> Cardinality(AtWork(runs[t]))]
           after == [t \in Steps |-> Cardinality(AtWork(runs'[t]))]
           r == [n |-> call[s].n, life |-> life, phase |-> "starting", ord |-> 0]
<1>0. /\ runs \in [Steps -> Seq(ChildRuns)] /\ call[s].n \in Ids
      /\ journal' = journal /\ runs' = [runs EXCEPT ![s] = Append(@, r)]
  BY DEF BudgetInv, BookTypeOK, Launch
<1>1. call[s].n \in Charged(journal[s])
  BY DEF BudgetInv, Launch
<1>2. Ledger!Paid(s)
  BY <1>0, <1>1 DEF Ledger!Paid, ChargedKeys
<1>3. before[s] = 0 /\ s \notin AnsweredSteps
  <2>1. AtWork(runs[s]) = {}
    BY DEF ChildInv, Launch, AtWork
  <2>2. s \in Keyed => Answers(journal[s]) = {}
    BY DEF SettleInv, Launch, Working
  <2> QED BY <2>1, <2>2, FS_EmptySet DEF AnsweredSteps
<1>4. after[s] = 1
  <2>1. runs'[s] = Append(runs[s], r)
    BY <1>0
  <2>2. Len(runs'[s]) \in AtWork(runs'[s])
    BY <1>0, <2>1 DEF AtWork, Alive
  <2>3. AtWork(runs'[s]) \subseteq {Len(runs'[s])}
    BY DEF ChildInv, AtWork, Child
  <2> QED BY <2>2, <2>3, AtMostOne
<1>5. after = [before EXCEPT ![s] = 1]
  <2>1. \A t \in Steps \ {s} : runs'[t] = runs[t]
    BY <1>0
  <2> QED BY <1>4, <2>1
<1>6. ChargedKeys' = ChargedKeys /\ AnsweredSteps' = AnsweredSteps
  BY <1>0 DEF ChargedKeys, AnsweredSteps
<1>7. Ledger!Work(s)
  BY <1>2, <1>3, <1>5, <1>6 DEF Ledger!Work
<1> QED BY <1>7 DEF Ledger!Next

LEMMA SameElements ==
  ASSUME NEW S, NEW s \in S, NEW A \in SUBSET S, NEW B \in SUBSET S,
         \A t \in S \ {s} : t \in A <=> t \in B, s \in A <=> s \in B
  PROVE  A = B
<1>1. \A t \in S : t \in A <=> t \in B
  OBVIOUS
<1>2. \A t : t \in A <=> t \in B
  BY <1>1
<1> QED BY <1>2

(* A row charges a key, answers a step, rejects an answer, or leaves the   *)
(* books as they are.                                                      *)
LEMMA BookedRow ==
  ASSUME BookTypeOK, NEW s \in Steps, NEW row \in Rows,
         journal' = [journal EXCEPT ![s] = Append(@, row)]
  PROVE  /\ ChargedKeys' = ChargedKeys \cup IF row.type = "budget" THEN {<<s, row.n>>} ELSE {}
         /\ row.type \in {"budget", "started", "exhausted"} => AnsweredSteps' = AnsweredSteps
         /\ row.type = "finished" =>
              AnsweredSteps' = AnsweredSteps \cup (IF s \in Keyed THEN {s} ELSE {})
         /\ row.type = "rejected" => AnsweredSteps' \in {AnsweredSteps, AnsweredSteps \ {s}}
<1> DEFINE old == journal[s]
           new == Append(old, row)
<1>1. /\ old \in Seq(Rows) /\ journal'[s] = new /\ row.n \in Ids
      /\ \A t \in Steps \ {s} : journal'[t] = journal[t]
  BY DEF BookTypeOK, Rows
<1>2. Charged(new) = Charged(old) \cup IF row.type = "budget" THEN {row.n} ELSE {}
  BY <1>1, ChargedAppend
<1>3. /\ row.type \in {"budget", "started", "exhausted"} => Answers(new) = Answers(old)
      /\ row.type = "finished" => Answers(new) = Answers(old) \cup {Len(old) + 1}
      /\ row.type = "rejected" => Answers(new) \subseteq Answers(old)
  <2>1. /\ row.type \notin {"finished", "rejected"} => Answers(new) = Answers(old)
        /\ row.type = "finished" => Answers(new) = Answers(old) \cup {Len(old) + 1}
        /\ row.type = "rejected" => Answers(new) = {i \in Answers(old) : old[i].n # row.n}
    BY <1>1, AnswersAppend
  <2> QED BY <2>1
<1> HIDE DEF old, new
<1>4. ChargedKeys' = ChargedKeys \cup IF row.type = "budget" THEN {<<s, row.n>>} ELSE {}
  <2>1. \A k \in Steps \X Ids : k = <<k[1], k[2]>> /\ k[1] \in Steps /\ k[2] \in Ids
    OBVIOUS
  <2>2. \A k \in Steps \X Ids : k[2] \in Charged(journal'[k[1]]) <=>
          k[2] \in Charged(journal[k[1]]) \/ (row.type = "budget" /\ k = <<s, row.n>>)
    BY <1>1, <1>2, <2>1 DEF old, new
  <2>3. <<s, row.n>> \in Steps \X Ids
    BY <1>1
  <2> QED BY <2>2, <2>3 DEF ChargedKeys
<1>5. \A t \in Steps \ {s} : t \in AnsweredSteps' <=> t \in AnsweredSteps
  BY <1>1 DEF AnsweredSteps
<1>6. /\ s \in AnsweredSteps' <=> s \in Keyed /\ Answers(new) # {}
      /\ s \in AnsweredSteps <=> s \in Keyed /\ Answers(old) # {}
  BY <1>1 DEF AnsweredSteps, old
<1>7. AnsweredSteps \subseteq Steps /\ AnsweredSteps' \subseteq Steps
  BY CallsAssumption DEF AnsweredSteps
<1>8. row.type \in {"budget", "started", "exhausted"} => AnsweredSteps' = AnsweredSteps
  <2>1. row.type \in {"budget", "started", "exhausted"} =>
          (s \in AnsweredSteps' <=> s \in AnsweredSteps)
    BY <1>3, <1>6
  <2>2. ASSUME s \in AnsweredSteps' <=> s \in AnsweredSteps
        PROVE  AnsweredSteps' = AnsweredSteps
    BY <1>5, <1>7, <2>2, SameElements
  <2> QED BY <2>1, <2>2
<1>9. row.type = "finished" =>
        AnsweredSteps' = AnsweredSteps \cup (IF s \in Keyed THEN {s} ELSE {})
  <2>1. row.type = "finished" => (s \in AnsweredSteps' <=> s \in Keyed)
    BY <1>3, <1>6
  <2>2. s \in AnsweredSteps => s \in Keyed
    BY <1>6
  <2> QED BY <1>5, <1>7, <2>1, <2>2
<1>10. row.type = "rejected" => AnsweredSteps' \in {AnsweredSteps, AnsweredSteps \ {s}}
  <2>1. row.type = "rejected" => (s \in AnsweredSteps' => s \in AnsweredSteps)
    BY <1>3, <1>6
  <2>2. ASSUME row.type = "rejected", s \in AnsweredSteps'
        PROVE  AnsweredSteps' = AnsweredSteps
    BY <1>5, <1>7, <2>1, <2>2, SameElements
  <2>3. ASSUME s \notin AnsweredSteps'
        PROVE  AnsweredSteps' = AnsweredSteps \ {s}
    BY <1>5, <1>7, <2>3
  <2> QED BY <2>2, <2>3
<1> QED BY <1>4, <1>8, <1>9, <1>10

LEMMA SameJournal ==
  ASSUME journal' = journal
  PROVE  ChargedKeys' = ChargedKeys /\ AnsweredSteps' = AnsweredSteps
BY DEF ChargedKeys, AnsweredSteps

(* The ledger counts as the calls do.                                      *)
LEMMA SameCount ==
  ASSUME NEW S
  PROVE  Ledger!Cardinality(S) = Cardinality(S)
BY DEF Ledger!Cardinality, Cardinality

LEMMA PayMaps ==
  ASSUME BudgetInv, BudgetInv', NEW s \in Steps, Charge(s)
  PROVE  [Ledger!Next]_LedgerVars
<1> DEFINE k == <<s, call[s].n>>
           row == Row("budget", call[s].n, "missing")
<1>1. /\ BookTypeOK /\ call[s].n \in Ids /\ runs' = runs /\ row \in Rows
      /\ row.type = "budget" /\ row.n = call[s].n
      /\ journal' = [journal EXCEPT ![s] = Append(@, row)]
  BY RowTypes DEF BudgetInv, BookTypeOK, Charge, Results, Row
<1> HIDE DEF row
<1>2. ChargedKeys' = ChargedKeys \cup {k} /\ AnsweredSteps' = AnsweredSteps
  BY <1>1, BookedRow
<1>3. CASE k \in ChargedKeys
  BY <1>1, <1>2, <1>3 DEF LedgerVars
<1>4. CASE k \notin ChargedKeys
  <2>1. IsFiniteSet(ChargedKeys) /\ Cardinality(ChargedKeys) \in Nat
    BY KeysFinite, FS_Subset, FS_CardinalityType DEF ChargedKeys
  <2>2. Cardinality(ChargedKeys \cup {k}) = Cardinality(ChargedKeys) + 1
    BY <1>4, <2>1, FS_AddElement
  <2>3. Cardinality(ChargedKeys \cup {k}) <= Total
    BY <1>2 DEF BudgetInv
  <2>4. Cardinality(ChargedKeys) < Total
    BY <2>1, <2>2, <2>3, CallsAssumption
  <2>5. [t \in Steps |-> Cardinality(AtWork(runs'[t]))] = [t \in Steps |-> Cardinality(AtWork(runs[t]))]
    BY <1>1
  <2> HIDE DEF k
  <2>6. Ledger!Pay(k)
    BY <1>2, <1>4, <2>4, <2>5, SameCount DEF Ledger!Pay
  <2>7. k \in Steps \X Ids
    BY <1>1 DEF k
  <2> QED BY <2>6, <2>7 DEF Ledger!Next
<1> QED BY <1>3, <1>4

LEMMA RejectMaps ==
  ASSUME BudgetInv, NEW s \in Steps, ScriptRejects(s) \/ OperatorRejects(s)
  PROVE  [Ledger!Next]_LedgerVars
<1>1. BookTypeOK /\ runs' = runs
  BY DEF BudgetInv, ScriptRejects, OperatorRejects
<1>2. PICK n \in Ids : journal' = [journal EXCEPT ![s] = Append(@, Row("rejected", n, "missing"))]
  <2>1. CASE ScriptRejects(s)
    BY <1>1, <2>1 DEF ScriptRejects, Journals, BookTypeOK
  <2>2. CASE OperatorRejects(s)
    <3>1. PICK i \in DOMAIN journal[s] :
            journal' = [journal EXCEPT ![s] = Append(@, Row("rejected", journal[s][i].n, "missing"))]
      BY <2>2 DEF OperatorRejects
    <3>2. journal[s] \in Seq(Rows)
      BY <1>1 DEF BookTypeOK
    <3>3. journal[s][i] \in Rows
      BY <3>2
    <3> QED BY <3>1, <3>3 DEF Rows
  <2> QED BY <2>1, <2>2
<1> DEFINE row == Row("rejected", n, "missing")
<1>3. row \in Rows /\ row.type = "rejected"
  BY RowTypes DEF Results
<1>4. journal' = [journal EXCEPT ![s] = Append(@, row)]
  BY <1>2
<1> HIDE DEF row
<1>5. ChargedKeys' = ChargedKeys /\ AnsweredSteps' \in {AnsweredSteps, AnsweredSteps \ {s}}
  BY <1>1, <1>3, <1>4, BookedRow
<1>6. CASE AnsweredSteps' = AnsweredSteps
  BY <1>1, <1>5, <1>6 DEF LedgerVars
<1>7. CASE AnsweredSteps' # AnsweredSteps
  <2>1. s \in AnsweredSteps /\ s \in Keyed
    BY <1>5, <1>7 DEF AnsweredSteps
  <2>2. Ledger!Reject(s)
    BY <1>1, <1>5, <1>7, <2>1 DEF Ledger!Reject
  <2> QED BY <2>1, <2>2 DEF Ledger!Next
<1> QED BY <1>6, <1>7

(* A finished row, of a call that found no answer and left no agent.       *)
LEMMA AnswerMaps ==
  ASSUME BudgetInv, ChildInv', SettleInv, NEW s \in Steps, NEW result \in {"answer", "none"},
         journal' = [journal EXCEPT ![s] = Append(@, Row("finished", call[s].n, result))],
         sup' = "up", pc[s] \in Working, pc'[s] = "done", call[s].n \in Charged(journal[s]),
         AtWork(runs[s]) = {}, \A t \in Steps \ {s} : runs'[t] = runs[t]
  PROVE  [Ledger!Next]_LedgerVars
<1> DEFINE row == Row("finished", call[s].n, result)
<1>1. BookTypeOK /\ call[s].n \in Ids /\ row \in Rows /\ row.type = "finished"
  BY RowTypes DEF BudgetInv, BookTypeOK, Results
<1> HIDE DEF row
<1>2. /\ ChargedKeys' = ChargedKeys
      /\ AnsweredSteps' = AnsweredSteps \cup (IF s \in Keyed THEN {s} ELSE {})
  <2>1. journal' = [journal EXCEPT ![s] = Append(@, row)]
    BY DEF row
  <2> QED BY <1>1, <2>1, BookedRow
<1>3. \A t \in Steps : AtWork(runs'[t]) = AtWork(runs[t])
  <2>1. AtWork(runs'[s]) = {}
    BY DEF ChildInv, AtWork
  <2> QED BY <2>1
<1>4. [t \in Steps |-> Cardinality(AtWork(runs'[t]))] = [t \in Steps |-> Cardinality(AtWork(runs[t]))]
  BY <1>3
<1>5. CASE s \notin Keyed
  BY <1>2, <1>4, <1>5 DEF LedgerVars
<1>6. CASE s \in Keyed
  <2>1. s \notin AnsweredSteps
    BY <1>6 DEF SettleInv, AnsweredSteps
  <2>2. Ledger!Paid(s)
    BY <1>1 DEF Ledger!Paid, ChargedKeys
  <2>3. Cardinality(AtWork(runs[s])) = 0
    BY FS_EmptySet
  <2>4. Ledger!Answer(s)
    BY <1>2, <1>4, <1>6, <2>1, <2>2, <2>3 DEF Ledger!Answer
  <2> QED BY <1>6, <2>4 DEF Ledger!Next
<1> QED BY <1>5, <1>6

(* A step that writes no row, or one the books do not see.                 *)
LEMMA QuietMaps ==
  ASSUME BudgetInv, ChildInv, ChildInv', [Next]_vars, \A s \in Steps : ~ Launch(s),
         \/ journal' = journal
         \/ \E s \in Steps : \E row \in Rows :
              /\ row.type \in {"started", "exhausted"}
              /\ journal' = [journal EXCEPT ![s] = Append(@, row)]
  PROVE  Ledger!Next
<1>1. ChargedKeys' = ChargedKeys /\ AnsweredSteps' = AnsweredSteps
  <2>1. CASE journal' = journal
    BY <2>1, SameJournal
  <2>2. ASSUME NEW s \in Steps, NEW row \in Rows, row.type \in {"started", "exhausted"},
               journal' = [journal EXCEPT ![s] = Append(@, row)]
        PROVE  ChargedKeys' = ChargedKeys /\ AnsweredSteps' = AnsweredSteps
    <3>1. BookTypeOK
      BY DEF BudgetInv
    <3> QED BY <2>2, <3>1, BookedRow
  <2> QED BY <2>1, <2>2
<1>2. \A t \in Steps : AtWork(runs'[t]) \subseteq AtWork(runs[t])
  BY NoNewAgents
<1> QED BY <1>1, <1>2, RestMaps

(* An answer taken over from a child that is not at work any more.         *)
LEMMA AdoptMaps ==
  ASSUME BudgetInv, AgeInv, ChildInv, ChildInv', SettleInv, WaitInv, NEW s \in Steps,
         Adopt(s) \/ WaitEnds(s) \/ WaitTimesOut(s), journal' # journal
  PROVE  [Ledger!Next]_LedgerVars
<1>1. /\ pc[s] \in {"adopt", "waiting"} /\ sup' = "up" /\ pc'[s] = "done"
      /\ \A t \in Steps \ {s} : runs'[t] = runs[t]
  BY DEF Adopt, WaitEnds, WaitTimesOut, AdoptAnswer, BudgetInv, BookTypeOK
<1>2. \E result \in {"answer", "none"} :
        journal' = [journal EXCEPT ![s] = Append(@, Row("finished", call[s].n, result))]
  BY DEF Adopt, WaitEnds, WaitTimesOut, AdoptAnswer
<1>3. call[s].n \in Charged(journal[s])
  <2>1. CASE pc[s] = "waiting"
    BY <2>1 DEF WaitInv
  <2>2. CASE Adopt(s)
    <3>1. Latest(s, call[s].n) # 0
      BY <2>2 DEF Adopt
    <3> QED BY <3>1, LatestIsPaid
  <2> QED BY <2>1, <2>2 DEF WaitEnds, WaitTimesOut
<1>4. AtWork(runs[s]) = {}
  <2>1. sup = "up" /\ pc[s] # "child"
    BY <1>1 DEF Adopt, WaitEnds, WaitTimesOut
  <2> QED BY <2>1 DEF ChildInv, AtWork
<1>5. pc[s] \in Working
  BY <1>1 DEF Working
<1> QED BY <1>1, <1>2, <1>3, <1>4, <1>5, AnswerMaps

(* The answer of the call's own child.                                     *)
LEMMA ReturnMaps ==
  ASSUME BudgetInv, ChildInv, ChildInv', SettleInv, NEW s \in Steps,
         ChildReturns(s), Phase(s) = "succeeded"
  PROVE  [Ledger!Next]_LedgerVars
<1>1. /\ pc[s] = "child" /\ sup' = "up" /\ runs' = runs /\ pc'[s] = "done"
      /\ journal' = [journal EXCEPT ![s] = Append(@, Row("finished", call[s].n, "answer"))]
  BY DEF ChildReturns, Finish, Journals, BudgetInv, BookTypeOK
<1>2. call[s].n \in Charged(journal[s]) /\ pc[s] \in Working
  BY <1>1 DEF BudgetInv, Working
<1>3. AtWork(runs[s]) = {}
  <2>1. Phase(s) \notin Alive
    BY DEF Alive
  <2>2. \A i \in AtWork(runs[s]) : i = Child(s) /\ runs[s][i].phase \in Alive
    BY DEF ChildInv, AtWork
  <2> QED BY <2>1, <2>2 DEF Phase
<1> QED BY <1>1, <1>2, <1>3, AnswerMaps

(* Every other step: what it writes, if it writes.                         *)
Quietly ==
  \/ journal' = journal
  \/ \E s \in Steps : \E row \in Rows :
       /\ row.type \in {"started", "exhausted"}
       /\ journal' = [journal EXCEPT ![s] = Append(@, row)]

LEMMA QuietRow ==
  ASSUME BookTypeOK, NEW s \in Steps, NEW type \in {"started", "exhausted"},
         NEW result \in Results,
         journal' = [journal EXCEPT ![s] = Append(@, Row(type, call[s].n, result))]
  PROVE  Quietly
<1>1. call[s].n \in Ids
  BY DEF BookTypeOK
<1>2. Row(type, call[s].n, result) \in Rows /\ Row(type, call[s].n, result).type = type
  BY <1>1, RowTypes DEF Row
<1> DEFINE row == Row(type, call[s].n, result)
<1> HIDE DEF row
<1>3. row \in Rows /\ row.type = type /\ journal' = [journal EXCEPT ![s] = Append(@, row)]
  BY <1>2 DEF row
<1> QED BY <1>3 DEF Quietly

LEMMA QuietSteps ==
  ASSUME BookTypeOK, NEW s \in Steps,
         \/ Call(s) \/ CacheHit(s) \/ Claim(s) \/ SaveStatus(s) \/ Start(s) \/ ChildTimesOut(s)
         \/ ChildCancelled(s) \/ Backoff(s) \/ ChildSteps(s)
         \/ ChildReturns(s) /\ Phase(s) # "succeeded"
  PROVE  Quietly
<1>1. CASE \/ Call(s) \/ CacheHit(s) \/ Claim(s) \/ SaveStatus(s) \/ ChildCancelled(s)
           \/ Backoff(s) \/ ChildSteps(s)
  BY <1>1 DEF Call, CacheHit, Claim, SaveStatus, ChildCancelled, Backoff, ChildSteps, Quietly
<1>2. CASE Start(s)
  <2>1. \/ journal' = journal
        \/ journal' = [journal EXCEPT ![s] = Append(@, Row("started", call[s].n, "missing"))]
    BY <1>2 DEF Start, Journals
  <2> QED BY <2>1, QuietRow DEF Quietly, Results
<1>3. CASE ChildTimesOut(s) \/ (ChildReturns(s) /\ Phase(s) # "succeeded")
  <2>1. \/ journal' = journal
        \/ journal' = [journal EXCEPT ![s] = Append(@, Row("exhausted", call[s].n, "none"))]
    BY <1>3 DEF ChildTimesOut, ChildReturns, FailedAttempt, Finish, Journals
  <2> QED BY <2>1, QuietRow DEF Quietly, Results
<1> QED BY <1>1, <1>2, <1>3

LEMMA LedgerNext ==
  ASSUME BudgetInv, BudgetInv', AgeInv, ChildInv, ChildInv', SettleInv, WaitInv, [Next]_vars
  PROVE  [Ledger!Next]_LedgerVars
<1>0. BookTypeOK
  BY DEF BudgetInv
<1>1. CASE \E s \in Steps : Launch(s)
  BY <1>1, WorkMaps
<1>2. CASE \A s \in Steps : ~ Launch(s)
  <2>1. Quietly => Ledger!Next
    BY <1>2, QuietMaps DEF Quietly
  <2>2. ASSUME NEW s \in Steps, CallStep(s) \/ ChildTimesOut(s)
        PROVE  [Ledger!Next]_LedgerVars
    <3>1. CASE Charge(s)
      BY <3>1, PayMaps
    <3>2. CASE Adopt(s) \/ WaitEnds(s) \/ WaitTimesOut(s)
      <4>1. CASE journal' # journal
        BY <3>2, <4>1, AdoptMaps
      <4> QED BY <2>1, <4>1 DEF Quietly
    <3>3. CASE ChildReturns(s) /\ Phase(s) = "succeeded"
      BY <3>3, ReturnMaps
    <3> QED BY <1>0, <1>2, <2>1, <2>2, <3>1, <3>2, <3>3, QuietSteps DEF CallStep
  <2>3. ASSUME NEW s \in Steps, ScriptRejects(s) \/ OperatorRejects(s)
        PROVE  [Ledger!Next]_LedgerVars
    BY <2>3, RejectMaps
  <2>4. CASE \/ \E s \in Steps : ChildSteps(s)
             \/ ScriptEnds \/ Signal \/ Crash \/ Resume \/ UNCHANGED vars
    <3>1. CASE ScriptEnds \/ Signal \/ Crash \/ Resume \/ UNCHANGED vars
      BY <2>1, <3>1 DEF ScriptEnds, Signal, Crash, Resume, Gone, Boots, vars, Quietly
    <3> QED BY <1>0, <2>1, <2>4, <3>1, QuietSteps
  <2> QED BY <2>2, <2>3, <2>4 DEF Next
<1> QED BY <1>1, <1>2

LEMMA LedgerInit ==
  ASSUME Init
  PROVE  Ledger!Init
<1>1. \A s \in Steps : journal[s] = <<>> /\ runs[s] = <<>>
  BY DEF Init
<1>2. ChargedKeys = {}
  <2>1. Charged(<<>>) = {}
    BY DEF Charged
  <2> QED BY <1>1, <2>1 DEF ChargedKeys
<1>3. AnsweredSteps = {}
  BY <1>1, EmptySettled, CallsAssumption DEF AnsweredSteps
<1>4. \A s \in Steps : Cardinality(AtWork(runs[s])) = 0
  <2>1. AtWork(<<>>) = {}
    BY DEF AtWork
  <2> QED BY <1>1, <2>1, FS_EmptySet
<1> QED BY <1>2, <1>3, <1>4 DEF Ledger!Init

(* The supervisor's threads and its successors keep the promises of the    *)
(* ledger, when no child registers behind a dead supervisor's back: a step *)
(* is paid for before an agent works on it, by one agent at a time, within *)
(* the budget, and a keyed step's answer stands, unworked, until it is     *)
(* rejected (agent, Budget, append_event, _load_replay,                    *)
(* _adopt_existing_agent_run, reject_workflow_step).                       *)
THEOREM CallsImplementLedger ==
  ASSUME ~LateChildren
  PROVE  Spec => ImplementsLedger
<1>1. Init => Ledger!Init
  BY LedgerInit
<1>2. /\ BudgetInv /\ BudgetInv' /\ AgeInv /\ ChildInv /\ ChildInv' /\ SettleInv /\ WaitInv
      /\ [Next]_vars
      => [Ledger!Next]_LedgerVars
  BY LedgerNext
<1> QED BY <1>1, <1>2, BudgetInvariant, AgeInvariant, ChildInvariant, SettleInvariant,
       WaitInvariant, PTL DEF Spec, ImplementsLedger, Ledger!Spec, LedgerVars
=============================================================================
