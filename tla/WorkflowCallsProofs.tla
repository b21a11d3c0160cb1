------------------------ MODULE WorkflowCallsProofs ------------------------
(***************************************************************************)
(* WorkflowCalls for every set of steps, any budget and any bounds: the    *)
(* keys given a child were charged first and are within the budget; and    *)
(* where every child registers while its supervisor lives, no step ever    *)
(* has two children at work, and a supervisor that ends by itself none.    *)
(***************************************************************************)
EXTENDS WorkflowCalls, FiniteSetTheorems, TLAPS

LEMMA Bounds ==
  /\ Total \in Nat /\ Lives \in Nat \ {0} /\ Rejections \in Nat /\ Lives \in Ids /\ 0 \in Ids
  /\ Ids \subseteq Nat
BY CallsAssumption DEF Ids, Biggest

(* A step has finitely many keys, and so has the workflow.                 *)
LEMMA KeysFinite == IsFiniteSet(Steps \X Ids)
<1>1. IsFiniteSet(Ids)
  BY Bounds, CallsAssumption, FS_Interval DEF Ids, Biggest
<1> QED BY <1>1, CallsAssumption, FS_Product

(* Appending a row charges its key when it is a budget row, else nothing.  *)
LEMMA ChargedAppend ==
  ASSUME NEW q \in Seq(Rows), NEW row \in Rows
  PROVE  /\ Append(q, row) \in Seq(Rows)
         /\ Charged(Append(q, row)) =
              Charged(q) \cup IF row.type = "budget" THEN {row.n} ELSE {}
<1> DEFINE r == Append(q, row)
<1>1. /\ r \in Seq(Rows) /\ DOMAIN r = DOMAIN q \cup {Len(q) + 1}
      /\ r[Len(q) + 1] = row
      /\ \A i \in DOMAIN q : r[i] = q[i]
      /\ Len(q) + 1 \notin DOMAIN q
  OBVIOUS
<1> QED BY <1>1 DEF Charged

(* The rows the actions write.                                             *)
LEMMA RowTypes ==
  ASSUME NEW type \in {"budget", "started", "finished", "exhausted", "rejected"},
         NEW n \in Ids, NEW result \in Results
  PROVE  /\ Row(type, n, result) \in Rows
         /\ Row(type, n, result).type = type
         /\ Row(type, n, result).n = n
BY DEF Row, Rows

(* Journals that charge the same keys as before.                           *)
SameCharges(J) == J \in [Steps -> Seq(Rows)]
                  /\ \A t \in Steps : Charged(J[t]) = Charged(journal[t])

LEMMA JournalsCharges ==
  ASSUME BookTypeOK, NEW s \in Steps, NEW row \in Rows, row.type # "budget"
  PROVE  SameCharges([journal EXCEPT ![s] = Append(@, row)])
<1>1. journal[s] \in Seq(Rows)
  BY DEF BookTypeOK
<1>2. Append(journal[s], row) \in Seq(Rows)
      /\ Charged(Append(journal[s], row)) = Charged(journal[s])
  BY <1>1, ChargedAppend
<1> QED BY <1>2 DEF SameCharges, BookTypeOK

(* Child runs whose keys were there before.                                *)
SameKeys(rs, rt) ==
  /\ rt \in Seq(ChildRuns)
  /\ \A i \in DOMAIN rt : \E j \in DOMAIN rs : rt[i].n = rs[j].n

LEMMA PhasesUpdated ==
  ASSUME NEW rs \in Seq(ChildRuns), NEW i \in DOMAIN rs, NEW phase \in Phases, NEW ord \in Nat
  PROVE  /\ SameKeys(rs, [rs EXCEPT ![i].phase = phase])
         /\ SameKeys(rs, [rs EXCEPT ![i].phase = phase, ![i].ord = ord])
<1>1. rs[i] \in ChildRuns
  OBVIOUS
<1>2. /\ [rs[i] EXCEPT !.phase = phase] \in ChildRuns
      /\ [rs[i] EXCEPT !.phase = phase].n = rs[i].n
      /\ [[rs[i] EXCEPT !.phase = phase] EXCEPT !.ord = ord] \in ChildRuns
      /\ [[rs[i] EXCEPT !.phase = phase] EXCEPT !.ord = ord].n = rs[i].n
  BY <1>1 DEF ChildRuns
<1>3. ASSUME NEW r \in ChildRuns, r.n = rs[i].n
      PROVE  SameKeys(rs, [rs EXCEPT ![i] = r])
  BY <1>3 DEF SameKeys
<1>4. /\ [rs EXCEPT ![i].phase = phase] = [rs EXCEPT ![i] = [rs[i] EXCEPT !.phase = phase]]
      /\ [rs EXCEPT ![i].phase = phase, ![i].ord = ord]
           = [rs EXCEPT ![i] = [[rs[i] EXCEPT !.phase = phase] EXCEPT !.ord = ord]]
  OBVIOUS
<1>5. /\ SameKeys(rs, [rs EXCEPT ![i] = [rs[i] EXCEPT !.phase = phase]])
      /\ SameKeys(rs, [rs EXCEPT ![i] = [[rs[i] EXCEPT !.phase = phase] EXCEPT !.ord = ord]])
  BY <1>2, <1>3
<1> QED BY <1>4, <1>5

LEMMA CancelKeepsKeys ==
  ASSUME NEW rs \in Seq(ChildRuns), NEW K, NEW quiet \in BOOLEAN
  PROVE  SameKeys(rs, CancelRuns(rs, K, quiet))
<1> DEFINE rt == CancelRuns(rs, K, quiet)
<1>1. ASSUME NEW i \in DOMAIN rs
      PROVE  rt[i] \in ChildRuns /\ rt[i].n = rs[i].n
  <2>1. rs[i] \in ChildRuns
    OBVIOUS
  <2>2. AfterCancel(rs[i].phase, quiet) \in Phases
    BY <2>1 DEF AfterCancel, ChildRuns, Phases
  <2>3. [rs[i] EXCEPT !.phase = AfterCancel(@, quiet)] \in ChildRuns
        /\ [rs[i] EXCEPT !.phase = AfterCancel(@, quiet)].n = rs[i].n
    BY <2>1, <2>2 DEF ChildRuns
  <2> QED BY <2>1, <2>3 DEF CancelRuns
<1>2. DOMAIN rt = DOMAIN rs
  BY DEF CancelRuns
<1>3. rt = [i \in 1 .. Len(rs) |-> rt[i]] /\ Len(rs) \in Nat /\ DOMAIN rs = 1 .. Len(rs)
  BY DEF CancelRuns
<1>4. rt \in Seq(ChildRuns)
  BY <1>1, <1>3
<1> QED BY <1>1, <1>2, <1>4 DEF SameKeys

LEMMA SameKeysTrans ==
  ASSUME NEW rs, NEW rt, NEW ru, SameKeys(rs, rt), SameKeys(rt, ru)
  PROVE  SameKeys(rs, ru)
BY DEF SameKeys

LEMMA SameKeysRefl ==
  ASSUME NEW rs \in Seq(ChildRuns)
  PROVE  SameKeys(rs, rs)
BY DEF SameKeys

SameRuns(R) == R \in [Steps -> Seq(ChildRuns)] /\ \A t \in Steps : SameKeys(runs[t], R[t])

LEMMA RunsUpdated ==
  ASSUME BookTypeOK, NEW s \in Steps, NEW rs, SameKeys(runs[s], rs)
  PROVE  SameRuns([runs EXCEPT ![s] = rs])
<1>1. rs \in Seq(ChildRuns)
  BY DEF SameKeys
<1>2. \A t \in Steps : SameKeys(runs[t], runs[t])
  BY SameKeysRefl DEF BookTypeOK
<1> QED BY <1>1, <1>2 DEF SameRuns, BookTypeOK

LEMMA RunsUnchanged == BookTypeOK => SameRuns(runs)
BY SameKeysRefl DEF SameRuns, BookTypeOK

(* A call that is about to launch, and one that has claimed.               *)
PaidPcs == {"saving", "admit", "launch", "child", "backoff"}
Paid(P, C) ==
  \A s \in Steps :
    /\ P[s] = "charge" => C[s].n \in claimed[s]
    /\ P[s] \in PaidPcs => C[s].n \in Charged(journal[s])
Calls == [n : Ids, tries : Nat,
          found : {"none", "cached", "exhausted", "unfinished", "fresh"}]

(* Child runs of paid keys.                                                *)
PaidRuns(R) ==
  /\ R \in [Steps -> Seq(ChildRuns)]
  /\ \A s \in Steps : \A i \in DOMAIN R[s] : R[s][i].n \in Charged(journal[s])

LEMMA SameRunsPaid ==
  ASSUME BudgetInv, NEW R, SameRuns(R)
  PROVE  PaidRuns(R)
BY DEF BudgetInv, SameRuns, SameKeys, PaidRuns

(* A step that charges and claims nothing and leaves every call and every  *)
(* child paid for preserves the invariant.                                 *)
LEMMA QuietStep ==
  ASSUME BudgetInv,
         sup' = sup, life' = life, cancel' \in BOOLEAN, spent' = spent, claimed' = claimed,
         disk' \in {disk, spent},
         SameCharges(journal'), PaidRuns(runs'),
         pc' \in [Steps -> CallPcs], call' \in [Steps -> Calls], Paid(pc', call')
  PROVE  BudgetInv'
<1>1. BookTypeOK'
  BY DEF BudgetInv, BookTypeOK, SameCharges, PaidRuns, Calls
<1>2. /\ ChargedKeys' = ChargedKeys
      /\ ClaimedKeys' = ClaimedKeys
  BY DEF ChargedKeys, ClaimedKeys, SameCharges
<1>3. \A s \in Steps : \A i \in DOMAIN runs'[s] : runs'[s][i].n \in Charged(journal[s])
  BY DEF PaidRuns
<1>4. \A s \in Steps : Charged(journal'[s]) = Charged(journal[s])
  BY DEF SameCharges
<1> QED BY <1>1, <1>2, <1>3, <1>4 DEF BudgetInv, Paid, PaidPcs

(* How a call's thread moves: to where nothing is owed, or on from where   *)
(* it was paid for.                                                        *)
LEMMA ThreadMoves ==
  ASSUME BudgetInv, NEW s \in Steps, NEW to \in CallPcs, NEW c \in Calls,
         \/ to \notin PaidPcs \cup {"charge"}
         \/ to \in PaidPcs /\ pc[s] \in PaidPcs /\ c.n = call[s].n
  PROVE  /\ [pc EXCEPT ![s] = to] \in [Steps -> CallPcs]
         /\ call \in [Steps -> Calls]
         /\ [call EXCEPT ![s] = c] \in [Steps -> Calls]
         /\ Paid([pc EXCEPT ![s] = to], [call EXCEPT ![s] = c])
<1>1. /\ pc \in [Steps -> CallPcs] /\ call \in [Steps -> Calls]
  BY DEF BudgetInv, BookTypeOK, Calls
<1>2. Paid(pc, call)
  BY DEF BudgetInv, Paid, PaidPcs
<1>3. "charge" \notin PaidPcs
  BY DEF PaidPcs
<1> DEFINE P == [pc EXCEPT ![s] = to]
           C == [call EXCEPT ![s] = c]
<1>4. ASSUME NEW t \in Steps
      PROVE  /\ P[t] = "charge" => C[t].n \in claimed[t]
             /\ P[t] \in PaidPcs => C[t].n \in Charged(journal[t])
  <2>1. CASE t = s
    BY <1>1, <1>2, <1>3, <2>1 DEF Paid
  <2>2. CASE t # s
    BY <1>1, <1>2, <2>2 DEF Paid
  <2> QED BY <2>1, <2>2
<1> HIDE DEF P, C
<1>5. Paid(P, C)
  BY <1>4 DEF Paid
<1> QED BY <1>1, <1>5 DEF P, C

LEMMA CallUnchanged ==
  ASSUME BookTypeOK, NEW s \in Steps
  PROVE  call[s] \in Calls /\ [call EXCEPT ![s] = call[s]] = call
BY DEF BookTypeOK, Calls

LEMMA JournalUnchanged == BookTypeOK => SameCharges(journal)
BY DEF BookTypeOK, SameCharges

-----------------------------------------------------------------------------
(* The actions.                                                            *)

LEMMA CallKeeps ==
  ASSUME BudgetInv, NEW s \in Steps, Call(s)
  PROVE  BudgetInv'
<1>0. BookTypeOK
  BY DEF BudgetInv
<1>a. PICK K : \E n \in Ids, quiet \in BOOLEAN :
        /\ call' = [call EXCEPT ![s] = [n |-> n, found |-> Found(mem[s], n), tries |-> 0]]
        /\ runs' = [runs EXCEPT ![s] = CancelRuns(@, K, quiet)]
        /\ pc' \in {[pc EXCEPT ![s] = to] : to \in {"raised", "hit", "claim", "adopt"}}
  <2>1. PICK n \in Ids, quiet \in BOOLEAN :
          LET m == mem[s]
              K == (m.scoped \cap m.started) \ (m.mine \cup {n})
          IN /\ call' = [call EXCEPT ![s] = [n |-> n, found |-> Found(m, n), tries |-> 0]]
             /\ runs' = [runs EXCEPT ![s] = CancelRuns(@, K, quiet)]
             /\ pc' \in {[pc EXCEPT ![s] = to] : to \in {"raised", "hit", "claim", "adopt"}}
    BY DEF Call
  <2> QED BY <2>1
<1>1. PICK n \in Ids, quiet \in BOOLEAN :
        /\ call' = [call EXCEPT ![s] = [n |-> n, found |-> Found(mem[s], n), tries |-> 0]]
        /\ runs' = [runs EXCEPT ![s] = CancelRuns(@, K, quiet)]
        /\ pc' \in {[pc EXCEPT ![s] = to] : to \in {"raised", "hit", "claim", "adopt"}}
  BY <1>a
<1>2. PICK to \in {"raised", "hit", "claim", "adopt"} : pc' = [pc EXCEPT ![s] = to]
  BY <1>1
<1> DEFINE c == [n |-> n, found |-> Found(mem[s], n), tries |-> 0]
<1>3. c \in Calls
  BY DEF Calls, Found
<1>4. to \in CallPcs /\ to \notin PaidPcs \cup {"charge"}
  BY DEF CallPcs, PaidPcs
<1>5. pc' \in [Steps -> CallPcs] /\ call' \in [Steps -> Calls] /\ Paid(pc', call')
  BY <1>1, <1>2, <1>3, <1>4, ThreadMoves
<1>6. PaidRuns(runs')
  <2>1. runs[s] \in Seq(ChildRuns)
    BY <1>0 DEF BookTypeOK
  <2>2. SameKeys(runs[s], CancelRuns(runs[s], K, quiet))
    BY <2>1, CancelKeepsKeys
  <2>3. SameRuns(runs')
    BY <1>0, <1>1, <2>2, RunsUpdated
  <2> QED BY <2>3, SameRunsPaid
<1>7. SameCharges(journal')
  BY <1>0, JournalUnchanged DEF Call
<1>8. /\ sup' = sup /\ life' = life /\ cancel' = cancel /\ spent' = spent
      /\ claimed' = claimed /\ disk' = disk /\ cancel \in BOOLEAN
  BY <1>0 DEF Call, BookTypeOK
<1> QED BY <1>5, <1>6, <1>7, <1>8, QuietStep

(* A thread that neither cancels nor journals anything.                    *)
LEMMA MoveKeeps ==
  ASSUME BudgetInv, NEW s \in Steps, NEW to \in CallPcs,
         pc' = [pc EXCEPT ![s] = to], UNCHANGED <<sup, life, cancel, spent, claimed, call>>,
         \/ to \notin PaidPcs \cup {"charge"}
         \/ to \in PaidPcs /\ pc[s] \in PaidPcs,
         disk' \in {disk, spent}, SameCharges(journal'), SameRuns(runs')
  PROVE  BudgetInv'
<1>0. BookTypeOK
  BY DEF BudgetInv
<1>1. call[s] \in Calls /\ [call EXCEPT ![s] = call[s]] = call
  BY <1>0, CallUnchanged
<1>2. pc' \in [Steps -> CallPcs] /\ call' \in [Steps -> Calls] /\ Paid(pc', call')
  <2>1. /\ [pc EXCEPT ![s] = to] \in [Steps -> CallPcs]
        /\ call \in [Steps -> Calls]
        /\ Paid([pc EXCEPT ![s] = to], [call EXCEPT ![s] = call[s]])
    BY <1>1, ThreadMoves
  <2>2. Paid([pc EXCEPT ![s] = to], call)
    BY <1>1, <2>1
  <2>3. call' = call
    OBVIOUS
  <2> QED BY <2>1, <2>2, <2>3
<1>3. PaidRuns(runs')
  BY SameRunsPaid
<1>4. cancel' \in BOOLEAN
  BY <1>0 DEF BookTypeOK
<1> QED BY <1>2, <1>3, <1>4, QuietStep

LEMMA CacheHitKeeps ==
  ASSUME BudgetInv, NEW s \in Steps, CacheHit(s)
  PROVE  BudgetInv'
<1>1. BookTypeOK
  BY DEF BudgetInv
<1>2. "done" \in CallPcs /\ "done" \notin PaidPcs \cup {"charge"}
  BY DEF CallPcs, PaidPcs
<1>3. SameCharges(journal') /\ SameRuns(runs')
  BY <1>1, JournalUnchanged, RunsUnchanged DEF CacheHit
<1> QED BY <1>2, <1>3, MoveKeeps DEF CacheHit

LEMMA AdoptAnswerKeeps ==
  ASSUME BudgetInv, NEW s \in Steps, NEW result \in Results, AdoptAnswer(s, result),
         UNCHANGED <<sup, life, cancel, spent, claimed, call>>, SameRuns(runs')
  PROVE  BudgetInv'
<1>1. BookTypeOK /\ call[s].n \in Ids
  BY DEF BudgetInv, BookTypeOK
<1>2. "done" \in CallPcs /\ "done" \notin PaidPcs \cup {"charge"}
  BY DEF CallPcs, PaidPcs
<1> DEFINE row == Row("finished", call[s].n, result)
<1>3. row \in Rows /\ row.type # "budget"
  BY <1>1, RowTypes
<1>4. /\ journal' = [journal EXCEPT ![s] = Append(@, row)]
      /\ disk' = spent /\ pc' = [pc EXCEPT ![s] = "done"]
  BY DEF AdoptAnswer
<1> HIDE DEF row
<1>5. SameCharges(journal')
  BY <1>1, <1>3, <1>4, JournalsCharges
<1> QED BY <1>2, <1>4, <1>5, MoveKeeps

LEMMA AdoptKeeps ==
  ASSUME BudgetInv, NEW s \in Steps, Adopt(s)
  PROVE  BudgetInv'
<1>1. BookTypeOK
  BY DEF BudgetInv
<1>2. UNCHANGED <<sup, life, cancel, spent, claimed, call>>
  BY DEF Adopt
<1>3. \E to \in {"hit", "claim", "waiting"}, quiet \in BOOLEAN :
         \/ /\ runs' \in {runs, [runs EXCEPT ![s] = CancelRuns(@, {call[s].n}, quiet)]}
            /\ pc' = [pc EXCEPT ![s] = to]
            /\ UNCHANGED <<journal, disk>>
         \/ AdoptAnswer(s, "answer") /\ UNCHANGED runs
  <2>1. \E to \in {"hit", "claim", "waiting"}, quiet \in BOOLEAN :
           \/ /\ \/ runs' = [runs EXCEPT ![s] = CancelRuns(runs[s], {call[s].n}, quiet)]
                 \/ runs' = [runs EXCEPT ![s] = runs[s]]
                 \/ runs' = runs
              /\ pc' = [pc EXCEPT ![s] = to]
              /\ UNCHANGED <<journal, disk>>
           \/ AdoptAnswer(s, "answer") /\ UNCHANGED runs
    BY ZenonT(60) DEF Adopt, NothingToAdopt
  <2>2. [runs EXCEPT ![s] = runs[s]] = runs
    BY <1>1 DEF BookTypeOK
  <2> QED BY <2>1, <2>2
<1>4. CASE AdoptAnswer(s, "answer") /\ UNCHANGED runs
  BY <1>1, <1>2, <1>4, AdoptAnswerKeeps, RunsUnchanged DEF Results
<1>5. CASE \E to \in {"hit", "claim", "waiting"}, quiet \in BOOLEAN :
             /\ runs' \in {runs, [runs EXCEPT ![s] = CancelRuns(@, {call[s].n}, quiet)]}
             /\ pc' = [pc EXCEPT ![s] = to]
             /\ UNCHANGED <<journal, disk>>
  <2>1. PICK to \in {"hit", "claim", "waiting"}, quiet \in BOOLEAN :
          /\ runs' \in {runs, [runs EXCEPT ![s] = CancelRuns(@, {call[s].n}, quiet)]}
          /\ pc' = [pc EXCEPT ![s] = to]
          /\ UNCHANGED <<journal, disk>>
    BY <1>5
  <2>2. to \in CallPcs /\ to \notin PaidPcs \cup {"charge"}
    BY DEF CallPcs, PaidPcs
  <2>3. SameRuns(runs')
    BY <1>1, <2>1, RunsUnchanged, CancelKeepsKeys, RunsUpdated DEF BookTypeOK
  <2>4. SameCharges(journal')
    BY <1>1, <2>1, JournalUnchanged
  <2> QED BY <1>2, <2>1, <2>2, <2>3, <2>4, MoveKeeps
<1> QED BY <1>3, <1>4, <1>5

LEMMA WaitEndsKeeps ==
  ASSUME BudgetInv, NEW s \in Steps, WaitEnds(s)
  PROVE  BudgetInv'
<1>1. BookTypeOK
  BY DEF BudgetInv
<1>2. UNCHANGED <<sup, life, cancel, spent, claimed, call>> /\ SameRuns(runs')
  BY <1>1, RunsUnchanged DEF WaitEnds
<1>3. CASE AdoptAnswer(s, "answer")
  BY <1>2, <1>3, AdoptAnswerKeeps DEF Results
<1>4. CASE \E to \in {"hit", "claim"} :
             pc' = [pc EXCEPT ![s] = to] /\ UNCHANGED <<journal, disk>>
  <2>1. PICK to \in {"hit", "claim"} :
          pc' = [pc EXCEPT ![s] = to] /\ UNCHANGED <<journal, disk>>
    BY <1>4
  <2>2. to \in CallPcs /\ to \notin PaidPcs \cup {"charge"}
    BY DEF CallPcs, PaidPcs
  <2>3. SameCharges(journal')
    BY <1>1, <2>1, JournalUnchanged
  <2> QED BY <1>2, <2>1, <2>2, <2>3, MoveKeeps
<1> QED BY <1>3, <1>4 DEF WaitEnds, NothingToAdopt

LEMMA WaitTimesOutKeeps ==
  ASSUME BudgetInv, NEW s \in Steps, WaitTimesOut(s)
  PROVE  BudgetInv'
<1>1. BookTypeOK
  BY DEF BudgetInv
<1>2. UNCHANGED <<sup, life, cancel, spent, claimed, call>>
  BY DEF WaitTimesOut
<1>3. PICK quiet \in BOOLEAN :
        /\ runs' = [runs EXCEPT ![s] = CancelRuns(@, {call[s].n}, quiet)]
        /\ \/ \E to \in {"hit", "raised"} :
                pc' = [pc EXCEPT ![s] = to] /\ UNCHANGED <<journal, disk>>
           \/ AdoptAnswer(s, "none")
  BY DEF WaitTimesOut
<1>4. SameRuns(runs')
  BY <1>1, <1>3, CancelKeepsKeys, RunsUpdated DEF BookTypeOK
<1>5. CASE AdoptAnswer(s, "none")
  BY <1>2, <1>4, <1>5, AdoptAnswerKeeps DEF Results
<1>6. CASE \E to \in {"hit", "raised"} :
             pc' = [pc EXCEPT ![s] = to] /\ UNCHANGED <<journal, disk>>
  <2>1. PICK to \in {"hit", "raised"} :
          pc' = [pc EXCEPT ![s] = to] /\ UNCHANGED <<journal, disk>>
    BY <1>6
  <2>2. to \in CallPcs /\ to \notin PaidPcs \cup {"charge"}
    BY DEF CallPcs, PaidPcs
  <2>3. SameCharges(journal')
    BY <1>1, <2>1, JournalUnchanged
  <2> QED BY <1>2, <1>4, <2>1, <2>2, <2>3, MoveKeeps
<1> QED BY <1>3, <1>5, <1>6

(* The claim: one more key is counted, and one more is spent.              *)
LEMMA ClaimKeeps ==
  ASSUME BudgetInv, NEW s \in Steps, Claim(s)
  PROVE  BudgetInv'
<1> DEFINE n == call[s].n
<1>0. BookTypeOK /\ n \in Ids
  BY DEF BudgetInv, BookTypeOK
<1>1. CASE n \notin claimed[s] /\ spent >= Total
  <2>1. "raised" \in CallPcs /\ "raised" \notin PaidPcs \cup {"charge"}
    BY DEF CallPcs, PaidPcs
  <2>2. pc' = [pc EXCEPT ![s] = "raised"] /\ UNCHANGED <<sup, life, cancel, disk, spent, journal, claimed, call, runs>>
    BY <1>1 DEF Claim
  <2>3. SameCharges(journal') /\ SameRuns(runs')
    BY <1>0, <2>2, JournalUnchanged, RunsUnchanged
  <2> QED BY <2>1, <2>2, <2>3, MoveKeeps
<1>2. CASE n \in claimed[s] \/ spent < Total
  <2>1. /\ sup = "up" /\ pc' = [pc EXCEPT ![s] = "charge"]
        /\ UNCHANGED <<sup, life, cancel, disk, journal, mem, call, runs>>
        /\ claimed' = [claimed EXCEPT ![s] = @ \cup {n}]
        /\ spent' = IF n \in claimed[s] THEN spent ELSE spent + 1
    BY <1>0, <1>2, Bounds DEF Claim, BookTypeOK
  <2>2. spent' \in 0 .. Total
    BY <1>0, <1>2, <2>1, Bounds DEF BookTypeOK
  <2>3. BookTypeOK'
    BY <1>0, <2>1, <2>2 DEF BookTypeOK, CallPcs
  <2>4. ClaimedKeys' = ClaimedKeys \cup {<<s, n>>}
    BY <1>0, <2>1 DEF ClaimedKeys, BookTypeOK
  <2>5. IsFiniteSet(ClaimedKeys)
    BY KeysFinite, FS_Subset DEF ClaimedKeys
  <2>6. Cardinality(ClaimedKeys) <= spent
    BY <2>1 DEF BudgetInv
  <2>7. Cardinality(ClaimedKeys') <= spent'
    <3>1. CASE n \in claimed[s]
      <4>1. ClaimedKeys' = ClaimedKeys
        BY <1>0, <2>4, <3>1 DEF ClaimedKeys
      <4> QED BY <2>1, <2>6, <3>1, <4>1
    <3>2. CASE n \notin claimed[s]
      <4>1. <<s, n>> \notin ClaimedKeys
        BY <3>2 DEF ClaimedKeys
      <4>2. Cardinality(ClaimedKeys') = Cardinality(ClaimedKeys) + 1
        BY <2>4, <2>5, <4>1, FS_AddElement
      <4>3. Cardinality(ClaimedKeys) \in Nat /\ spent \in Nat
        BY <1>0, <2>5, FS_CardinalityType, Bounds DEF BookTypeOK
      <4> QED BY <2>1, <2>6, <3>2, <4>2, <4>3
    <3> QED BY <3>1, <3>2
  <2>8. ChargedKeys' = ChargedKeys
    BY <2>1 DEF ChargedKeys
  <2>9. \A t \in Steps : Charged(journal[t]) \subseteq claimed'[t] /\ claimed[t] \subseteq claimed'[t]
    BY <1>0, <2>1 DEF BudgetInv, BookTypeOK
  <2>10. ASSUME NEW t \in Steps
         PROVE  /\ pc'[t] = "charge" => call[t].n \in claimed'[t]
                /\ pc'[t] \in PaidPcs => call[t].n \in Charged(journal[t])
    <3>1. CASE t = s
      BY <1>0, <2>1, <3>1 DEF BookTypeOK, PaidPcs
    <3>2. CASE t # s
      BY <1>0, <2>1, <2>9, <3>2 DEF BookTypeOK, BudgetInv, PaidPcs
    <3> QED BY <3>1, <3>2
  <2> QED BY <2>1, <2>3, <2>7, <2>8, <2>9, <2>10 DEF BudgetInv, PaidPcs
<1> QED BY <1>0, <1>1, <1>2, Bounds DEF BookTypeOK

(* The charge: a claimed key's row reaches the journal.                    *)
LEMMA ChargeKeeps ==
  ASSUME BudgetInv, NEW s \in Steps, Charge(s)
  PROVE  BudgetInv'
<1> DEFINE n == call[s].n
           row == Row("budget", n, "missing")
<1>0. BookTypeOK /\ n \in Ids /\ n \in claimed[s]
  BY DEF BudgetInv, BookTypeOK, Charge
<1>1. row \in Rows /\ row.type = "budget" /\ row.n = n
  BY <1>0, RowTypes DEF Results
<1>2. /\ sup = "up" /\ pc' = [pc EXCEPT ![s] = "saving"]
      /\ journal' = [journal EXCEPT ![s] = Append(@, row)]
      /\ UNCHANGED <<sup, life, cancel, disk, spent, claimed, mem, call, runs>>
  BY DEF Charge
<1> HIDE DEF row
<1>3. /\ journal' \in [Steps -> Seq(Rows)]
      /\ \A t \in Steps : Charged(journal'[t]) =
                            IF t = s THEN Charged(journal[t]) \cup {n} ELSE Charged(journal[t])
  <2>1. journal[s] \in Seq(Rows)
    BY <1>0 DEF BookTypeOK
  <2>2. Append(journal[s], row) \in Seq(Rows)
        /\ Charged(Append(journal[s], row)) = Charged(journal[s]) \cup {n}
    BY <1>1, <2>1, ChargedAppend
  <2> QED BY <1>0, <1>2, <2>2 DEF BookTypeOK
<1>4. BookTypeOK'
  BY <1>0, <1>2, <1>3 DEF BookTypeOK, CallPcs
<1>5. \A t \in Steps : Charged(journal'[t]) \subseteq claimed'[t]
  BY <1>0, <1>2, <1>3 DEF BudgetInv
<1>6. ClaimedKeys' = ClaimedKeys /\ Cardinality(ClaimedKeys) <= spent
  BY <1>2 DEF ClaimedKeys, BudgetInv
<1>7. Cardinality(ChargedKeys') <= Total
  <2>1. ChargedKeys' \subseteq ClaimedKeys'
    BY <1>5 DEF ChargedKeys, ClaimedKeys
  <2>2. IsFiniteSet(ClaimedKeys')
    BY <1>6, KeysFinite, FS_Subset DEF ClaimedKeys
  <2>3. /\ Cardinality(ChargedKeys') <= Cardinality(ClaimedKeys')
        /\ IsFiniteSet(ChargedKeys')
    BY <2>1, <2>2, FS_Subset
  <2>4. /\ Cardinality(ChargedKeys') \in Nat /\ Cardinality(ClaimedKeys') \in Nat
        /\ spent \in Nat /\ spent <= Total /\ Total \in Nat
    BY <1>0, <2>2, <2>3, FS_CardinalityType, Bounds DEF BookTypeOK
  <2> QED BY <1>6, <2>3, <2>4
<1>8. ASSUME NEW t \in Steps
      PROVE  /\ pc'[t] = "charge" => call[t].n \in claimed[t]
             /\ pc'[t] \in PaidPcs => call[t].n \in Charged(journal'[t])
             /\ \A i \in DOMAIN runs[t] : runs[t][i].n \in Charged(journal'[t])
  <2>1. CASE t = s
    BY <1>0, <1>2, <1>3, <2>1 DEF BookTypeOK, PaidPcs, BudgetInv
  <2>2. CASE t # s
    BY <1>0, <1>2, <1>3, <2>2 DEF BookTypeOK, PaidPcs, BudgetInv
  <2> QED BY <2>1, <2>2
<1> QED BY <1>2, <1>4, <1>5, <1>6, <1>7, <1>8 DEF BudgetInv, PaidPcs

LEMMA SaveStatusKeeps ==
  ASSUME BudgetInv, NEW s \in Steps, SaveStatus(s)
  PROVE  BudgetInv'
<1>1. BookTypeOK
  BY DEF BudgetInv
<1>2. "admit" \in CallPcs /\ "admit" \in PaidPcs /\ pc[s] \in PaidPcs
  BY DEF CallPcs, PaidPcs, SaveStatus
<1>3. SameCharges(journal') /\ SameRuns(runs')
  BY <1>1, JournalUnchanged, RunsUnchanged DEF SaveStatus
<1> QED BY <1>2, <1>3, MoveKeeps DEF SaveStatus

(* An append_event of a row that charges nothing.                          *)
LEMMA JournalsKeeps ==
  ASSUME BudgetInv, NEW s \in Steps, NEW n \in Ids, NEW result \in Results,
         NEW type \in {"started", "finished", "exhausted", "rejected"},
         Journals(s, Row(type, n, result))
  PROVE  SameCharges(journal') /\ disk' = spent
<1>1. BookTypeOK
  BY DEF BudgetInv
<1> DEFINE row == Row(type, n, result)
<1>2. row \in Rows /\ row.type # "budget"
  BY RowTypes
<1>3. journal' = [journal EXCEPT ![s] = Append(@, row)] /\ disk' = spent
  BY DEF Journals
<1> HIDE DEF row
<1> QED BY <1>1, <1>2, <1>3, JournalsCharges

LEMMA StartKeeps ==
  ASSUME BudgetInv, NEW s \in Steps, Start(s)
  PROVE  BudgetInv'
<1>1. BookTypeOK /\ call[s].n \in Ids
  BY DEF BudgetInv, BookTypeOK
<1>2. /\ UNCHANGED <<sup, life, cancel, spent, claimed, call>> /\ SameRuns(runs')
      /\ pc[s] \in PaidPcs
  BY <1>1, RunsUnchanged DEF Start, PaidPcs
<1>3. CASE cancel
  <2>1. "unwound" \in CallPcs /\ "unwound" \notin PaidPcs \cup {"charge"}
    BY DEF CallPcs, PaidPcs
  <2>2. pc' = [pc EXCEPT ![s] = "unwound"] /\ disk' = disk /\ SameCharges(journal')
    BY <1>1, <1>3, JournalUnchanged DEF Start
  <2> QED BY <1>2, <2>1, <2>2, MoveKeeps
<1>4. CASE ~cancel
  <2>1. "launch" \in CallPcs /\ "launch" \in PaidPcs
    BY DEF CallPcs, PaidPcs
  <2>2. pc' = [pc EXCEPT ![s] = "launch"] /\ Journals(s, Row("started", call[s].n, "missing"))
    BY <1>4 DEF Start
  <2>3. SameCharges(journal') /\ disk' = spent
    BY <1>1, <2>2, JournalsKeeps DEF Results
  <2> QED BY <1>2, <2>1, <2>2, <2>3, MoveKeeps
<1> QED BY <1>3, <1>4

(* The child's key was charged.                                            *)
LEMMA LaunchKeeps ==
  ASSUME BudgetInv, NEW s \in Steps, Launch(s)
  PROVE  BudgetInv'
<1>0. BookTypeOK /\ call[s] \in Calls
  BY DEF BudgetInv, BookTypeOK, Calls
<1> DEFINE r == [n |-> call[s].n, life |-> life, phase |-> "starting", ord |-> 0]
           c == [call[s] EXCEPT !.tries = @ + 1]
<1>1. /\ pc' = [pc EXCEPT ![s] = "child"] /\ runs' = [runs EXCEPT ![s] = Append(@, r)]
      /\ call' = [call EXCEPT ![s] = c]
      /\ UNCHANGED <<sup, life, cancel, disk, spent, journal, claimed>>
      /\ pc[s] \in PaidPcs
  BY DEF Launch, PaidPcs
<1>2. c \in Calls /\ c.n = call[s].n
  BY <1>0 DEF Calls
<1>3. r \in ChildRuns /\ r.n = call[s].n
  BY <1>0 DEF BookTypeOK, Calls, ChildRuns, Phases
<1>4. call[s].n \in Charged(journal[s])
  BY <1>1 DEF BudgetInv, PaidPcs
<1> HIDE DEF r, c
<1>5. PaidRuns(runs')
  <2>1. runs[s] \in Seq(ChildRuns)
    BY <1>0 DEF BookTypeOK
  <2>2. /\ Append(runs[s], r) \in Seq(ChildRuns)
        /\ \A i \in DOMAIN Append(runs[s], r) :
             Append(runs[s], r)[i].n \in Charged(journal[s])
    BY <1>3, <1>4, <2>1 DEF BudgetInv
  <2> QED BY <1>0, <1>1, <2>2 DEF PaidRuns, BudgetInv, BookTypeOK
<1>6. "child" \in CallPcs /\ "child" \in PaidPcs
  BY DEF CallPcs, PaidPcs
<1>7. pc' \in [Steps -> CallPcs] /\ call' \in [Steps -> Calls] /\ Paid(pc', call')
  BY <1>1, <1>2, <1>6, ThreadMoves
<1>8. SameCharges(journal') /\ cancel' \in BOOLEAN
  BY <1>0, <1>1, JournalUnchanged DEF BookTypeOK
<1> QED BY <1>1, <1>5, <1>7, <1>8, QuietStep

LEMMA FinishKeeps ==
  ASSUME BudgetInv, NEW s \in Steps, NEW type \in {"finished", "exhausted"},
         NEW result \in Results, Finish(s, type, result),
         UNCHANGED <<sup, life, cancel, spent, claimed, call>>, SameRuns(runs')
  PROVE  BudgetInv'
<1>1. call[s].n \in Ids
  BY DEF BudgetInv, BookTypeOK
<1>2. "done" \in CallPcs /\ "done" \notin PaidPcs \cup {"charge"}
  BY DEF CallPcs, PaidPcs
<1>3. Journals(s, Row(type, call[s].n, result)) /\ pc' = [pc EXCEPT ![s] = "done"]
  BY DEF Finish
<1>4. SameCharges(journal') /\ disk' = spent
  BY <1>1, <1>3, JournalsKeeps
<1> QED BY <1>2, <1>3, <1>4, MoveKeeps

LEMMA FailedAttemptKeeps ==
  ASSUME BudgetInv, NEW s \in Steps, pc[s] = "child", FailedAttempt(s),
         UNCHANGED <<sup, life, cancel, spent, claimed, call>>, SameRuns(runs')
  PROVE  BudgetInv'
<1>1. CASE Finish(s, "exhausted", "none")
  BY <1>1, FinishKeeps DEF Results
<1>2. CASE pc' = [pc EXCEPT ![s] = "backoff"] /\ UNCHANGED <<journal, mem, disk>>
  <2>1. "backoff" \in CallPcs /\ "backoff" \in PaidPcs /\ pc[s] \in PaidPcs
    BY DEF CallPcs, PaidPcs
  <2>2. SameCharges(journal')
    BY <1>2, JournalUnchanged DEF BudgetInv
  <2> QED BY <1>2, <2>1, <2>2, MoveKeeps
<1> QED BY <1>1, <1>2 DEF FailedAttempt

LEMMA ChildReturnsKeeps ==
  ASSUME BudgetInv, NEW s \in Steps, ChildReturns(s)
  PROVE  BudgetInv'
<1>1. SameRuns(runs') /\ pc[s] = "child"
      /\ UNCHANGED <<sup, life, cancel, spent, claimed, call>>
  BY RunsUnchanged DEF ChildReturns, BudgetInv
<1>2. Finish(s, "finished", "answer") \/ FailedAttempt(s)
  BY DEF ChildReturns
<1> QED BY <1>1, <1>2, FinishKeeps, FailedAttemptKeeps DEF Results

LEMMA KillKeepsKeys ==
  ASSUME BudgetInv, NEW s \in Steps, NEW i \in Nat,
         NEW phase \in AfterKill(runs[s][i].phase)
  PROVE  SameKeys(runs[s], [runs[s] EXCEPT ![i].phase = phase])
<1>1. runs[s] \in Seq(ChildRuns)
  BY DEF BudgetInv, BookTypeOK
<1>2. CASE i \in DOMAIN runs[s]
  <2>1. runs[s][i] \in ChildRuns
    BY <1>1, <1>2
  <2>2. phase \in Phases
    BY <2>1 DEF AfterKill, Phases, ChildRuns
  <2> QED BY <1>1, <1>2, <2>2, PhasesUpdated
<1>3. CASE i \notin DOMAIN runs[s]
  <2>1. [runs[s] EXCEPT ![i].phase = phase] = runs[s]
    BY <1>1, <1>3
  <2> QED BY <1>1, <2>1, SameKeysRefl
<1> QED BY <1>2, <1>3

LEMMA ChildTimesOutKeeps ==
  ASSUME BudgetInv, NEW s \in Steps, ChildTimesOut(s)
  PROVE  BudgetInv'
<1>0. BookTypeOK /\ runs[s] \in Seq(ChildRuns)
  BY DEF BudgetInv, BookTypeOK
<1>1. Child(s) \in Nat
  BY <1>0 DEF Child
<1>2. PICK phase \in AfterKill(runs[s][Child(s)].phase), quiet \in BOOLEAN :
        LET killed == [runs[s] EXCEPT ![Child(s)].phase = phase]
        IN /\ runs' = [runs EXCEPT ![s] = CancelRuns(killed, {call[s].n}, quiet)]
           /\ Finish(s, "exhausted", "none") \/ FailedAttempt(s)
  BY DEF ChildTimesOut, Phase
<1> DEFINE killed == [runs[s] EXCEPT ![Child(s)].phase = phase]
<1>3. SameKeys(runs[s], killed)
  BY <1>1, KillKeepsKeys
<1>4. SameKeys(killed, CancelRuns(killed, {call[s].n}, quiet))
  <2>1. killed \in Seq(ChildRuns)
    BY <1>3 DEF SameKeys
  <2> HIDE DEF killed
  <2> QED BY <2>1, CancelKeepsKeys
<1>5. SameRuns(runs')
  BY <1>0, <1>2, <1>3, <1>4, SameKeysTrans, RunsUpdated
<1>6. UNCHANGED <<sup, life, cancel, spent, claimed, call>> /\ pc[s] = "child"
  BY DEF ChildTimesOut
<1> QED BY <1>2, <1>5, <1>6, FinishKeeps, FailedAttemptKeeps DEF Results

LEMMA ChildCancelledKeeps ==
  ASSUME BudgetInv, NEW s \in Steps, ChildCancelled(s)
  PROVE  BudgetInv'
<1>0. BookTypeOK /\ runs[s] \in Seq(ChildRuns)
  BY DEF BudgetInv, BookTypeOK
<1>1. Child(s) \in Nat
  BY <1>0 DEF Child
<1>2. PICK phase \in AfterKill(runs[s][Child(s)].phase) :
        runs' = [runs EXCEPT ![s][Child(s)].phase = phase]
  BY DEF ChildCancelled, Phase
<1> DEFINE killed == [runs[s] EXCEPT ![Child(s)].phase = phase]
<1>3. SameKeys(runs[s], killed)
  BY <1>1, KillKeepsKeys
<1>4. runs' = [runs EXCEPT ![s] = killed]
  BY <1>2
<1>5. SameRuns(runs')
  BY <1>0, <1>3, <1>4, RunsUpdated
<1>6. /\ UNCHANGED <<sup, life, cancel, disk, spent, journal, claimed, call>>
      /\ pc' = [pc EXCEPT ![s] = "unwound"]
  BY DEF ChildCancelled
<1>7. "unwound" \in CallPcs /\ "unwound" \notin PaidPcs \cup {"charge"}
  BY DEF CallPcs, PaidPcs
<1>8. SameCharges(journal')
  BY <1>0, <1>6, JournalUnchanged
<1> QED BY <1>5, <1>6, <1>7, <1>8, MoveKeeps

LEMMA BackoffKeeps ==
  ASSUME BudgetInv, NEW s \in Steps, Backoff(s)
  PROVE  BudgetInv'
<1>1. SameCharges(journal') /\ SameRuns(runs') /\ pc[s] \in PaidPcs
  BY JournalUnchanged, RunsUnchanged DEF Backoff, BudgetInv, PaidPcs
<1>2. PICK to \in {"unwound", "launch"} : pc' = [pc EXCEPT ![s] = to]
  BY DEF Backoff
<1>3. to \in CallPcs /\ (to \in PaidPcs \/ to \notin PaidPcs \cup {"charge"})
  BY DEF CallPcs, PaidPcs
<1> QED BY <1>1, <1>2, <1>3, MoveKeeps DEF Backoff

LEMMA ChildStepsKeeps ==
  ASSUME BudgetInv, NEW s \in Steps, ChildSteps(s)
  PROVE  BudgetInv'
<1>0. BookTypeOK /\ runs[s] \in Seq(ChildRuns)
  BY DEF BudgetInv, BookTypeOK
<1> DEFINE registered == {j \in DOMAIN runs[s] : runs[s][j].ord # 0}
<1>a. PICK i \in DOMAIN runs[s] : \E phase \in NextPhases(runs[s][i].phase) :
        runs' = [runs EXCEPT ![s][i].phase = phase,
                             ![s][i].ord = IF phase = "registered"
                                           THEN Cardinality(registered) + 1 ELSE @]
  BY DEF ChildSteps
<1>1. PICK phase \in NextPhases(runs[s][i].phase) :
        runs' = [runs EXCEPT ![s][i].phase = phase,
                             ![s][i].ord = IF phase = "registered"
                                           THEN Cardinality(registered) + 1 ELSE @]
  BY <1>a
<1> DEFINE ord == IF phase = "registered" THEN Cardinality(registered) + 1 ELSE runs[s][i].ord
<1>2. runs[s][i] \in ChildRuns /\ phase \in Phases
  <2>1. runs[s][i] \in ChildRuns
    BY <1>0
  <2>2. NextPhases(runs[s][i].phase) \subseteq Phases
    BY DEF NextPhases, Phases
  <2> QED BY <2>1, <2>2
<1>3. ord \in Nat
  <2>1. IsFiniteSet(DOMAIN runs[s])
    BY <1>0, FS_Interval
  <2>2. Cardinality(registered) \in Nat
    BY <2>1, FS_Subset, FS_CardinalityType
  <2> QED BY <1>2, <2>2 DEF ChildRuns
<1>4. runs' = [runs EXCEPT ![s] = [runs[s] EXCEPT ![i].phase = phase, ![i].ord = ord]]
  BY <1>0, <1>1 DEF BookTypeOK
<1> HIDE DEF ord
<1>5. SameKeys(runs[s], [runs[s] EXCEPT ![i].phase = phase, ![i].ord = ord])
  BY <1>0, <1>2, <1>3, PhasesUpdated
<1>6. SameRuns(runs')
  BY <1>0, <1>4, <1>5, RunsUpdated
<1>7. UNCHANGED <<sup, life, cancel, disk, spent, journal, claimed, pc, call>>
  BY DEF ChildSteps
<1>8. /\ SameCharges(journal') /\ PaidRuns(runs') /\ Paid(pc', call') /\ cancel' \in BOOLEAN
      /\ pc' \in [Steps -> CallPcs] /\ call' \in [Steps -> Calls]
  <2>1. SameCharges(journal') /\ PaidRuns(runs')
    BY <1>0, <1>6, <1>7, JournalUnchanged, SameRunsPaid
  <2>2. Paid(pc, call) /\ cancel \in BOOLEAN /\ pc \in [Steps -> CallPcs]
        /\ call \in [Steps -> Calls]
    BY <1>0 DEF BudgetInv, BookTypeOK, Paid, PaidPcs, Calls
  <2> QED BY <1>7, <2>1, <2>2
<1> QED BY <1>7, <1>8, QuietStep

LEMMA ScriptRejectsKeeps ==
  ASSUME BudgetInv, NEW s \in Steps, ScriptRejects(s)
  PROVE  BudgetInv'
<1>1. BookTypeOK /\ call[s].n \in Ids
  BY DEF BudgetInv, BookTypeOK
<1>2. SameCharges(journal') /\ disk' = spent
  BY <1>1, JournalsKeeps DEF ScriptRejects, Results
<1>3. PICK to \in {"idle", pc[s]} : pc' = [pc EXCEPT ![s] = to]
  BY DEF ScriptRejects
<1>4. /\ UNCHANGED <<sup, life, cancel, spent, claimed, call, runs>>
      /\ cancel' \in BOOLEAN
  BY <1>1 DEF ScriptRejects, BookTypeOK
<1>5. pc' \in [Steps -> CallPcs] /\ call' \in [Steps -> Calls] /\ Paid(pc', call')
  <2>1. pc \in [Steps -> CallPcs] /\ call \in [Steps -> Calls]
    BY <1>1 DEF BookTypeOK, Calls
  <2>2. Paid(pc, call)
    BY DEF BudgetInv, Paid, PaidPcs
  <2>3. to \in CallPcs
    BY <1>3, <2>1 DEF CallPcs
  <2>4. ASSUME NEW t \in Steps
        PROVE  pc'[t] = pc[t] \/ pc'[t] = "idle"
    BY <1>3, <2>1
  <2> QED BY <1>3, <1>4, <2>1, <2>2, <2>3, <2>4 DEF Paid, PaidPcs
<1>6. PaidRuns(runs')
  BY <1>1, <1>4, RunsUnchanged, SameRunsPaid
<1> QED BY <1>2, <1>4, <1>5, <1>6, QuietStep

LEMMA OperatorRejectsKeeps ==
  ASSUME BudgetInv, NEW s \in Steps, OperatorRejects(s)
  PROVE  BudgetInv'
<1>1. BookTypeOK /\ journal[s] \in Seq(Rows)
  BY DEF BudgetInv, BookTypeOK
<1>2. PICK i \in DOMAIN journal[s] :
        journal' = [journal EXCEPT ![s] =
                      Append(@, Row("rejected", journal[s][i].n, "missing"))]
  BY DEF OperatorRejects
<1>3. journal[s][i].n \in Ids
  <2>1. journal[s][i] \in Rows
    BY <1>1, <1>2
  <2> QED BY <2>1 DEF Rows
<1> DEFINE row == Row("rejected", journal[s][i].n, "missing")
<1>4. row \in Rows /\ row.type # "budget"
  BY <1>3, RowTypes DEF Results
<1> HIDE DEF row
<1>5. SameCharges(journal')
  BY <1>1, <1>2, <1>4, JournalsCharges DEF row
<1>6. UNCHANGED <<sup, life, cancel, disk, spent, claimed, pc, call, runs>>
  BY DEF OperatorRejects
<1>7. /\ PaidRuns(runs') /\ Paid(pc', call') /\ cancel' \in BOOLEAN
      /\ pc' \in [Steps -> CallPcs] /\ call' \in [Steps -> Calls]
  <2>1. PaidRuns(runs)
    BY <1>1, RunsUnchanged, SameRunsPaid
  <2>2. Paid(pc, call) /\ cancel \in BOOLEAN /\ pc \in [Steps -> CallPcs]
        /\ call \in [Steps -> Calls]
    BY <1>1 DEF BudgetInv, BookTypeOK, Paid, PaidPcs, Calls
  <2> QED BY <1>6, <2>1, <2>2
<1> QED BY <1>5, <1>6, <1>7, QuietStep

LEMMA SignalKeeps ==
  ASSUME BudgetInv, Signal
  PROVE  BudgetInv'
<1>1. cancel' \in BOOLEAN /\ UNCHANGED <<sup, life, disk, spent, journal, claimed, pc, call, runs>>
  BY DEF Signal
<1>2. ChargedKeys' = ChargedKeys /\ ClaimedKeys' = ClaimedKeys
  BY <1>1 DEF ChargedKeys, ClaimedKeys
<1> QED BY <1>1, <1>2 DEF BudgetInv, BookTypeOK

(* The supervisor's memory goes; the journal and the children stay.        *)
LEMMA GoneKeeps ==
  ASSUME BudgetInv, NEW how \in {"exited", "lost"}, Gone(how),
         disk' \in {disk, spent}, SameRuns(runs')
  PROVE  BudgetInv'
<1>1. /\ sup' = how /\ cancel' = FALSE /\ spent' = 0 /\ claimed' = [s \in Steps |-> {}]
      /\ pc' = [s \in Steps |-> "idle"] /\ call' = [s \in Steps |-> NoCall]
      /\ UNCHANGED <<life, journal>>
  BY DEF Gone
<1>2. NoCall \in Calls /\ "idle" \in CallPcs /\ 0 \in 0 .. Total
  BY Bounds DEF NoCall, Calls, CallPcs
<1>3. BookTypeOK'
  BY <1>1, <1>2 DEF BudgetInv, BookTypeOK, SameRuns, Calls
<1>4. ChargedKeys' = ChargedKeys
  BY <1>1 DEF ChargedKeys
<1>5. PaidRuns(runs')
  BY SameRunsPaid
<1>6. \A s \in Steps : pc'[s] = "idle"
  BY <1>1
<1> QED BY <1>1, <1>3, <1>4, <1>5, <1>6 DEF BudgetInv, PaidRuns

LEMMA ScriptEndsKeeps ==
  ASSUME BudgetInv, ScriptEnds
  PROVE  BudgetInv'
<1>1. Gone("exited") /\ disk' = spent
  BY DEF ScriptEnds
<1>2. PICK quiet \in BOOLEAN :
        \/ runs' = [s \in Steps |-> CancelRuns(runs[s], Ids, quiet)]
        \/ runs' = runs
  BY DEF ScriptEnds
<1>3. SameRuns([s \in Steps |-> CancelRuns(runs[s], Ids, quiet)])
  <2>1. \A s \in Steps : SameKeys(runs[s], CancelRuns(runs[s], Ids, quiet))
    BY CancelKeepsKeys DEF BudgetInv, BookTypeOK
  <2> QED BY <2>1 DEF SameRuns, SameKeys
<1>4. SameRuns(runs')
  BY <1>2, <1>3, RunsUnchanged DEF BudgetInv
<1> QED BY <1>1, <1>4, GoneKeeps

LEMMA CrashKeeps ==
  ASSUME BudgetInv, Crash
  PROVE  BudgetInv'
<1>1. Gone("lost") /\ UNCHANGED <<disk, runs>>
  BY DEF Crash
<1>2. SameRuns(runs')
  BY <1>1, RunsUnchanged DEF BudgetInv
<1> QED BY <1>1, <1>2, GoneKeeps

(* The successor counts the rows.                                          *)
LEMMA BootsKeeps ==
  ASSUME BudgetInv, life < Lives, Boots, SameRuns(runs')
  PROVE  BudgetInv'
<1>1. /\ sup' = "up" /\ life' = life + 1 /\ cancel' = FALSE
      /\ claimed' = [s \in Steps |-> Charged(journal[s])]
      /\ spent' = Biggest(disk, Cardinality(ChargedKeys)) /\ disk' = spent'
      /\ pc' = [s \in Steps |-> "idle"] /\ call' = [s \in Steps |-> NoCall]
      /\ UNCHANGED journal
  BY DEF Boots
<1>2. NoCall \in Calls /\ "idle" \in CallPcs
  BY Bounds DEF NoCall, Calls, CallPcs
<1>3. IsFiniteSet(ChargedKeys) /\ Cardinality(ChargedKeys) \in Nat
  BY KeysFinite, FS_Subset, FS_CardinalityType DEF ChargedKeys
<1>4. /\ Cardinality(ChargedKeys) <= Total /\ disk \in 0 .. Total
      /\ life \in 1 .. Lives
  BY DEF BudgetInv, BookTypeOK
<1>5. spent' \in 0 .. Total /\ Cardinality(ChargedKeys) <= spent' /\ life' \in 1 .. Lives
  BY <1>1, <1>3, <1>4, Bounds DEF Biggest
<1>6. ASSUME NEW s \in Steps
      PROVE  Charged(journal[s]) \subseteq Ids
  <2>1. journal[s] \in Seq(Rows)
    BY DEF BudgetInv, BookTypeOK
  <2>2. \A i \in DOMAIN journal[s] : journal[s][i] \in Rows
    BY <2>1
  <2>3. \A row \in Rows : row.n \in Ids
    BY DEF Rows
  <2> QED BY <2>2, <2>3 DEF Charged
<1>7. BookTypeOK'
  BY <1>1, <1>2, <1>5, <1>6 DEF BudgetInv, BookTypeOK, SameRuns, Calls
<1>8. ChargedKeys' = ChargedKeys
  BY <1>1 DEF ChargedKeys
<1>9. ClaimedKeys' = ChargedKeys
  BY <1>1 DEF ChargedKeys, ClaimedKeys
<1>10. PaidRuns(runs')
  BY SameRunsPaid
<1>11. \A s \in Steps : pc'[s] = "idle" /\ claimed'[s] = Charged(journal[s])
  BY <1>1
<1> QED BY <1>1, <1>4, <1>5, <1>7, <1>8, <1>9, <1>10, <1>11 DEF BudgetInv, PaidRuns

LEMMA ResumeKeeps ==
  ASSUME BudgetInv, Resume
  PROVE  BudgetInv'
<1>1. PICK quiet \in BOOLEAN :
        /\ runs' = [s \in Steps |-> CancelRuns(runs[s], Ids, quiet)]
        /\ \/ Boots
           \/ UNCHANGED <<sup, life, cancel, disk, spent, journal, claimed, mem, pc, call>>
  BY DEF Resume
<1>2. SameRuns(runs')
  <2>1. \A s \in Steps : SameKeys(runs[s], CancelRuns(runs[s], Ids, quiet))
    BY CancelKeepsKeys DEF BudgetInv, BookTypeOK
  <2> QED BY <1>1, <2>1 DEF SameRuns, SameKeys
<1>3. CASE Boots
  BY <1>2, <1>3, BootsKeeps DEF Resume
<1>4. CASE UNCHANGED <<sup, life, cancel, disk, spent, journal, claimed, mem, pc, call>>
  <2>1. /\ PaidRuns(runs') /\ SameCharges(journal)
    BY <1>2, SameRunsPaid, JournalUnchanged DEF BudgetInv
  <2>2. Paid(pc, call) /\ cancel \in BOOLEAN /\ pc \in [Steps -> CallPcs]
        /\ call \in [Steps -> Calls]
    BY DEF BudgetInv, BookTypeOK, Paid, PaidPcs, Calls
  <2> QED BY <1>4, <2>1, <2>2, QuietStep
<1> QED BY <1>1, <1>3, <1>4

-----------------------------------------------------------------------------

LEMMA InitBudget == Init => BudgetInv
<1> SUFFICES ASSUME Init PROVE BudgetInv
  OBVIOUS
<1>1. /\ sup = "up" /\ life = 1 /\ cancel = FALSE /\ disk = 0 /\ spent = 0
      /\ journal = [s \in Steps |-> <<>>] /\ claimed = [s \in Steps |-> {}]
      /\ pc = [s \in Steps |-> "idle"] /\ call = [s \in Steps |-> NoCall]
      /\ runs = [s \in Steps |-> <<>>]
  BY DEF Init
<1>2. NoCall \in Calls /\ "idle" \in CallPcs
  BY Bounds DEF NoCall, Calls, CallPcs
<1>3. BookTypeOK
  <2>1. /\ sup \in {"up", "exited", "lost"} /\ cancel \in BOOLEAN
        /\ life \in 1 .. Lives /\ disk \in 0 .. Total /\ spent \in 0 .. Total
    <3>1. /\ sup \in {"up", "exited", "lost"} /\ cancel \in BOOLEAN
      BY <1>1
    <3>2. life = 1 /\ disk = 0 /\ spent = 0
      BY <1>1
    <3>3. 1 \in 1 .. Lives /\ 0 \in 0 .. Total
      BY Bounds
    <3> QED BY <3>1, <3>2, <3>3
  <2>2. journal \in [Steps -> Seq(Rows)] /\ runs \in [Steps -> Seq(ChildRuns)]
    BY <1>1
  <2>3. claimed \in [Steps -> SUBSET Ids] /\ pc \in [Steps -> CallPcs]
        /\ call \in [Steps -> Calls]
    BY <1>1, <1>2
  <2> QED BY <2>1, <2>2, <2>3 DEF BookTypeOK, Calls
<1>4. \A s \in Steps : Charged(journal[s]) = {} /\ claimed[s] = {}
  BY <1>1 DEF Charged
<1>5. ChargedKeys = {} /\ ClaimedKeys = {}
  BY <1>4 DEF ChargedKeys, ClaimedKeys
<1>6. Cardinality(ChargedKeys) = 0 /\ Cardinality(ClaimedKeys) = 0
  BY <1>5, FS_EmptySet
<1> QED BY <1>1, <1>3, <1>4, <1>6, Bounds DEF BudgetInv

LEMMA CallStepKeeps ==
  ASSUME BudgetInv, NEW s \in Steps, CallStep(s) \/ ChildTimesOut(s)
  PROVE  BudgetInv'
<1>1. CASE Call(s)
  BY <1>1, CallKeeps
<1>2. CASE CacheHit(s)
  BY <1>2, CacheHitKeeps
<1>3. CASE Adopt(s)
  BY <1>3, AdoptKeeps
<1>4. CASE WaitEnds(s)
  BY <1>4, WaitEndsKeeps
<1>5. CASE WaitTimesOut(s)
  BY <1>5, WaitTimesOutKeeps
<1>6. CASE Claim(s)
  BY <1>6, ClaimKeeps
<1>7. CASE Charge(s)
  BY <1>7, ChargeKeeps
<1>8. CASE SaveStatus(s)
  BY <1>8, SaveStatusKeeps
<1>9. CASE Start(s)
  BY <1>9, StartKeeps
<1>10. CASE Launch(s)
  BY <1>10, LaunchKeeps
<1>11. CASE ChildReturns(s)
  BY <1>11, ChildReturnsKeeps
<1>12. CASE ChildCancelled(s)
  BY <1>12, ChildCancelledKeeps
<1>13. CASE Backoff(s)
  BY <1>13, BackoffKeeps
<1>14. CASE ChildTimesOut(s)
  BY <1>14, ChildTimesOutKeeps
<1> QED BY <1>1, <1>2, <1>3, <1>4, <1>5, <1>6, <1>7, <1>8, <1>9, <1>10, <1>11, <1>12,
           <1>13, <1>14 DEF CallStep

(* Init and every step establish BudgetInv, for every value of the         *)
(* constants: claims, charges and children stay in step across the lives.  *)
THEOREM BudgetInvariant == Spec => []BudgetInv
<1>1. ASSUME BudgetInv, [Next]_vars
      PROVE  BudgetInv'
  <2>1. CASE \E s \in Steps : CallStep(s) \/ ChildTimesOut(s)
    BY <1>1, <2>1, CallStepKeeps
  <2>2. CASE \E s \in Steps : ChildSteps(s) \/ ScriptRejects(s) \/ OperatorRejects(s)
    BY <1>1, <2>2, ChildStepsKeeps, ScriptRejectsKeeps, OperatorRejectsKeeps
  <2>3. CASE ScriptEnds \/ Signal \/ Crash \/ Resume
    BY <1>1, <2>3, ScriptEndsKeeps, SignalKeeps, CrashKeeps, ResumeKeeps
  <2>4. CASE UNCHANGED vars
    <3>1. ChargedKeys' = ChargedKeys /\ ClaimedKeys' = ClaimedKeys
      BY <2>4 DEF vars, ChargedKeys, ClaimedKeys
    <3> QED BY <1>1, <2>4, <3>1 DEF vars, BudgetInv, BookTypeOK
  <2> QED BY <1>1, <2>1, <2>2, <2>3, <2>4 DEF Next
<1> QED BY <1>1, InitBudget, PTL DEF Spec

(* The budget holds for every workflow, however often its supervisor is    *)
(* lost between a claim, its journal row and status.json (Budget.claim,    *)
(* append_event, _load_replay).                                            *)
THEOREM BudgetNeverOverspent == Spec => []NeverOverspent
<1>1. ASSUME BudgetInv
      PROVE  NeverOverspent
  <2>1. LaunchedKeys \subseteq ChargedKeys
    BY <1>1 DEF BudgetInv, LaunchedKeys, ChargedKeys
  <2> QED BY <1>1, <2>1 DEF BudgetInv, NeverOverspent
<1> QED BY <1>1, BudgetInvariant, PTL

-----------------------------------------------------------------------------
(* The children, where every child registers while its supervisor lives.   *)

NoneAlive(rs) == \A i \in DOMAIN rs : rs[i].phase \notin Alive

(* A cancel revives nothing.                                               *)
LEMMA CancelCalms ==
  ASSUME NEW rs \in Seq(ChildRuns), NEW K, NEW quiet \in BOOLEAN
  PROVE  /\ DOMAIN CancelRuns(rs, K, quiet) = DOMAIN rs
         /\ Len(CancelRuns(rs, K, quiet)) = Len(rs)
         /\ \A i \in DOMAIN rs :
              CancelRuns(rs, K, quiet)[i].phase \in Alive
                => CancelRuns(rs, K, quiet)[i].phase = rs[i].phase
         /\ NoneAlive(rs) => NoneAlive(CancelRuns(rs, K, quiet))
<1> DEFINE rt == CancelRuns(rs, K, quiet)
<1>1. DOMAIN rt = DOMAIN rs /\ Len(rt) = Len(rs)
  <2>1. rt \in Seq(ChildRuns)
    BY CancelKeepsKeys DEF SameKeys
  <2>2. DOMAIN rt = DOMAIN rs
    BY DEF CancelRuns
  <2> QED BY <2>1, <2>2
<1>2. ASSUME NEW i \in DOMAIN rs, rt[i].phase \in Alive
      PROVE  rt[i].phase = rs[i].phase
  <2>1. rs[i] \in ChildRuns
    OBVIOUS
  <2>2. [rs[i] EXCEPT !.phase = AfterCancel(@, quiet)].phase = AfterCancel(rs[i].phase, quiet)
    BY <2>1 DEF ChildRuns
  <2>3. rt[i].phase \in {rs[i].phase, AfterCancel(rs[i].phase, quiet)}
    BY <2>2 DEF CancelRuns
  <2>4. AfterCancel(rs[i].phase, quiet) \in {rs[i].phase, "cancelled"}
    BY DEF AfterCancel
  <2> QED BY <1>2, <2>3, <2>4 DEF Alive
<1> QED BY <1>1, <1>2 DEF NoneAlive

(* A killed launcher's run is not at work any more.                        *)
LEMMA KillEnds ==
  ASSUME NEW phase, NEW after \in AfterKill(phase)
  PROVE  after \notin Alive
BY DEF AfterKill, Alive

(* A thread of a live supervisor leaves its step without a child at work,  *)
(* or with the one it waits for.                                           *)
LEMMA ThreadKeepsChild ==
  ASSUME BudgetInv, ChildInv, NEW s \in Steps, sup = "up", sup' = sup,
         \A t \in Steps \ {s} : pc'[t] = pc[t] /\ runs'[t] = runs[t],
         \A i \in DOMAIN runs'[s] :
           runs'[s][i].phase \in Alive => pc'[s] = "child" /\ i = Len(runs'[s])
  PROVE  ChildInv'
<1> SUFFICES ASSUME NEW t \in Steps, NEW i \in DOMAIN runs'[t], runs'[t][i].phase \in Alive
             PROVE  pc'[t] = "child" /\ i = Len(runs'[t])
  BY DEF ChildInv, Child
<1>1. CASE t = s
  BY <1>1
<1>2. CASE t # s
  BY <1>2 DEF ChildInv, Child
<1> QED BY <1>1, <1>2

(* One that was not waiting for a child and at most cancels.               *)
LEMMA CancelKeepsChild ==
  ASSUME BudgetInv, ChildInv, NEW s \in Steps, sup = "up", sup' = sup, NoneAlive(runs[s]),
         NEW to, pc' = [pc EXCEPT ![s] = to], NEW K, NEW quiet \in BOOLEAN,
         runs' = runs \/ runs' = [runs EXCEPT ![s] = CancelRuns(@, K, quiet)]
  PROVE  ChildInv'
<1>1. runs \in [Steps -> Seq(ChildRuns)] /\ pc \in [Steps -> CallPcs] /\ runs[s] \in Seq(ChildRuns)
  BY DEF BudgetInv, BookTypeOK
<1>2. NoneAlive(CancelRuns(runs[s], K, quiet))
  BY <1>1, CancelCalms
<1>3. runs'[s] = runs[s] \/ runs'[s] = CancelRuns(runs[s], K, quiet)
  BY <1>1
<1>4. NoneAlive(runs'[s])
  BY <1>2, <1>3
<1>5. \A t \in Steps \ {s} : pc'[t] = pc[t] /\ runs'[t] = runs[t]
  BY <1>1
<1> QED BY <1>4, <1>5, ThreadKeepsChild DEF NoneAlive

LEMMA NotWaiting ==
  ASSUME ChildInv, sup = "up", NEW s \in Steps, pc[s] # "child"
  PROVE  NoneAlive(runs[s])
BY DEF ChildInv, NoneAlive

LEMMA LookupKeepsChild ==
  ASSUME BudgetInv, ChildInv, NEW s \in Steps,
         Call(s) \/ CacheHit(s) \/ Adopt(s) \/ WaitEnds(s) \/ WaitTimesOut(s)
  PROVE  ChildInv'
<1>1. sup = "up" /\ sup' = sup /\ pc[s] # "child"
  BY DEF Call, CacheHit, Adopt, WaitEnds, WaitTimesOut
<1>2. NoneAlive(runs[s])
  BY <1>1, NotWaiting
<1>3. \E to, K : \E quiet \in BOOLEAN :
        /\ pc' = [pc EXCEPT ![s] = to]
        /\ runs' = runs \/ runs' = [runs EXCEPT ![s] = CancelRuns(runs[s], K, quiet)]
  <2>1. CASE Call(s)
    <3>1. PICK n \in Ids, quiet \in BOOLEAN :
            \E K : runs' = [runs EXCEPT ![s] = CancelRuns(runs[s], K, quiet)]
      BY <2>1 DEF Call
    <3>2. \E to : pc' = [pc EXCEPT ![s] = to]
      BY <2>1 DEF Call
    <3> QED BY <3>1, <3>2
  <2>2. CASE CacheHit(s)
    BY <2>2 DEF CacheHit
  <2>3. CASE Adopt(s)
    <3>1. [runs EXCEPT ![s] = runs[s]] = runs
      BY DEF BudgetInv, BookTypeOK
    <3>2. \E to, K : \E quiet \in BOOLEAN :
            /\ pc' = [pc EXCEPT ![s] = to]
            /\ \/ runs' = runs \/ runs' = [runs EXCEPT ![s] = runs[s]]
               \/ runs' = [runs EXCEPT ![s] = CancelRuns(runs[s], K, quiet)]
      BY <2>3, ZenonT(60) DEF Adopt, AdoptAnswer
    <3> QED BY <3>1, <3>2
  <2>4. CASE WaitEnds(s)
    BY <2>4 DEF WaitEnds, AdoptAnswer
  <2>5. CASE WaitTimesOut(s)
    BY <2>5 DEF WaitTimesOut, AdoptAnswer
  <2> QED BY <2>1, <2>2, <2>3, <2>4, <2>5
<1>4. PICK to, K : \E quiet \in BOOLEAN :
        /\ pc' = [pc EXCEPT ![s] = to]
        /\ runs' = runs \/ runs' = [runs EXCEPT ![s] = CancelRuns(runs[s], K, quiet)]
  BY <1>3
<1> QED BY <1>1, <1>2, <1>4, CancelKeepsChild

LEMMA BooksKeepChild ==
  ASSUME BudgetInv, ChildInv, NEW s \in Steps,
         Claim(s) \/ Charge(s) \/ SaveStatus(s) \/ Start(s) \/ Backoff(s)
  PROVE  ChildInv'
<1>1. sup = "up" /\ sup' = sup /\ pc[s] # "child" /\ runs' = runs
  BY DEF Claim, Charge, SaveStatus, Start, Backoff
<1>2. PICK to : pc' = [pc EXCEPT ![s] = to]
  BY DEF Claim, Charge, SaveStatus, Start, Backoff
<1> QED BY <1>1, <1>2, NotWaiting, CancelKeepsChild

LEMMA LaunchKeepsChild ==
  ASSUME BudgetInv, ChildInv, NEW s \in Steps, Launch(s)
  PROVE  ChildInv'
<1> DEFINE r == [n |-> call[s].n, life |-> life, phase |-> "starting", ord |-> 0]
<1>1. /\ sup = "up" /\ sup' = sup /\ pc[s] # "child"
      /\ pc' = [pc EXCEPT ![s] = "child"] /\ runs' = [runs EXCEPT ![s] = Append(@, r)]
  BY DEF Launch
<1>2. runs \in [Steps -> Seq(ChildRuns)] /\ pc \in [Steps -> CallPcs] /\ runs[s] \in Seq(ChildRuns)
  BY DEF BudgetInv, BookTypeOK
<1>3. NoneAlive(runs[s])
  BY <1>1, NotWaiting
<1>4. r \in ChildRuns
  BY DEF BudgetInv, BookTypeOK, ChildRuns, Phases
<1> HIDE DEF r
<1>5. runs'[s] = Append(runs[s], r) /\ pc'[s] = "child"
  BY <1>1, <1>2
<1>6. ASSUME NEW i \in DOMAIN Append(runs[s], r), i # Len(Append(runs[s], r))
      PROVE  Append(runs[s], r)[i].phase \notin Alive
  <2>1. i \in DOMAIN runs[s] /\ Append(runs[s], r)[i] = runs[s][i]
    BY <1>2, <1>4, <1>6
  <2> QED BY <1>3, <2>1 DEF NoneAlive
<1>7. \A t \in Steps \ {s} : pc'[t] = pc[t] /\ runs'[t] = runs[t]
  BY <1>1, <1>2
<1> QED BY <1>1, <1>5, <1>6, <1>7, ThreadKeepsChild

(* A call that stops waiting has no child at work any more.                *)
LEMMA WaitKeepsChild ==
  ASSUME BudgetInv, ChildInv, NEW s \in Steps,
         ChildReturns(s) \/ ChildTimesOut(s) \/ ChildCancelled(s)
  PROVE  ChildInv'
<1>0. runs \in [Steps -> Seq(ChildRuns)] /\ pc \in [Steps -> CallPcs] /\ runs[s] \in Seq(ChildRuns)
  BY DEF BudgetInv, BookTypeOK
<1>1. sup = "up" /\ sup' = sup
  BY DEF ChildReturns, ChildTimesOut, ChildCancelled
<1>2. \E to : pc' = [pc EXCEPT ![s] = to]
  BY DEF ChildReturns, ChildTimesOut, ChildCancelled, FailedAttempt, Finish
<1>3. \A i \in DOMAIN runs[s] : runs[s][i].phase \in Alive => i = Child(s)
  BY DEF ChildInv
<1>4. ASSUME NEW phase, phase \notin Alive
      PROVE  NoneAlive([runs[s] EXCEPT ![Child(s)].phase = phase])
  <2> DEFINE killed == [runs[s] EXCEPT ![Child(s)].phase = phase]
  <2>1. DOMAIN killed = DOMAIN runs[s]
    OBVIOUS
  <2>2. ASSUME NEW i \in DOMAIN runs[s]
        PROVE  killed[i].phase \notin Alive
    <3>1. runs[s][i] \in ChildRuns
      BY <1>0
    <3>2. CASE i = Child(s)
      <4>1. killed[i] = [runs[s][i] EXCEPT !.phase = phase]
        BY <3>2
      <4>2. [runs[s][i] EXCEPT !.phase = phase].phase = phase
        BY <3>1 DEF ChildRuns
      <4> QED BY <1>4, <4>1, <4>2
    <3>3. CASE i # Child(s)
      BY <1>3, <3>3
    <3> QED BY <3>2, <3>3
  <2> QED BY <2>1, <2>2 DEF NoneAlive
<1>5. NoneAlive(runs'[s]) /\ \A t \in Steps \ {s} : runs'[t] = runs[t]
  <2>1. CASE ChildReturns(s)
    <3>1. runs' = runs /\ runs[s][Child(s)].phase \notin Alive
      BY <2>1 DEF ChildReturns, Phase
    <3> QED BY <1>3, <3>1 DEF NoneAlive
  <2>2. CASE ChildTimesOut(s)
    <3>1. PICK phase \in AfterKill(runs[s][Child(s)].phase), quiet \in BOOLEAN :
            runs' = [runs EXCEPT ![s] =
                       CancelRuns([runs[s] EXCEPT ![Child(s)].phase = phase],
                                  {call[s].n}, quiet)]
      BY <2>2 DEF ChildTimesOut, Phase
    <3> DEFINE killed == [runs[s] EXCEPT ![Child(s)].phase = phase]
    <3>2. phase \notin Alive
      BY KillEnds
    <3>3. SameKeys(runs[s], killed)
      <4>1. Child(s) \in Nat
        BY <1>0 DEF Child
      <4> QED BY <4>1, KillKeepsKeys
    <3>4. NoneAlive(killed) /\ killed \in Seq(ChildRuns)
      BY <1>4, <3>2, <3>3 DEF SameKeys
    <3> HIDE DEF killed
    <3>5. NoneAlive(CancelRuns(killed, {call[s].n}, quiet))
      BY <3>4, CancelCalms
    <3>6. runs' = [runs EXCEPT ![s] = CancelRuns(killed, {call[s].n}, quiet)]
      BY <3>1 DEF killed
    <3> QED BY <1>0, <3>5, <3>6
  <2>3. CASE ChildCancelled(s)
    <3>1. PICK phase \in AfterKill(runs[s][Child(s)].phase) :
            runs' = [runs EXCEPT ![s][Child(s)].phase = phase]
      BY <2>3 DEF ChildCancelled, Phase
    <3>2. runs' = [runs EXCEPT ![s] = [runs[s] EXCEPT ![Child(s)].phase = phase]]
      BY <3>1
    <3>3. NoneAlive([runs[s] EXCEPT ![Child(s)].phase = phase])
      BY <1>4, KillEnds
    <3> QED BY <1>0, <3>2, <3>3
  <2> QED BY <2>1, <2>2, <2>3
<1>6. \A t \in Steps \ {s} : pc'[t] = pc[t]
  BY <1>0, <1>2
<1> QED BY <1>1, <1>5, <1>6, ThreadKeepsChild DEF NoneAlive

(* A child's own step makes no other child alive, and none start anew.     *)
LEMMA ChildStepsKeepsChild ==
  ASSUME BudgetInv, ChildInv, NEW s \in Steps, ChildSteps(s)
  PROVE  ChildInv'
<1>0. runs \in [Steps -> Seq(ChildRuns)] /\ runs[s] \in Seq(ChildRuns)
  BY DEF BudgetInv, BookTypeOK
<1>a. PICK ord : \E i \in DOMAIN runs[s] : \E phase \in NextPhases(runs[s][i].phase) :
        runs' = [runs EXCEPT ![s][i].phase = phase, ![s][i].ord = ord]
  <2>1. PICK i \in DOMAIN runs[s] : \E phase \in NextPhases(runs[s][i].phase) :
          runs' = [runs EXCEPT ![s][i].phase = phase,
                               ![s][i].ord = IF phase = "registered"
                                 THEN Cardinality({j \in DOMAIN runs[s] : runs[s][j].ord # 0}) + 1
                                 ELSE runs[s][i].ord]
    BY DEF ChildSteps
  <2> QED BY <2>1
<1>1. PICK i \in DOMAIN runs[s] : \E phase \in NextPhases(runs[s][i].phase) :
        runs' = [runs EXCEPT ![s][i].phase = phase, ![s][i].ord = ord]
  BY <1>a
<1>b. PICK phase \in NextPhases(runs[s][i].phase) :
        runs' = [runs EXCEPT ![s][i].phase = phase, ![s][i].ord = ord]
  BY <1>1
<1>2. runs[s][i] \in ChildRuns
  BY <1>0
<1> DEFINE r == [[runs[s][i] EXCEPT !.phase = phase] EXCEPT !.ord = ord]
<1>3. r.phase = phase
  BY <1>2 DEF ChildRuns
<1>4. runs' = [runs EXCEPT ![s] = [runs[s] EXCEPT ![i] = r]]
  BY <1>0, <1>b
<1> HIDE DEF r
<1>5. UNCHANGED <<sup, pc>>
  BY DEF ChildSteps
<1>6. runs[s][i].phase \in Alive /\ phase # "starting"
  BY DEF NextPhases, Alive
<1>7. /\ \A t \in Steps \ {s} : runs'[t] = runs[t]
      /\ DOMAIN runs'[s] = DOMAIN runs[s] /\ Len(runs'[s]) = Len(runs[s])
      /\ runs'[s][i] = r
      /\ \A j \in DOMAIN runs[s] \ {i} : runs'[s][j] = runs[s][j]
  BY <1>0, <1>4
<1> SUFFICES ASSUME NEW t \in Steps, NEW j \in DOMAIN runs'[t], runs'[t][j].phase \in Alive
             PROVE  /\ j = Len(runs'[t]) /\ sup # "exited"
                    /\ sup = "up" => pc[t] = "child"
                    /\ sup = "lost" => runs'[t][j].phase # "starting"
  BY <1>5 DEF ChildInv, Child
<1>8. CASE t # s
  BY <1>7, <1>8 DEF ChildInv, Child
<1>9. CASE t = s /\ j # i
  BY <1>7, <1>9 DEF ChildInv, Child
<1>10. CASE t = s /\ j = i
  BY <1>3, <1>6, <1>7, <1>10 DEF ChildInv, Child
<1> QED BY <1>8, <1>9, <1>10

LEMMA RejectsKeepChild ==
  ASSUME BudgetInv, ChildInv, NEW s \in Steps, ScriptRejects(s) \/ OperatorRejects(s)
  PROVE  ChildInv'
<1>1. CASE ScriptRejects(s)
  <2>1. UNCHANGED <<sup, runs>> /\ pc \in [Steps -> CallPcs]
        /\ pc' = [pc EXCEPT ![s] = IF @ = "done" /\ s \in Keyed THEN "idle" ELSE @]
    BY <1>1 DEF ScriptRejects, BudgetInv, BookTypeOK
  <2>2. \A t \in Steps : pc[t] = "child" => pc'[t] = "child"
    BY <2>1
  <2> QED BY <2>1, <2>2 DEF ChildInv, Child
<1>2. CASE OperatorRejects(s)
  <2>1. UNCHANGED <<sup, runs, pc>>
    BY <1>2 DEF OperatorRejects
  <2> QED BY <2>1 DEF ChildInv, Child
<1> QED BY <1>1, <1>2

(* A script that is over has no call left that waits for a child.          *)
LEMMA ScriptEndsKeepsChild ==
  ASSUME BudgetInv, ChildInv, ScriptEnds
  PROVE  ChildInv'
<1>1. \A s \in Steps : NoneAlive(runs[s]) /\ runs[s] \in Seq(ChildRuns)
  BY NotWaiting DEF ScriptEnds, BudgetInv, BookTypeOK
<1>2. PICK quiet \in BOOLEAN :
        \/ runs' = [s \in Steps |-> CancelRuns(runs[s], Ids, quiet)]
        \/ runs' = runs
  BY DEF ScriptEnds
<1>3. \A s \in Steps : NoneAlive(CancelRuns(runs[s], Ids, quiet))
  BY <1>1, CancelCalms
<1>4. \A s \in Steps : NoneAlive(runs'[s])
  BY <1>1, <1>2, <1>3
<1> QED BY <1>4 DEF ChildInv, NoneAlive

(* What is left at work after a crash has registered.                      *)
LEMMA CrashKeepsChild ==
  ASSUME BudgetInv, ChildInv, ~LateChildren, Crash
  PROVE  ChildInv'
<1>1. /\ sup = "up" /\ sup' = "lost" /\ runs' = runs
      /\ \A s \in Steps : \A i \in DOMAIN runs[s] : runs[s][i].phase # "starting"
  BY DEF Crash, Gone
<1> QED BY <1>1 DEF ChildInv, Child

(* So the resume can cancel it, and refuses to boot when it cannot.        *)
LEMMA ResumeKeepsChild ==
  ASSUME BudgetInv, ChildInv, Resume
  PROVE  ChildInv'
<1>0. \A s \in Steps : runs[s] \in Seq(ChildRuns)
  BY DEF BudgetInv, BookTypeOK
<1>1. PICK quiet \in BOOLEAN :
        /\ runs' = [s \in Steps |-> CancelRuns(runs[s], Ids, quiet)]
        /\ \/ (\A s \in Steps : ~CancelFails(runs[s], Ids, quiet)) /\ Boots
           \/ UNCHANGED <<sup, life, cancel, disk, spent, journal, claimed, mem, pc, call>>
  BY DEF Resume
<1>2. \A s \in Steps :
        /\ runs'[s] = CancelRuns(runs[s], Ids, quiet)
        /\ DOMAIN runs'[s] = DOMAIN runs[s] /\ Len(runs'[s]) = Len(runs[s])
        /\ \A i \in DOMAIN runs[s] :
             runs'[s][i].phase \in Alive => runs'[s][i].phase = runs[s][i].phase
  BY <1>0, <1>1, CancelCalms
<1>3. CASE UNCHANGED <<sup, life, cancel, disk, spent, journal, claimed, mem, pc, call>>
  <2> SUFFICES ASSUME NEW s \in Steps, NEW i \in DOMAIN runs'[s], runs'[s][i].phase \in Alive
               PROVE  /\ i = Len(runs'[s]) /\ sup # "exited"
                      /\ sup = "up" => pc[s] = "child"
                      /\ sup = "lost" => runs'[s][i].phase # "starting"
    BY <1>3 DEF ChildInv, Child
  <2>1. i \in DOMAIN runs[s] /\ runs[s][i].phase \in Alive /\ runs'[s][i].phase = runs[s][i].phase
    BY <1>2
  <2> QED BY <1>2, <2>1 DEF ChildInv, Child
<1>4. CASE (\A s \in Steps : ~CancelFails(runs[s], Ids, quiet)) /\ Boots
  <2>1. ASSUME NEW s \in Steps, NEW i \in DOMAIN runs[s]
        PROVE  runs'[s][i].phase \notin Alive
    <3>1. runs[s][i] \in ChildRuns /\ runs[s][i].n \in Ids
      <4>1. runs[s][i] \in ChildRuns
        BY <1>0
      <4> QED BY <4>1 DEF ChildRuns
    <3>2. AfterCancel(runs[s][i].phase, quiet) \notin {"registered", "running"}
      BY <1>4, <3>1 DEF CancelFails
    <3>3. runs[s][i].phase \in Alive => runs[s][i].phase \in {"registered", "running"}
      <4>1. sup # "up" /\ sup \in {"up", "exited", "lost"}
        BY DEF Resume, BudgetInv, BookTypeOK
      <4> QED BY <4>1 DEF ChildInv, Alive
    <3>4. runs'[s][i].phase = AfterCancel(runs[s][i].phase, quiet)
      <4>1. runs'[s][i] = [runs[s][i] EXCEPT !.phase = AfterCancel(@, quiet)]
        BY <1>2, <3>1 DEF CancelRuns
      <4>2. [runs[s][i] EXCEPT !.phase = AfterCancel(@, quiet)].phase
              = AfterCancel(runs[s][i].phase, quiet)
        BY <3>1 DEF ChildRuns
      <4> QED BY <4>1, <4>2
    <3>5. AfterCancel(runs[s][i].phase, quiet) \in {runs[s][i].phase, "cancelled"}
      BY DEF AfterCancel
    <3> QED BY <3>2, <3>3, <3>4, <3>5 DEF Alive
  <2> QED BY <1>2, <2>1 DEF ChildInv
<1> QED BY <1>1, <1>3, <1>4

-----------------------------------------------------------------------------

LEMMA ChildInvariant ==
  ASSUME ~LateChildren
  PROVE  Spec => []ChildInv
<1>1. Init => ChildInv
  BY DEF Init, ChildInv
<1>2. ASSUME BudgetInv, ChildInv, [Next]_vars
      PROVE  ChildInv'
  <2>1. CASE \E s \in Steps : CallStep(s) \/ ChildTimesOut(s)
    BY <1>2, <2>1, LookupKeepsChild, BooksKeepChild, LaunchKeepsChild, WaitKeepsChild
    DEF CallStep
  <2>2. CASE \E s \in Steps : ChildSteps(s) \/ ScriptRejects(s) \/ OperatorRejects(s)
    BY <1>2, <2>2, ChildStepsKeepsChild, RejectsKeepChild
  <2>3. CASE ScriptEnds \/ Crash \/ Resume
    BY <1>2, <2>3, ScriptEndsKeepsChild, CrashKeepsChild, ResumeKeepsChild
  <2>4. CASE Signal \/ UNCHANGED vars
    <3>1. UNCHANGED <<sup, runs, pc>>
      BY <2>4 DEF Signal, vars
    <3> QED BY <1>2, <3>1 DEF ChildInv, Child
  <2> QED BY <1>2, <2>1, <2>2, <2>3, <2>4 DEF Next
<1> QED BY <1>1, <1>2, BudgetInvariant, PTL DEF Spec

(* With no late child, a step has at most one child at work, whatever      *)
(* times out, is retried, rejected, lost or resumed (_run_child_lifecycle, *)
(* _cancel_workflow_runs), and a supervisor that ends by itself has none.  *)
THEOREM OneChildAtATime ==
  ASSUME ~LateChildren
  PROVE  Spec => [](OneChild /\ ExitLeavesNoChild)
<1>1. ChildInv => OneChild /\ ExitLeavesNoChild
  BY DEF ChildInv, OneChild, ExitLeavesNoChild
<1> QED BY <1>1, ChildInvariant, PTL

(* With no late child, a supervisor that ended by itself left no child at  *)
(* work: its script cancelled or waited for every one it launched.         *)
THEOREM ExitedSupervisorsLeaveNoChild ==
  ASSUME ~LateChildren
  PROVE  Spec => []ExitLeavesNoChild
BY OneChildAtATime, PTL

=============================================================================
