--------------------------- MODULE MailboxProofs ---------------------------
(* Proofs about the mailbox, for any lanes, senders and numbers of messages: *)
(* a send that dies anywhere, a hook whose two files are written one after   *)
(* the other, and a lane that ends while its mail arrives.                   *)
EXTENDS Mailbox, WellFoundedInduction, TLAPS

Outcomes == {"blocked", "skipped", "failed", "delivered"}
Letters == [from : Parties, seq : 1..MaxMail, rows : UNION {[D -> Outcomes] : D \in SUBSET Parties}]
SendTypes == [at : {"idle", "ledgered", "numbered", "published"}, msg : Nat,
              todo : SUBSET Parties, cur : Parties \cup {NoParty}]
PendingTypes == [ids : SUBSET Messages, last : Nat, emitted : BOOLEAN]
PumpTypes == [at : {"idle", "promoted", "emit", "mark"}, batch : SUBSET Messages]
SendShape ==
  /\ mailLock \in Parties \cup {NoParty} /\ nextSeq \in Nat \ {0}
  /\ ledger \in Seq(Letters) /\ Len(ledger) <= MaxMail
  /\ inbox \in [Parties -> SUBSET Messages] /\ readBox \in [Parties -> SUBSET Messages]
  /\ sending \in [Parties -> SendTypes] /\ \A s \in Parties : sending[s].msg <= Len(ledger)
LaneShape ==
  /\ lane \in [Lanes -> LaneStates] /\ unread \in [Lanes -> SUBSET Messages]
  /\ recordLock \in [Lanes -> BOOLEAN]
HookShape ==
  /\ cursor \in [Lanes -> Nat] /\ shown \in [Lanes -> SUBSET Messages]
  /\ pending \in [Lanes -> PendingTypes] /\ pump \in [Lanes -> PumpTypes]

(* A message in a box was addressed to it, and numbers follow the ledgers.  *)
Published == {m \in Messages : \E p \in Parties : InBox(m, p)}
BoxInv ==
  /\ nextSeq <= Len(ledger) + 1
  /\ \A m \in Messages, p \in Parties :
       InBox(m, p) => /\ NumberOf(m) < nextSeq
                      /\ p \in DOMAIN ledger[m].rows /\ ledger[m].rows[p] \in {"failed", "delivered"}
  /\ \A m, n \in Published : m < n => NumberOf(m) < NumberOf(n)

(* The last message may still be on its way: its sender has the lock, and   *)
(* it alone has the highest number.  Its open recipients do not have it,    *)
(* and nothing their pump has seen reaches its number.                      *)
Open(s) == sending[s].todo \ {sending[s].cur}
Sending(s) ==
  LET m == sending[s].msg IN
  /\ mailLock = s /\ m = Len(ledger) /\ m \in Messages
  /\ sending[s].todo \subseteq DOMAIN ledger[m].rows
  /\ \A r \in sending[s].todo : ledger[m].rows[r] = "failed"
  /\ sending[s].at = "ledgered" => NumberOf(m) = nextSeq /\ nextSeq <= Len(ledger) /\ m \notin Published
  /\ sending[s].at # "ledgered" => NumberOf(m) + 1 = nextSeq
  /\ sending[s].at = "published" => sending[s].cur \in sending[s].todo
  /\ sending[s].at # "published" => sending[s].cur = NoParty
  /\ \A n \in Published \ {m} : NumberOf(n) < NumberOf(m)
  /\ \A r \in Open(s) : ~InBox(m, r)
Unseen(s) ==
  /\ \A l \in Open(s) \cap Lanes :
       cursor[l] < NumberOf(sending[s].msg) /\ pending[l].last < NumberOf(sending[s].msg)
  /\ \A l \in sending[s].todo \cap Lanes : Running(l) \/ ~recordLock[l]
SenderInv == \A s \in Parties : sending[s].at # "idle" => Sending(s) /\ Unseen(s)

(* What the hook's files say of a lane's inbox.                             *)
Hooked(l) ==
  /\ cursor[l] < nextSeq /\ pending[l].last < nextSeq
  /\ pending[l].ids = {} => pending[l] = NoPending
  /\ pending[l].emitted => pending[l].ids \subseteq shown[l]
  /\ \A m \in inbox[l] : /\ NumberOf(m) <= cursor[l] => m \in shown[l]
                         /\ NumberOf(m) > cursor[l] /\ NumberOf(m) <= pending[l].last => m \in pending[l].ids
  /\ pump[l].at \in {"emit", "mark"} => pending[l].ids = pump[l].batch /\ pump[l].batch # {}
  /\ pump[l].at = "mark" => pump[l].batch \subseteq shown[l]
  /\ pump[l].at = "promoted" => pending[l].emitted /\ cursor[l] = pending[l].last
HookInv == \A l \in Lanes : Hooked(l)
MailInv == SendShape /\ LaneShape /\ HookShape /\ BoxInv /\ SenderInv /\ HookInv /\ UnreadIsReported

LEMMA MailParties == Lanes \subseteq Parties /\ Lead \in Parties /\ NoParty \notin Parties
BY MailAssumption DEF Parties

LEMMA NumbersAre ==
  ASSUME SendShape, NEW m \in Messages
  PROVE  /\ ledger[m] \in Letters /\ m \in Nat \ {0} /\ m <= Len(ledger)
         /\ NumberOf(m) \in 1..MaxMail /\ NumberOf(m) \in Nat /\ MaxMail \in Nat
         /\ DOMAIN ledger[m].rows \subseteq Parties
         /\ \A r \in DOMAIN ledger[m].rows : ledger[m].rows[r] \in Outcomes
<1>1. ledger[m] \in Letters /\ m \in Nat \ {0} /\ m <= Len(ledger)
  BY DEF SendShape, Messages
<1>2. ledger[m].seq \in 1..MaxMail /\ MaxMail \in Nat
  BY <1>1, MailAssumption DEF Letters
<1>3. PICK D \in SUBSET Parties : ledger[m].rows \in [D -> Outcomes]
  BY <1>1 DEF Letters
<1> QED BY <1>1, <1>2, <1>3 DEF NumberOf

LEMMA BoxesHold ==
  ASSUME SendShape, NEW p \in Parties
  PROVE  /\ inbox[p] \subseteq Messages /\ readBox[p] \subseteq Messages
         /\ \A m \in inbox[p] : InBox(m, p) /\ m \in Published
BY DEF SendShape, InBox, Published

(* While nobody holds the lock, nobody sends.                               *)
LEMMA UnlockedIsQuiet ==
  ASSUME SenderInv, mailLock = NoParty
  PROVE  \A s \in Parties : sending[s].at = "idle"
BY MailParties DEF SenderInv, Sending

(* Only the holder of the lock sends.                                       *)
LEMMA OneSends ==
  ASSUME SenderInv, NEW s \in Parties, sending[s].at # "idle"
  PROVE  \A t \in Parties \ {s} : sending[t].at = "idle"
BY DEF SenderInv, Sending

(* The greatest of a set of numbers up to k.                                *)
LEMMA MaxIs ==
  ASSUME NEW b \in SUBSET Nat, b # {}, NEW k \in Nat, \A x \in b : x <= k
  PROVE  Max(b) \in b /\ \A y \in b : y <= Max(b)
<1> DEFINE T == {k - x : x \in b}
           R == {p \in Nat \X Nat : p[1] < p[2]}
<1>1. T \subseteq Nat /\ T # {}
  <2>1. \A x \in b : k - x \in Nat
    OBVIOUS
  <2> QED BY <2>1
<1>2. IsWellFoundedOn(R, Nat)
  BY NatLessThanWellFounded DEF OpToRel
<1>3. PICK t \in T : \A u \in T : <<u, t>> \notin R
  <2> HIDE DEF T, R
  <2> QED BY <1>1, <1>2, WFMin
<1>4. PICK x \in b : t = k - x
  OBVIOUS
<1>5. \A y \in b : x >= y
  <2> SUFFICES ASSUME NEW y \in b, ~(x >= y) PROVE FALSE
    OBVIOUS
  <2>1. k - y \in T /\ k - y \in Nat /\ t \in Nat /\ k - y < t
    BY <1>4
  <2>2. <<k - y, t>> \in R
    BY <2>1
  <2> QED BY <1>3, <2>1, <2>2
<1> HIDE DEF T, R
<1>6. Max(b) \in b /\ \A y \in b : Max(b) >= y
  BY <1>5 DEF Max
<1> QED BY <1>6

-----------------------------------------------------------------------------
(* Steps of senders and readers leave the hook alone.                       *)

SameNumbers == \A m \in Messages : m \in Messages' /\ ledger'[m].seq = ledger[m].seq

LEMMA HookStays ==
  ASSUME SendShape, HookShape, HookInv, UNCHANGED pumpVars, nextSeq' \in Nat, nextSeq <= nextSeq',
         SameNumbers,
         \A l \in Lanes : \A m \in inbox'[l] :
            m \in inbox[l] \/ ~(ledger'[m].seq <= cursor[l] \/ ledger'[m].seq <= pending[l].last)
  PROVE  HookInv'
<1> SUFFICES ASSUME NEW l \in Lanes
             PROVE  Hooked(l)'
  BY DEF HookInv
<1>1. /\ Hooked(l) /\ nextSeq \in Nat /\ cursor[l] \in Nat /\ pending[l].last \in Nat
      /\ UNCHANGED <<cursor, pending, pump, shown>>
  BY DEF HookInv, HookShape, PendingTypes, SendShape, pumpVars
<1>2. ASSUME NEW m \in inbox'[l]
      PROVE  /\ ledger'[m].seq <= cursor[l] => m \in shown[l]
             /\ ledger'[m].seq > cursor[l] /\ ledger'[m].seq <= pending[l].last => m \in pending[l].ids
  <2>1. CASE m \in inbox[l]
    <3>1. m \in Messages
      BY <2>1, BoxesHold, MailParties
    <3> QED BY <1>1, <2>1, <3>1 DEF SameNumbers, Hooked, NumberOf
  <2>2. CASE ~(ledger'[m].seq <= cursor[l] \/ ledger'[m].seq <= pending[l].last)
    BY <2>2
  <2> QED BY <2>1, <2>2
<1> QED BY <1>1, <1>2 DEF Hooked, NumberOf, NoPending

LEMMA HookShapeStays ==
  ASSUME HookShape, LaneShape, UNCHANGED <<laneVars, pumpVars>>, Messages \subseteq Messages'
  PROVE  HookShape' /\ LaneShape'
BY DEF HookShape, LaneShape, laneVars, pumpVars, PendingTypes, PumpTypes

LEMMA ReportStays ==
  ASSUME UnreadIsReported, UNCHANGED <<laneVars, pumpVars>>,
         \A l \in Lanes : inbox'[l] \subseteq inbox[l] \/ Running(l) \/ ~recordLock[l]
  PROVE  UnreadIsReported'
BY DEF UnreadIsReported, laneVars, pumpVars, Running

LEMMA PublishedStays ==
  ASSUME SendShape, UNCHANGED <<inbox, readBox>>, Messages \subseteq Messages'
  PROVE  Published' = Published
BY DEF SendShape, Published, InBox

(* What a step owes that keeps the boxes, their ledgers and the hook.       *)
LEMMA SenderMoves ==
  ASSUME MailInv, UNCHANGED <<laneVars, pumpVars, inbox, readBox>>,
         SendShape', SenderInv', BoxInv', nextSeq <= nextSeq', SameNumbers, Messages \subseteq Messages'
  PROVE  MailInv'
<1>1. HookShape' /\ LaneShape' /\ UnreadIsReported'
  BY HookShapeStays, ReportStays DEF MailInv
<1>2. HookInv'
  BY HookStays DEF MailInv, SendShape
<1> QED BY <1>1, <1>2 DEF MailInv

LEMMA SendRecordsKeeps ==
  ASSUME MailInv, NEW s \in Parties, SendRecords(s)
  PROVE  MailInv'
<1>0. SendShape /\ LaneShape /\ HookShape /\ BoxInv /\ SenderInv /\ HookInv /\ UnreadIsReported
  BY DEF MailInv
<1>1. PICK to \in Addressed(s) :
        LET rows == [r \in to |-> FirstOutcome(s, r)] IN
        /\ ledger' = Append(ledger, [from |-> s, seq |-> nextSeq, rows |-> rows])
        /\ sending' = [sending EXCEPT ![s] =
             [at |-> "ledgered", msg |-> Len(ledger) + 1,
              todo |-> {r \in to : rows[r] = "failed"}, cur |-> NoParty]]
  BY DEF SendRecords
<1> DEFINE rows == [r \in to |-> FirstOutcome(s, r)]
           letter == [from |-> s, seq |-> nextSeq, rows |-> rows]
           todo == {r \in to : rows[r] = "failed"}
           m == Len(ledger) + 1
<1>2. /\ mailLock = NoParty /\ mailLock' = s /\ Len(ledger) < MaxMail
      /\ UNCHANGED <<nextSeq, inbox, readBox, laneVars, pumpVars>>
  BY DEF SendRecords
<1>3. to \subseteq Parties
  BY MailParties DEF Addressed
<1>4. letter \in Letters
  <2>1. rows \in [to -> Outcomes]
    BY DEF FirstOutcome, Outcomes
  <2>2. nextSeq \in 1..MaxMail
    BY <1>0, <1>2, MailAssumption DEF SendShape, BoxInv
  <2> HIDE DEF rows
  <2> QED BY <1>3, <2>1, <2>2 DEF Letters
<1> HIDE DEF rows
<1>5. /\ ledger' \in Seq(Letters) /\ Len(ledger') = m /\ ledger'[m] = letter /\ m \in Nat \ {0}
      /\ Messages' = Messages \cup {m} /\ m \notin Messages
      /\ \A n \in Messages : ledger'[n] = ledger[n]
  <2>1. ledger \in Seq(Letters) /\ ledger' = Append(ledger, letter)
    BY <1>0, <1>1 DEF SendShape, rows
  <2> HIDE DEF letter
  <2> QED BY <1>4, <2>1 DEF Messages
<1>6. /\ sending' = [sending EXCEPT ![s] = [at |-> "ledgered", msg |-> m, todo |-> todo, cur |-> NoParty]]
      /\ todo \subseteq Parties /\ todo \subseteq to
  BY <1>1, <1>3 DEF rows
<1>7. SendShape'
  <2>1. sending' \in [Parties -> SendTypes] /\ \A t \in Parties : sending'[t].msg <= m
    <3>1. [at |-> "ledgered", msg |-> m, todo |-> todo, cur |-> NoParty] \in SendTypes
      BY <1>5, <1>6 DEF SendTypes
    <3>2. sending' \in [Parties -> SendTypes]
      BY <1>0, <1>6, <3>1 DEF SendShape
    <3>3. \A t \in Parties : sending[t].msg \in Nat /\ sending[t].msg <= Len(ledger) /\ Len(ledger) \in Nat
      BY <1>0 DEF SendShape, SendTypes
    <3> QED BY <1>0, <1>6, <3>2, <3>3 DEF SendShape
  <2>2. Len(ledger') <= MaxMail
    BY <1>2, <1>5, MailAssumption DEF SendShape
  <2> QED BY <1>0, <1>2, <1>5, <2>1, <2>2 DEF SendShape
<1>8. SameNumbers /\ Messages \subseteq Messages'
  BY <1>5 DEF SameNumbers
<1>9. Published' = Published
  BY <1>0, <1>2, <1>8, PublishedStays
<1>10. \A p \in Parties : /\ ~InBox(m, p)
                          /\ \A n : InBox(n, p)' <=> InBox(n, p)
  BY <1>0, <1>2, <1>5, BoxesHold DEF InBox
<1>11. BoxInv'
  <2>1. Len(ledger) \in Nat /\ nextSeq \in Nat
    BY <1>0 DEF SendShape
  <2> QED BY <1>0, <1>2, <1>5, <1>9, <1>10, <2>1 DEF BoxInv, NumberOf, Published
<1>12. SenderInv'
  <2>1. \A t \in Parties \ {s} : sending'[t].at = "idle"
    BY <1>0, <1>2, <1>6, UnlockedIsQuiet DEF SendShape
  <2>2. sending'[s] = [at |-> "ledgered", msg |-> m, todo |-> todo, cur |-> NoParty]
    BY <1>0, <1>6 DEF SendShape
  <2>3. Sending(s)'
    <3>1. \A n \in Published : NumberOf(n)' < nextSeq
      BY <1>0, <1>5 DEF BoxInv, Published, NumberOf
    <3>2. ledger'[m].seq = nextSeq /\ nextSeq <= m
      BY <1>0, <1>5 DEF BoxInv
    <3>3. todo \subseteq DOMAIN ledger'[m].rows /\ \A r \in todo : ledger'[m].rows[r] = "failed"
      BY <1>5, <1>6 DEF rows
    <3>4. m \notin Published
      BY <1>5 DEF Published
    <3> HIDE DEF m
    <3> QED BY <1>2, <1>5, <1>6, <1>9, <1>10, <2>2, <3>1, <3>2, <3>3, <3>4 DEF Sending, Open, NumberOf
  <2>4. Unseen(s)'
    <3>1. \A l \in todo \cap Lanes : Running(l)
      BY <1>6, MailAssumption DEF rows, FirstOutcome, Eligible
    <3>2. \A l \in Lanes : cursor[l] < nextSeq /\ pending[l].last < nextSeq
      BY <1>0 DEF HookInv, Hooked
    <3> QED BY <1>2, <1>5, <2>2, <3>1, <3>2 DEF Unseen, Open, NumberOf, Running, laneVars, pumpVars
  <2> QED BY <2>1, <2>3, <2>4 DEF SenderInv
<1> QED BY <1>2, <1>7, <1>8, <1>11, <1>12, SenderMoves DEF SendShape, MailInv

LEMMA SendNumbersKeeps ==
  ASSUME MailInv, NEW s \in Parties, SendNumbers(s)
  PROVE  MailInv'
<1>0. SendShape /\ LaneShape /\ HookShape /\ BoxInv /\ SenderInv /\ HookInv /\ UnreadIsReported
  BY DEF MailInv
<1> DEFINE m == sending[s].msg
<1>1. /\ sending[s].at = "ledgered" /\ nextSeq' = NumberOf(m) + 1
      /\ sending' = [sending EXCEPT ![s].at = "numbered"]
      /\ UNCHANGED <<mailLock, ledger, inbox, readBox, laneVars, pumpVars>>
  BY DEF SendNumbers, NumberOf
<1>2. Sending(s) /\ Unseen(s)
  BY <1>0, <1>1 DEF SenderInv
<1>3. m \in Messages /\ NumberOf(m) = nextSeq /\ nextSeq <= Len(ledger) /\ nextSeq \in Nat \ {0}
  BY <1>0, <1>1, <1>2 DEF Sending, SendShape
<1>4. SendShape'
  <2>1. sending' \in [Parties -> SendTypes]
    <3>1. sending[s] \in SendTypes
      BY <1>0 DEF SendShape
    <3>2. [sending[s] EXCEPT !.at = "numbered"] \in SendTypes
      BY <3>1 DEF SendTypes
    <3> QED BY <1>0, <1>1, <3>2 DEF SendShape
  <2>2. NumberOf(m) + 1 \in Nat \ {0}
    BY <1>3
  <2> QED BY <1>0, <1>1, <2>1, <2>2 DEF SendShape, Messages
<1>5. SameNumbers /\ Messages' = Messages
  BY <1>1 DEF SameNumbers, Messages
<1>6. Published' = Published
  BY <1>0, <1>1, <1>5, PublishedStays
<1>7. BoxInv'
  BY <1>0, <1>1, <1>3, <1>5, <1>6, NumbersAre DEF BoxInv, NumberOf, InBox
<1>8. SenderInv'
  <2>1. \A t \in Parties \ {s} : sending'[t].at = "idle"
    BY <1>0, <1>1, OneSends DEF SendShape
  <2>2. sending'[s] = [sending[s] EXCEPT !.at = "numbered"] /\ sending[s] \in SendTypes
    BY <1>0, <1>1 DEF SendShape
  <2>3. /\ sending'[s].msg = m /\ sending'[s].todo = sending[s].todo /\ sending'[s].at = "numbered"
        /\ sending'[s].cur = sending[s].cur
    BY <2>2 DEF SendTypes
  <2>4. Sending(s)' /\ Unseen(s)'
    BY <1>1, <1>2, <1>3, <1>5, <1>6, <2>3 DEF Sending, Unseen, Open, InBox, NumberOf, Running, laneVars, pumpVars
  <2> QED BY <2>1, <2>4 DEF SenderInv
<1> QED BY <1>1, <1>3, <1>4, <1>5, <1>7, <1>8, SenderMoves


LEMMA SendPublishesKeeps ==
  ASSUME MailInv, NEW s \in Parties, SendPublishes(s)
  PROVE  MailInv'
<1>0. SendShape /\ LaneShape /\ HookShape /\ BoxInv /\ SenderInv /\ HookInv /\ UnreadIsReported
  BY DEF MailInv
<1> DEFINE m == sending[s].msg
<1>1. PICK r \in sending[s].todo :
        /\ inbox' = [inbox EXCEPT ![r] = @ \cup {m}]
        /\ sending' = [sending EXCEPT ![s].at = "published", ![s].cur = r]
  BY DEF SendPublishes
<1>2. /\ sending[s].at = "numbered"
      /\ UNCHANGED <<mailLock, nextSeq, ledger, readBox, laneVars, pumpVars>>
  BY DEF SendPublishes
<1>3. Sending(s) /\ Unseen(s)
  BY <1>0, <1>2 DEF SenderInv
<1>4. /\ m \in Messages /\ m = Len(ledger) /\ NumberOf(m) + 1 = nextSeq /\ NumberOf(m) \in Nat
      /\ nextSeq \in Nat /\ r \in Parties /\ r \in Open(s) /\ sending[s] \in SendTypes
      /\ r \in DOMAIN ledger[m].rows /\ ledger[m].rows[r] = "failed"
      /\ \A n \in Published \ {m} : NumberOf(n) < NumberOf(m)
  <2>1. m \in Messages /\ sending[s].todo \subseteq Parties /\ sending[s] \in SendTypes
    BY <1>0, <1>3 DEF Sending, SendShape, SendTypes
  <2> QED BY <1>0, <1>1, <1>2, <1>3, <2>1, NumbersAre, MailParties DEF Sending, Open, SendShape
<1>5. SendShape'
  <2>1. inbox' \in [Parties -> SUBSET Messages]
    BY <1>0, <1>1, <1>4 DEF SendShape
  <2>2. sending' \in [Parties -> SendTypes] /\ \A t \in Parties : sending'[t].msg <= Len(ledger)
    <3>1. [sending[s] EXCEPT !.at = "published", !.cur = r] \in SendTypes
      BY <1>4 DEF SendTypes
    <3>2. sending' = [sending EXCEPT ![s] = [sending[s] EXCEPT !.at = "published", !.cur = r]]
      BY <1>0, <1>1, <1>4 DEF SendShape
    <3> QED BY <1>0, <1>4, <3>1, <3>2 DEF SendShape, SendTypes
  <2> QED BY <1>0, <1>2, <2>1, <2>2 DEF SendShape, Messages
<1>6. SameNumbers /\ Messages' = Messages
  BY <1>2 DEF SameNumbers, Messages
<1>8. \A p \in Parties : \A n : InBox(n, p)' => InBox(n, p) \/ (n = m /\ p = r)
  BY <1>0, <1>1, <1>2, <1>4 DEF InBox, SendShape
<1>9. Published' \subseteq Published \cup {m}
  BY <1>6, <1>8 DEF Published
<1>10. BoxInv'
  <2>1. ASSUME NEW n \in Messages, NEW p \in Parties, InBox(n, p)'
        PROVE  /\ ledger[n].seq < nextSeq
               /\ p \in DOMAIN ledger[n].rows /\ ledger[n].rows[p] \in {"failed", "delivered"}
    BY <1>0, <1>4, <1>8, <2>1 DEF BoxInv, NumberOf
  <2>2. ASSUME NEW n \in Published', NEW k \in Published', n < k
        PROVE  ledger[n].seq < ledger[k].seq
    <3>1. n \in Messages /\ k \in Messages /\ n <= m /\ n \in Nat /\ m \in Nat /\ k \in Nat /\ k <= m
      BY <1>4, <1>6, <1>0 DEF Published, Messages
    <3>2. n \in Published \ {m}
      BY <1>9, <2>2, <3>1
    <3> QED BY <1>0, <1>4, <1>9, <2>2, <3>2 DEF BoxInv, NumberOf
  <2> QED BY <1>0, <1>2, <1>6, <2>1, <2>2 DEF BoxInv, NumberOf
<1>11. SenderInv'
  <2>1. \A t \in Parties \ {s} : sending'[t].at = "idle"
    BY <1>0, <1>1, <1>2, OneSends DEF SendShape
  <2>2. /\ sending'[s].msg = m /\ sending'[s].todo = sending[s].todo /\ sending'[s].at = "published"
        /\ sending'[s].cur = r
    BY <1>0, <1>1, <1>4 DEF SendShape, SendTypes
  <2>3. Open(s)' \subseteq Open(s) /\ r \notin Open(s)'
    BY <1>2, <1>3, <2>2, <1>4, MailParties DEF Open, Sending, SendTypes
  <2>4. Open(s)' \subseteq Parties
    BY <1>4, <2>2 DEF Open, SendTypes
  <2>5. \A p \in Open(s)' : m \notin inbox'[p] \cup readBox'[p]
    <3>1. \A p \in Open(s) : ~InBox(m, p)
      BY <1>3 DEF Sending
    <3> QED BY <1>8, <2>3, <2>4, <3>1 DEF InBox
  <2>6. Sending(s)'
    <3>1. sending[s].msg = m
      OBVIOUS
    <3>2. Sending(s)' <=>
            /\ mailLock' = s /\ m = Len(ledger) /\ m \in Messages
            /\ sending[s].todo \subseteq DOMAIN ledger[m].rows
            /\ \A q \in sending[s].todo : ledger[m].rows[q] = "failed"
            /\ ledger[m].seq + 1 = nextSeq
            /\ r \in sending[s].todo
            /\ \A n \in Published' \ {m} : ledger[n].seq < ledger[m].seq
            /\ \A q \in Open(s)' : m \notin inbox'[q] \cup readBox'[q]
      <4> HIDE DEF m
      <4> QED BY <1>2, <1>6, <2>2 DEF Sending, NumberOf, InBox
    <3> HIDE DEF m
    <3> QED BY <1>1, <1>2, <1>3, <1>4, <1>9, <2>5, <3>1, <3>2 DEF Sending, NumberOf
  <2>7. Unseen(s)'
    BY <1>2, <1>3, <2>2, <2>3 DEF Unseen, NumberOf, Running, laneVars, pumpVars
  <2> QED BY <2>1, <2>6, <2>7 DEF SenderInv
<1>12. HookInv'
  <2>1. \A l \in Lanes : \A n \in inbox'[l] : n \in inbox[l] \/ (n = m /\ l = r)
    BY <1>0, <1>1, <1>4, MailParties DEF SendShape
  <2>2. r \in Lanes => cursor[r] < ledger[m].seq /\ pending[r].last < ledger[m].seq
    BY <1>3, <1>4 DEF Unseen, NumberOf
  <2>3. r \in Lanes => cursor[r] \in Nat /\ pending[r].last \in Nat /\ ledger[m].seq \in Nat
    BY <1>0, <1>4 DEF HookShape, PendingTypes, NumberOf
  <2>4. \A l \in Lanes : \A n \in inbox'[l] :
          n \in inbox[l] \/ ~(ledger'[n].seq <= cursor[l] \/ ledger'[n].seq <= pending[l].last)
    BY <1>2, <2>1, <2>2, <2>3
  <2> QED BY <1>0, <1>2, <1>4, <1>6, <2>4, HookStays
<1>13. UnreadIsReported'
  <2>1. \A l \in Lanes : inbox'[l] \subseteq inbox[l] \/ l = r
    BY <1>0, <1>1, <1>4, MailParties DEF SendShape
  <2>2. r \in Lanes => Running(r) \/ ~recordLock[r]
    BY <1>3 DEF Unseen
  <2> QED BY <1>0, <1>2, <2>1, <2>2, ReportStays
<1> QED BY <1>0, <1>2, <1>5, <1>6, <1>10, <1>11, <1>12, <1>13, HookShapeStays DEF MailInv

LEMMA SendMissesKeeps ==
  ASSUME MailInv, NEW s \in Parties, SendMisses(s)
  PROVE  MailInv'
<1>0. SendShape /\ LaneShape /\ HookShape /\ BoxInv /\ SenderInv /\ HookInv /\ UnreadIsReported
  BY DEF MailInv
<1> DEFINE m == sending[s].msg
<1>1. PICK r \in sending[s].todo : sending' = [sending EXCEPT ![s].todo = @ \ {r}]
  BY DEF SendMisses
<1>2. /\ sending[s].at = "numbered"
      /\ UNCHANGED <<mailLock, nextSeq, ledger, inbox, readBox, laneVars, pumpVars>>
  BY DEF SendMisses
<1>3. Sending(s) /\ Unseen(s)
  BY <1>0, <1>2 DEF SenderInv
<1>4. SendShape'
  <2>1. [sending[s] EXCEPT !.todo = sending[s].todo \ {r}] \in SendTypes
    <3>1. sending[s] \in SendTypes
      BY <1>0 DEF SendShape
    <3> QED BY <3>1 DEF SendTypes
  <2>2. sending' = [sending EXCEPT ![s] = [sending[s] EXCEPT !.todo = sending[s].todo \ {r}]]
    BY <1>0, <1>1 DEF SendShape, SendTypes
  <2>3. sending' \in [Parties -> SendTypes] /\ \A t \in Parties : sending'[t].msg <= Len(ledger)
    BY <1>0, <2>1, <2>2 DEF SendShape, SendTypes
  <2> QED BY <1>0, <1>2, <2>3 DEF SendShape, Messages
<1>5. SameNumbers /\ Messages' = Messages
  BY <1>2 DEF SameNumbers, Messages
<1>6. Published' = Published
  BY <1>0, <1>2, <1>5, PublishedStays
<1>7. BoxInv'
  BY <1>0, <1>2, <1>5, <1>6 DEF BoxInv, NumberOf, InBox
<1>8. SenderInv'
  <2>1. \A t \in Parties \ {s} : sending'[t].at = "idle"
    BY <1>0, <1>1, <1>2, OneSends DEF SendShape
  <2>2. /\ sending'[s].msg = m /\ sending'[s].todo = sending[s].todo \ {r}
        /\ sending'[s].at = "numbered" /\ sending'[s].cur = sending[s].cur
    BY <1>0, <1>1, <1>2 DEF SendShape, SendTypes
  <2>3. Sending(s)'
    <3> HIDE DEF m
    <3> QED BY <1>2, <1>3, <1>5, <1>6, <2>2 DEF Sending, Open, InBox, NumberOf, m
  <2>4. Unseen(s)'
    BY <1>2, <1>3, <2>2 DEF Unseen, Open, NumberOf, Running, laneVars, pumpVars
  <2> QED BY <2>1, <2>3, <2>4 DEF SenderInv
<1> QED BY <1>0, <1>2, <1>4, <1>5, <1>7, <1>8, SenderMoves DEF SendShape

LEMMA SendNotesKeeps ==
  ASSUME MailInv, NEW s \in Parties, SendNotes(s)
  PROVE  MailInv'
<1>0. SendShape /\ LaneShape /\ HookShape /\ BoxInv /\ SenderInv /\ HookInv /\ UnreadIsReported
  BY DEF MailInv
<1> DEFINE m == sending[s].msg
           r == sending[s].cur
           sent == [sending[s] EXCEPT !.at = "numbered", !.todo = sending[s].todo \ {r}, !.cur = NoParty]
           letter == [ledger[m] EXCEPT !.rows = [ledger[m].rows EXCEPT ![r] = "delivered"]]
<1>1. /\ sending[s].at = "published"
      /\ UNCHANGED <<mailLock, nextSeq, inbox, readBox, laneVars, pumpVars>>
  BY DEF SendNotes
<1>2. Sending(s) /\ Unseen(s)
  BY <1>0, <1>1 DEF SenderInv
<1>3. /\ m \in Messages /\ sending[s] \in SendTypes /\ r \in sending[s].todo
      /\ r \in DOMAIN ledger[m].rows /\ ledger[m] \in Letters
  BY <1>0, <1>1, <1>2, NumbersAre DEF Sending, SendShape
<1>4. ledger' = [ledger EXCEPT ![m] = letter] /\ sending' = [sending EXCEPT ![s] = sent]
  <2>1. ledger' = [ledger EXCEPT ![m].rows[r] = "delivered"]
    BY DEF SendNotes
  <2>2. ledger' = [ledger EXCEPT ![m] = letter]
    <3>1. m \in DOMAIN ledger
      BY <1>0, <1>3 DEF SendShape, Messages
    <3>2. PICK D \in SUBSET Parties : ledger[m].rows \in [D -> Outcomes]
      BY <1>3 DEF Letters
    <3>3. ledger[m] = [from |-> ledger[m].from, seq |-> ledger[m].seq, rows |-> ledger[m].rows]
      BY <1>3 DEF Letters
    <3>4. ledger' = [ledger EXCEPT ![m] = [ledger[m] EXCEPT !.rows = [@ EXCEPT ![r] = "delivered"]]]
      BY <2>1, <3>1
    <3> QED BY <3>3, <3>4
  <2>3. sending' = [sending EXCEPT ![s] = sent]
    <3>1. sending' = [sending EXCEPT ![s].at = "numbered", ![s].todo = @ \ {r}, ![s].cur = NoParty]
      BY DEF SendNotes
    <3>2. sending \in [Parties -> SendTypes]
      BY <1>0 DEF SendShape
    <3> QED BY <1>3, <3>1, <3>2 DEF SendTypes
  <2> QED BY <2>2, <2>3
<1>5. /\ letter \in Letters /\ letter.seq = ledger[m].seq /\ DOMAIN letter.rows = DOMAIN ledger[m].rows
      /\ letter.rows[r] = "delivered"
      /\ \A q \in DOMAIN ledger[m].rows \ {r} : letter.rows[q] = ledger[m].rows[q]
  <2>1. PICK D \in SUBSET Parties : ledger[m].rows \in [D -> Outcomes]
    BY <1>3 DEF Letters
  <2>2. [ledger[m].rows EXCEPT ![r] = "delivered"] \in [D -> Outcomes]
    BY <2>1 DEF Outcomes
  <2> QED BY <1>3, <2>1, <2>2 DEF Letters
<1> HIDE DEF letter
<1>6. /\ ledger' \in Seq(Letters) /\ Len(ledger') = Len(ledger) /\ ledger'[m] = letter
      /\ \A n \in Messages \ {m} : ledger'[n] = ledger[n]
      /\ Messages' = Messages
  BY <1>0, <1>3, <1>4, <1>5 DEF SendShape, Messages
<1>7. /\ sent \in SendTypes /\ sent.msg = m /\ sent.todo = sending[s].todo \ {r} /\ sent.at = "numbered"
      /\ sent.cur = NoParty
  BY <1>3 DEF SendTypes
<1> HIDE DEF sent
<1>8. SendShape'
  <2>1. sending' \in [Parties -> SendTypes] /\ \A t \in Parties : sending'[t].msg <= Len(ledger)
    BY <1>0, <1>4, <1>7 DEF SendShape
  <2> QED BY <1>0, <1>1, <1>6, <2>1 DEF SendShape
<1>9. SameNumbers
  BY <1>5, <1>6 DEF SameNumbers
<1>10. Published' = Published
  BY <1>0, <1>1, <1>6, PublishedStays
<1>11. \A n \in Messages : /\ DOMAIN ledger'[n].rows = DOMAIN ledger[n].rows
                           /\ \A q \in DOMAIN ledger[n].rows : \/ ledger'[n].rows[q] = ledger[n].rows[q]
                                                               \/ ledger'[n].rows[q] = "delivered"
  BY <1>5, <1>6
<1>12. BoxInv'
  <2>1. ASSUME NEW n \in Messages, NEW p \in Parties, InBox(n, p)
        PROVE  /\ ledger'[n].seq < nextSeq
               /\ p \in DOMAIN ledger'[n].rows /\ ledger'[n].rows[p] \in {"failed", "delivered"}
    BY <1>0, <1>9, <1>11, <2>1 DEF BoxInv, NumberOf, SameNumbers
  <2>2. \A n, k \in Published : n \in Messages /\ k \in Messages
    BY DEF Published
  <2>3. \A n, k \in Published : n < k => ledger'[n].seq < ledger'[k].seq
    BY <1>0, <1>9, <2>2 DEF BoxInv, NumberOf, SameNumbers
  <2> QED BY <1>0, <1>1, <1>6, <1>10, <2>1, <2>3 DEF BoxInv, NumberOf, InBox
<1>13. SenderInv'
  <2>1. \A t \in Parties \ {s} : sending'[t].at = "idle"
    BY <1>0, <1>1, <1>4, OneSends DEF SendShape
  <2>2. sending'[s] = sent
    BY <1>0, <1>4 DEF SendShape
  <2>3. Open(s)' = Open(s) /\ NoParty \notin Open(s)
    BY <1>3, <1>7, <2>2, MailParties DEF Open, SendTypes
  <2>4. /\ sent.todo \subseteq DOMAIN ledger'[m].rows
        /\ \A q \in sent.todo : ledger'[m].rows[q] = "failed"
    BY <1>2, <1>5, <1>6, <1>7 DEF Sending
  <2>5. \A n \in Published \cup {m} : ledger'[n].seq = ledger[n].seq
    BY <1>3, <1>9 DEF Published, SameNumbers
  <2>6. Sending(s)'
    <3> HIDE DEF m, r
    <3>1. m = sending[s].msg
      BY DEF m
    <3> QED BY <1>1, <1>2, <1>6, <1>7, <1>10, <2>2, <2>3, <2>4, <2>5, <3>1 DEF Sending, InBox, NumberOf
  <2>7. Unseen(s)'
    <3>1. ledger'[m].seq = ledger[m].seq
      BY <2>5
    <3> QED BY <1>1, <1>2, <1>7, <2>2, <2>3, <3>1 DEF Unseen, NumberOf, Running, laneVars, pumpVars
  <2> QED BY <2>1, <2>6, <2>7 DEF SenderInv
<1> QED BY <1>0, <1>1, <1>6, <1>8, <1>9, <1>12, <1>13, SenderMoves DEF SendShape

(* It is done, or it is killed: its lock is free.                           *)
LEMMA SendStops ==
  ASSUME MailInv, NEW s \in Parties, SendEnds(s) \/ SendDies(s)
  PROVE  MailInv'
<1>0. SendShape /\ LaneShape /\ HookShape /\ BoxInv /\ SenderInv /\ HookInv /\ UnreadIsReported
  BY DEF MailInv
<1>1. /\ sending[s].at # "idle" /\ mailLock' = NoParty /\ sending' = [sending EXCEPT ![s] = NoSend]
      /\ UNCHANGED <<nextSeq, ledger, inbox, readBox, laneVars, pumpVars>>
  BY DEF SendEnds, SendDies
<1>2. SendShape'
  <2>1. NoSend \in SendTypes /\ NoSend.msg = 0
    BY DEF NoSend, SendTypes
  <2>2. sending' \in [Parties -> SendTypes] /\ \A t \in Parties : sending'[t].msg <= Len(ledger)
    BY <1>0, <1>1, <2>1 DEF SendShape
  <2> QED BY <1>0, <1>1, <2>2 DEF SendShape, Messages
<1>3. SameNumbers /\ Messages' = Messages
  BY <1>1 DEF SameNumbers, Messages
<1>4. Published' = Published
  BY <1>0, <1>1, <1>3, PublishedStays
<1>5. BoxInv'
  BY <1>0, <1>1, <1>3, <1>4 DEF BoxInv, NumberOf, InBox
<1>6. SenderInv'
  BY <1>0, <1>1, OneSends DEF SenderInv, SendShape, NoSend
<1> QED BY <1>0, <1>1, <1>2, <1>3, <1>5, <1>6, SenderMoves DEF SendShape

-----------------------------------------------------------------------------
(* Readers and prune: boxes only lose messages.                             *)

LEMMA BoxesShrink ==
  ASSUME MailInv, UNCHANGED <<mailLock, nextSeq, ledger, sending, laneVars, pumpVars>>, mailLock = NoParty,
         inbox' \in [Parties -> SUBSET Messages], readBox' \in [Parties -> SUBSET Messages],
         \A p \in Parties : inbox'[p] \subseteq inbox[p],
         \A p \in Parties : readBox'[p] \subseteq inbox[p] \cup readBox[p]
  PROVE  MailInv'
<1>0. SendShape /\ LaneShape /\ HookShape /\ BoxInv /\ SenderInv /\ HookInv /\ UnreadIsReported
  BY DEF MailInv
<1>1. SendShape' /\ SameNumbers /\ Messages' = Messages
  BY <1>0 DEF SendShape, SameNumbers, Messages
<1>2. \A p \in Parties : \A n : InBox(n, p)' => InBox(n, p)
  BY DEF InBox
<1>3. Published' \subseteq Published
  BY <1>1, <1>2 DEF Published
<1>4. BoxInv'
  BY <1>0, <1>1, <1>2, <1>3 DEF BoxInv, NumberOf
<1>5. SenderInv'
  BY <1>0, UnlockedIsQuiet DEF SenderInv
<1>6. HookInv' /\ UnreadIsReported'
  BY <1>0, <1>1, HookStays, ReportStays, MailParties DEF SendShape
<1> QED BY <1>0, <1>1, <1>4, <1>5, <1>6, HookShapeStays DEF MailInv

LEMMA ReadKeeps ==
  ASSUME MailInv, NEW p \in Parties, ReadMessage(p)
  PROVE  MailInv'
<1>1. SendShape
  BY DEF MailInv
<1>2. PICK m \in inbox[p] : /\ inbox' = [inbox EXCEPT ![p] = @ \ {m}]
                            /\ readBox' = [readBox EXCEPT ![p] = @ \cup {m}]
  BY DEF ReadMessage
<1>3. m \in Messages
  BY <1>1, <1>2, BoxesHold
<1>4. /\ inbox' \in [Parties -> SUBSET Messages] /\ readBox' \in [Parties -> SUBSET Messages]
      /\ \A q \in Parties : inbox'[q] \subseteq inbox[q] /\ readBox'[q] \subseteq inbox[q] \cup readBox[q]
  BY <1>1, <1>2, <1>3 DEF SendShape
<1> QED BY <1>4, BoxesShrink DEF ReadMessage

LEMMA PruneKeeps ==
  ASSUME MailInv, Prune
  PROVE  MailInv'
<1>1. SendShape
  BY DEF MailInv
<1>2. PICK cut : /\ inbox' = [p \in Parties |-> {m \in inbox[p] : m > cut}]
                 /\ readBox' = [p \in Parties |-> {m \in readBox[p] : m > cut}]
  BY DEF Prune
<1>4. /\ inbox' \in [Parties -> SUBSET Messages] /\ readBox' \in [Parties -> SUBSET Messages]
      /\ \A q \in Parties : inbox'[q] \subseteq inbox[q] /\ readBox'[q] \subseteq inbox[q] \cup readBox[q]
  BY <1>1, <1>2 DEF SendShape
<1> QED BY <1>4, BoxesShrink DEF Prune

-----------------------------------------------------------------------------
(* The pump.                                                                *)

LEMMA PumpTyped ==
  ASSUME HookShape, NEW l \in Lanes
  PROVE  /\ cursor[l] \in Nat /\ pending[l] \in PendingTypes /\ pump[l] \in PumpTypes
         /\ shown[l] \in SUBSET Messages
         /\ pending[l].last \in Nat /\ pending[l].ids \subseteq Messages
         /\ pending[l].emitted \in BOOLEAN /\ pump[l].batch \subseteq Messages
         /\ cursor = [cursor EXCEPT ![l] = cursor[l]]
         /\ pending = [pending EXCEPT ![l] = pending[l]]
         /\ shown = [shown EXCEPT ![l] = shown[l]]
BY DEF HookShape, PendingTypes, PumpTypes

(* What a step of a pump owes: its own files in order, and no mark beyond a *)
(* message of its inbox.                                                    *)
LEMMA PumpMoves ==
  ASSUME MailInv, NEW l \in Lanes, NEW c \in Nat, NEW w \in PendingTypes, NEW u \in PumpTypes,
         NEW v \in SUBSET Messages, shown[l] \subseteq v,
         UNCHANGED <<mailLock, nextSeq, ledger, inbox, readBox, sending, laneVars>>,
         cursor' = [cursor EXCEPT ![l] = c], pending' = [pending EXCEPT ![l] = w],
         pump' = [pump EXCEPT ![l] = u], shown' = [shown EXCEPT ![l] = v],
         Hooked(l)',
         \A k \in {c, w.last} :
           k \in {0, cursor[l], pending[l].last} \/ \E n \in inbox[l] : k = NumberOf(n)
  PROVE  MailInv'
<1>0. SendShape /\ LaneShape /\ HookShape /\ BoxInv /\ SenderInv /\ HookInv /\ UnreadIsReported
  BY DEF MailInv
<1>1. Messages' = Messages /\ SendShape' /\ LaneShape' /\ BoxInv'
  BY <1>0 DEF Messages, SendShape, LaneShape, BoxInv, NumberOf, InBox, Published, laneVars
<1>2. HookShape'
  BY <1>0, <1>1 DEF HookShape, PendingTypes, PumpTypes
<1>3. \A k \in Lanes \ {l} : /\ cursor'[k] = cursor[k] /\ pending'[k] = pending[k]
                             /\ pump'[k] = pump[k] /\ shown'[k] = shown[k]
  BY <1>0 DEF HookShape
<1>4. cursor'[l] = c /\ pending'[l] = w /\ shown'[l] = v
  BY <1>0 DEF HookShape
<1>5. HookInv'
  BY <1>0, <1>3 DEF HookInv, Hooked, NumberOf
<1>6. \A k \in Lanes : shown[k] \subseteq shown'[k]
  BY <1>3, <1>4
<1>7. UnreadIsReported'
  BY <1>0, <1>6 DEF UnreadIsReported, laneVars
<1>8. ASSUME NEW s \in Parties, sending[s].at # "idle"
      PROVE  Sending(s)' /\ Unseen(s)'
  <2>1. Sending(s) /\ Unseen(s)
    BY <1>0, <1>8 DEF SenderInv
  <2>2. Sending(s)'
    BY <1>1, <2>1 DEF Sending, Open, NumberOf, InBox, Published
  <2>3. ASSUME NEW k \in Open(s) \cap Lanes
        PROVE  cursor'[k] < NumberOf(sending[s].msg) /\ pending'[k].last < NumberOf(sending[s].msg)
    <3>1. cursor[k] < NumberOf(sending[s].msg) /\ pending[k].last < NumberOf(sending[s].msg)
      BY <2>1 DEF Unseen
    <3>2. CASE k # l
      BY <1>3, <3>1, <3>2
    <3>3. CASE k = l
      <4>1. \A n \in inbox[l] : NumberOf(n) < NumberOf(sending[s].msg)
        BY <1>0, <2>1, <3>3, MailParties, BoxesHold DEF Sending, Open
      <4>2. 0 < NumberOf(sending[s].msg)
        BY <1>0, <2>1, NumbersAre DEF Sending
      <4> QED BY <1>4, <3>1, <3>3, <4>1, <4>2
    <3> QED BY <3>2, <3>3
  <2>4. \A k \in sending[s].todo \cap Lanes : (Running(k) \/ ~recordLock[k])'
    BY <2>1 DEF Unseen, Running, laneVars
  <2>5. Unseen(s)'
    BY <2>3, <2>4 DEF Unseen, Open, NumberOf
  <2> QED BY <2>2, <2>5
<1> QED BY <1>1, <1>2, <1>5, <1>7, <1>8 DEF MailInv, SenderInv

LEMMA InboxNumbers ==
  ASSUME MailInv, NEW l \in Lanes
  PROVE  /\ \A m \in inbox[l] : m \in Messages /\ NumberOf(m) \in Nat \ {0} /\ NumberOf(m) < nextSeq
         /\ \A m, n \in inbox[l] : NumberOf(m) = NumberOf(n) => m = n
         /\ Hooked(l) /\ nextSeq \in Nat
<1>0. SendShape /\ BoxInv /\ HookInv
  BY DEF MailInv
<1>1. \A m \in inbox[l] : m \in Messages /\ InBox(m, l) /\ m \in Published /\ l \in Parties
  BY <1>0, BoxesHold, MailParties
<1>2. \A m \in inbox[l] : NumberOf(m) \in Nat \ {0} /\ m \in Nat
  BY <1>0, <1>1, NumbersAre
<1>3. ASSUME NEW m \in inbox[l], NEW n \in inbox[l], NumberOf(m) = NumberOf(n)
      PROVE  m = n
  <2>1. m \in Nat /\ n \in Nat /\ NumberOf(m) \in Nat
    BY <1>2
  <2>2. ~(m < n) /\ ~(n < m)
    BY <1>0, <1>1, <1>3, <2>1 DEF BoxInv
  <2> QED BY <2>1, <2>2
<1> QED BY <1>0, <1>1, <1>2, <1>3 DEF BoxInv, HookInv, SendShape

LEMMA PumpPromotesKeeps ==
  ASSUME MailInv, NEW l \in Lanes, PumpPromotes(l)
  PROVE  MailInv'
<1>0. HookShape
  BY DEF MailInv
<1> DEFINE u == [pump[l] EXCEPT !.at = "promoted"]
<1>1. /\ cursor' = [cursor EXCEPT ![l] = pending[l].last] /\ pending[l].emitted
      /\ pump' = [pump EXCEPT ![l] = u] /\ pump[l].at = "idle"
      /\ UNCHANGED <<sendVars, laneVars, pending, shown>>
  BY <1>0 DEF PumpPromotes, PumpIdle
<1>2. u \in PumpTypes /\ u.at = "promoted"
  BY <1>0, PumpTyped DEF PumpTypes
<1> HIDE DEF u
<1>3. cursor'[l] = pending[l].last /\ pump'[l] = u
  BY <1>0, <1>1 DEF HookShape
<1>4. Hooked(l)'
  BY <1>0, <1>1, <1>2, <1>3, InboxNumbers, PumpTyped DEF Hooked, NumberOf, sendVars
<1> QED BY <1>0, <1>1, <1>2, <1>4, PumpTyped, PumpMoves DEF sendVars

LEMMA PumpForgetsKeeps ==
  ASSUME MailInv, NEW l \in Lanes, PumpForgets(l)
  PROVE  MailInv'
<1>0. HookShape
  BY DEF MailInv
<1>1. /\ pending' = [pending EXCEPT ![l] = NoPending] /\ pump' = [pump EXCEPT ![l] = NoPump]
      /\ UNCHANGED <<sendVars, laneVars, cursor, shown>>
  BY DEF PumpForgets
<1>2. /\ NoPending \in PendingTypes /\ NoPump \in PumpTypes /\ NoPending.last = 0
      /\ NoPending.ids = {} /\ NoPending.emitted = FALSE /\ NoPump.at = "idle"
  BY DEF NoPending, NoPump, PendingTypes, PumpTypes
<1>3. pending'[l] = NoPending /\ pump'[l] = NoPump
  BY <1>0, <1>1 DEF HookShape
<1>4. Hooked(l)'
  BY <1>0, <1>1, <1>2, <1>3, InboxNumbers, PumpTyped DEF Hooked, NumberOf, sendVars
<1> QED BY <1>0, <1>1, <1>2, <1>4, PumpTyped, PumpMoves DEF sendVars

LEMMA PumpCollectsKeeps ==
  ASSUME MailInv, NEW l \in Lanes, PumpCollects(l)
  PROVE  MailInv'
<1>0. HookShape
  BY DEF MailInv
<1>1. PICK b \in Batches(l) :
        /\ pending' = [pending EXCEPT ![l] =
             [ids |-> b, last |-> Max({NumberOf(m) : m \in b}), emitted |-> FALSE]]
        /\ pump' = [pump EXCEPT ![l] = [at |-> "emit", batch |-> b]]
  BY DEF PumpCollects
<1> DEFINE top == Max({NumberOf(m) : m \in b})
           w == [ids |-> b, last |-> top, emitted |-> FALSE]
           u == [at |-> "emit", batch |-> b]
<1>2. pending[l] = NoPending /\ UNCHANGED <<sendVars, laneVars, cursor, shown>>
  BY DEF PumpCollects
<1>3. /\ b # {} /\ b \subseteq inbox[l] /\ \A m \in b : NumberOf(m) > cursor[l]
      /\ \A m \in b, n \in inbox[l] : NumberOf(n) > cursor[l] /\ n \notin b => NumberOf(m) <= NumberOf(n)
  BY DEF Batches, NewMail
<1>4. \E n \in b : top = NumberOf(n)
  <2> DEFINE B == {NumberOf(m) : m \in b}
  <2>1. B \in SUBSET Nat /\ B # {} /\ nextSeq \in Nat /\ \A x \in B : x <= nextSeq
    BY <1>3, InboxNumbers
  <2>2. Max(B) \in B
    <3> HIDE DEF B
    <3> QED BY <2>1, MaxIs
  <2> QED BY <2>2
<1>5. \A m \in b : NumberOf(m) <= top
  <2> DEFINE B == {NumberOf(m) : m \in b}
  <2>1. B \in SUBSET Nat /\ B # {} /\ nextSeq \in Nat /\ \A x \in B : x <= nextSeq
    BY <1>3, InboxNumbers
  <2>2. \A x \in B : x <= Max(B)
    <3> HIDE DEF B
    <3> QED BY <2>1, MaxIs
  <2> QED BY <2>2
<1> HIDE DEF top
<1>6. top \in Nat /\ top < nextSeq /\ b \subseteq Messages
  BY <1>3, <1>4, InboxNumbers
<1>7. /\ w \in PendingTypes /\ u \in PumpTypes /\ w.last = top /\ w.ids = b /\ w.emitted = FALSE
      /\ u.at = "emit" /\ u.batch = b
  BY <1>6 DEF PendingTypes, PumpTypes
<1>8. pending' = [pending EXCEPT ![l] = w] /\ pump' = [pump EXCEPT ![l] = u]
  BY <1>1 DEF top
<1> HIDE DEF w, u
<1>9. pending'[l] = w /\ pump'[l] = u
  BY <1>0, <1>8 DEF HookShape
<1>10. \A m \in inbox[l] : NumberOf(m) > cursor[l] /\ NumberOf(m) <= top => m \in b
  <2> SUFFICES ASSUME NEW m \in inbox[l], NumberOf(m) > cursor[l], NumberOf(m) <= top, m \notin b
               PROVE  FALSE
    OBVIOUS
  <2>1. PICK n \in b : top = NumberOf(n)
    BY <1>4
  <2>2. NumberOf(n) <= NumberOf(m) /\ n \in inbox[l]
    BY <1>3
  <2>3. NumberOf(n) = NumberOf(m)
    BY <2>1, <2>2, InboxNumbers
  <2> QED BY <2>2, <2>3, InboxNumbers
<1>11. Hooked(l)'
  <2>1. /\ cursor'[l] = cursor[l] /\ inbox' = inbox /\ nextSeq' = nextSeq /\ shown' = shown
        /\ ledger' = ledger
    BY <1>2 DEF sendVars
  <2> QED BY <1>3, <1>6, <1>7, <1>9, <1>10, <2>1, InboxNumbers DEF Hooked, NumberOf
<1>12. \E n \in inbox[l] : w.last = NumberOf(n)
  BY <1>3, <1>4, <1>7
<1>13. \A k \in {cursor[l], w.last} :
         k \in {0, cursor[l], pending[l].last} \/ \E n \in inbox[l] : k = NumberOf(n)
  BY <1>12
<1>14. cursor' = [cursor EXCEPT ![l] = cursor[l]] /\ shown' = [shown EXCEPT ![l] = shown[l]]
  BY <1>0, <1>2, PumpTyped
<1> QED BY <1>0, <1>2, <1>7, <1>8, <1>11, <1>13, <1>14, PumpTyped, PumpMoves DEF sendVars

LEMMA PumpRetriesKeeps ==
  ASSUME MailInv, NEW l \in Lanes, PumpRetries(l)
  PROVE  MailInv'
<1>0. HookShape
  BY DEF MailInv
<1> DEFINE u == [at |-> "emit", batch |-> pending[l].ids]
<1>1. /\ pump' = [pump EXCEPT ![l] = u] /\ pending[l].ids # {}
      /\ UNCHANGED <<sendVars, laneVars, cursor, pending, shown>>
  BY DEF PumpRetries
<1>2. u \in PumpTypes /\ u.at = "emit" /\ u.batch = pending[l].ids
  BY <1>0, PumpTyped DEF PumpTypes
<1> HIDE DEF u
<1>3. pump'[l] = u
  BY <1>0, <1>1 DEF HookShape
<1>4. Hooked(l)'
  BY <1>0, <1>1, <1>2, <1>3, InboxNumbers DEF Hooked, NumberOf, sendVars
<1> QED BY <1>0, <1>1, <1>2, <1>4, PumpTyped, PumpMoves DEF sendVars

LEMMA PumpEmitsKeeps ==
  ASSUME MailInv, NEW l \in Lanes, PumpEmits(l)
  PROVE  MailInv'
<1>0. HookShape
  BY DEF MailInv
<1> DEFINE u == [pump[l] EXCEPT !.at = "mark"]
           v == shown[l] \cup pump[l].batch
<1>1. /\ pump[l].at = "emit" /\ shown' = [shown EXCEPT ![l] = v] /\ pump' = [pump EXCEPT ![l] = u]
      /\ UNCHANGED <<sendVars, laneVars, cursor, pending>>
  BY <1>0 DEF PumpEmits, HookShape
<1>2. u \in PumpTypes /\ u.at = "mark" /\ u.batch = pump[l].batch
  BY <1>0, PumpTyped DEF PumpTypes
<1>3. v \in SUBSET Messages /\ shown[l] \subseteq v /\ pump[l].batch \subseteq v
  BY <1>0, PumpTyped
<1> HIDE DEF u, v
<1>4. shown'[l] = v /\ pump'[l] = u
  BY <1>0, <1>1 DEF HookShape
<1>5. Hooked(l)'
  BY <1>0, <1>1, <1>2, <1>3, <1>4, InboxNumbers DEF Hooked, NumberOf, sendVars
<1> QED BY <1>0, <1>1, <1>2, <1>3, <1>5, PumpTyped, PumpMoves DEF sendVars

LEMMA PumpMarksKeeps ==
  ASSUME MailInv, NEW l \in Lanes, PumpMarks(l)
  PROVE  MailInv'
<1>0. HookShape
  BY DEF MailInv
<1> DEFINE w == [pending[l] EXCEPT !.emitted = TRUE]
<1>1. /\ pump[l].at = "mark" /\ pending' = [pending EXCEPT ![l] = w] /\ pump' = [pump EXCEPT ![l] = NoPump]
      /\ UNCHANGED <<sendVars, laneVars, cursor, shown>>
  BY <1>0 DEF PumpMarks, HookShape
<1>2. /\ w \in PendingTypes /\ w.ids = pending[l].ids /\ w.last = pending[l].last /\ w.emitted
      /\ NoPump \in PumpTypes /\ NoPump.at = "idle"
  BY <1>0, PumpTyped DEF PendingTypes, PumpTypes, NoPump
<1> HIDE DEF w
<1>3. pending'[l] = w /\ pump'[l] = NoPump
  BY <1>0, <1>1 DEF HookShape
<1>4. Hooked(l)'
  BY <1>0, <1>1, <1>2, <1>3, InboxNumbers DEF Hooked, NumberOf, sendVars
<1>5. cursor' = [cursor EXCEPT ![l] = cursor[l]] /\ shown' = [shown EXCEPT ![l] = shown[l]]
  BY <1>0, <1>1, PumpTyped
<1>6. /\ cursor[l] \in Nat /\ shown[l] \in SUBSET Messages /\ shown[l] \subseteq shown[l]
      /\ UNCHANGED <<mailLock, nextSeq, ledger, inbox, readBox, sending, laneVars>>
      /\ \A k \in {cursor[l], w.last} : k \in {0, cursor[l], pending[l].last}
  BY <1>0, <1>1, <1>2, PumpTyped DEF sendVars
<1> QED BY <1>1, <1>2, <1>4, <1>5, <1>6, PumpMoves

LEMMA PumpDiesKeeps ==
  ASSUME MailInv, NEW l \in Lanes, PumpDies(l)
  PROVE  MailInv'
<1>0. HookShape
  BY DEF MailInv
<1>1. /\ pump' = [pump EXCEPT ![l] = NoPump]
      /\ UNCHANGED <<mailLock, nextSeq, ledger, inbox, readBox, sending, laneVars, cursor, pending, shown>>
  BY DEF PumpDies
<1>2. NoPump \in PumpTypes /\ NoPump.at = "idle"
  BY DEF PumpTypes, NoPump
<1>3. pump'[l] = NoPump
  BY <1>0, <1>1 DEF HookShape
<1>4. Hooked(l)'
  BY <1>0, <1>1, <1>2, <1>3, InboxNumbers DEF Hooked, NumberOf
<1>5. /\ cursor' = [cursor EXCEPT ![l] = cursor[l]] /\ shown' = [shown EXCEPT ![l] = shown[l]]
      /\ pending' = [pending EXCEPT ![l] = pending[l]]
  BY <1>0, <1>1, PumpTyped
<1> QED BY <1>0, <1>1, <1>2, <1>4, <1>5, PumpTyped, PumpMoves

-----------------------------------------------------------------------------
(* The lane's record.                                                       *)

(* What the hook counts as seen was shown.                                  *)
LEMMA HidesNothing ==
  ASSUME MailInv
  PROVE  PushHidesNothing
<1> SUFFICES ASSUME NEW l \in Lanes, NEW m \in inbox[l], NumberOf(m) <= PushedThrough(l)
             PROVE  m \in shown[l]
  BY DEF PushHidesNothing
<1>0. HookShape /\ Hooked(l) /\ NumberOf(m) \in Nat \ {0}
  BY InboxNumbers DEF MailInv
<1>1. cursor[l] \in Nat /\ pending[l].last \in Nat
  BY <1>0, PumpTyped
<1>2. Max({cursor[l], pending[l].last}) \in {cursor[l], pending[l].last}
  <2> DEFINE B == {cursor[l], pending[l].last}
             k == cursor[l] + pending[l].last
  <2>1. B \in SUBSET Nat /\ B # {} /\ k \in Nat /\ \A x \in B : x <= k
    BY <1>1
  <2>2. Max(B) \in B
    <3> HIDE DEF B, k
    <3> QED BY <2>1, MaxIs
  <2> QED BY <2>2
<1>3. NumberOf(m) <= cursor[l] \/ (pending[l].emitted /\ NumberOf(m) <= pending[l].last)
  BY <1>0, <1>2 DEF PushedThrough
<1> QED BY <1>0, <1>1, <1>3 DEF Hooked

LEMMA LaneMoves ==
  ASSUME MailInv, NEW l \in Lanes, NEW a \in LaneStates, NEW x \in SUBSET Messages, NEW y \in BOOLEAN,
         UNCHANGED <<sendVars, cursor, pending, shown>>,
         lane' = [lane EXCEPT ![l] = a], unread' = [unread EXCEPT ![l] = x],
         recordLock' = [recordLock EXCEPT ![l] = y],
         pump' = pump \/ pump' = [pump EXCEPT ![l] = NoPump],
         mailLock = NoParty \/ a \in {"running", "exited", "unlocked"} \/ ~y,
         a \in {"cancelled", "final"} /\ y => inbox[l] \subseteq shown[l] \cup x
  PROVE  MailInv'
<1>0. SendShape /\ LaneShape /\ HookShape /\ BoxInv /\ SenderInv /\ HookInv /\ UnreadIsReported
  BY DEF MailInv
<1>1. /\ UNCHANGED <<mailLock, nextSeq, ledger, inbox, readBox, sending>>
      /\ Messages' = Messages /\ SendShape' /\ BoxInv'
  BY <1>0 DEF Messages, SendShape, BoxInv, NumberOf, InBox, Published, sendVars
<1>2. LaneShape'
  BY <1>0, <1>1 DEF LaneShape
<1>3. HookShape'
  <2>1. NoPump \in PumpTypes
    BY DEF NoPump, PumpTypes
  <2> QED BY <1>0, <1>1, <2>1 DEF HookShape, PendingTypes, PumpTypes
<1>4. HookInv'
  <2>1. \A k \in Lanes : pump'[k] = pump[k] \/ pump'[k].at = "idle"
    BY <1>0 DEF HookShape, NoPump
  <2> QED BY <1>0, <1>1, <2>1 DEF HookInv, Hooked, NumberOf, NoPending
<1>5. /\ lane'[l] = a /\ unread'[l] = x /\ recordLock'[l] = y
      /\ \A k \in Lanes \ {l} : lane'[k] = lane[k] /\ unread'[k] = unread[k] /\ recordLock'[k] = recordLock[k]
  BY <1>0 DEF LaneShape
<1>6. UnreadIsReported'
  BY <1>0, <1>1, <1>5 DEF UnreadIsReported
<1>7. ASSUME NEW s \in Parties, sending[s].at # "idle"
      PROVE  Sending(s)' /\ Unseen(s)'
  <2>1. Sending(s) /\ Unseen(s)
    BY <1>0, <1>7 DEF SenderInv
  <2>2. Sending(s)'
    BY <1>1, <2>1 DEF Sending, Open, NumberOf, InBox, Published
  <2>3. mailLock # NoParty
    BY <1>0, <1>7, UnlockedIsQuiet
  <2>4. ASSUME NEW k \in sending[s].todo \cap Lanes
        PROVE  (Running(k) \/ ~recordLock[k])'
    <3>1. CASE k = l
      BY <1>5, <2>3, <3>1 DEF Running
    <3>2. CASE k # l
      BY <1>5, <2>1, <3>2 DEF Unseen, Running
    <3> QED BY <3>1, <3>2
  <2>5. Unseen(s)'
    BY <1>1, <2>1, <2>4 DEF Unseen, Open, NumberOf
  <2> QED BY <2>2, <2>5
<1> QED BY <1>1, <1>2, <1>3, <1>4, <1>6, <1>7 DEF MailInv, SenderInv

LEMMA LaneTyped ==
  ASSUME MailInv, NEW l \in Lanes
  PROVE  /\ lane[l] \in LaneStates /\ unread[l] \in SUBSET Messages /\ recordLock[l] \in BOOLEAN
         /\ lane \in [Lanes -> LaneStates]
         /\ unread = [unread EXCEPT ![l] = unread[l]]
         /\ recordLock = [recordLock EXCEPT ![l] = recordLock[l]]
         /\ UnreadMail(l) \in SUBSET Messages /\ Refreshed(l) \in SUBSET Messages
         /\ inbox[l] \subseteq shown[l] \cup UnreadMail(l)
         /\ inbox[l] \subseteq shown[l] \cup Refreshed(l)
<1>0. SendShape /\ LaneShape /\ HookShape /\ PushHidesNothing
  BY HidesNothing DEF MailInv
<1>1. inbox[l] \subseteq Messages
  BY <1>0, BoxesHold, MailParties
<1>2. \A m \in inbox[l] : NumberOf(m) \in Nat
  BY <1>0, <1>1, NumbersAre
<1>3. PushedThrough(l) \in Nat
  <2>1. cursor[l] \in Nat /\ pending[l].last \in Nat
    BY <1>0, PumpTyped
  <2> DEFINE B == {cursor[l], pending[l].last}
             k == cursor[l] + pending[l].last
  <2>2. B \in SUBSET Nat /\ B # {} /\ k \in Nat /\ \A x \in B : x <= k
    BY <2>1
  <2>3. Max(B) \in B
    <3> HIDE DEF B, k
    <3> QED BY <2>2, MaxIs
  <2> QED BY <2>1, <2>2, <2>3 DEF PushedThrough
<1>4. inbox[l] \subseteq shown[l] \cup UnreadMail(l)
  BY <1>0, <1>2, <1>3 DEF PushHidesNothing, UnreadMail
<1>5. UnreadMail(l) \in SUBSET Messages
  BY <1>1 DEF UnreadMail
<1>6. Refreshed(l) \in SUBSET Messages /\ UnreadMail(l) \subseteq Refreshed(l)
  BY <1>0, <1>5 DEF Refreshed, LaneShape
<1> QED BY <1>0, <1>4, <1>5, <1>6 DEF LaneShape

LEMMA LaneKeeps ==
  ASSUME MailInv, NEW l \in Lanes,
         \/ LaneExits(l) \/ RecordLocked(l) \/ CancelLocked(l) \/ SnapshotUnlocked(l) \/ RecordWal(l)
  PROVE  MailInv'
<1>1. CASE LaneExits(l)
  BY <1>1, LaneTyped, LaneMoves DEF LaneExits, LaneStates
<1>2. CASE RecordLocked(l)
  BY <1>2, LaneTyped, LaneMoves DEF RecordLocked, LaneStates, pumpVars
<1>3. CASE CancelLocked(l)
  BY <1>3, LaneTyped, LaneMoves DEF CancelLocked, LaneStates
<1>4. CASE SnapshotUnlocked(l)
  BY <1>4, LaneTyped, LaneMoves DEF SnapshotUnlocked, LaneStates
<1>5. CASE RecordWal(l)
  BY <1>5, LaneTyped, LaneMoves DEF RecordWal, LaneStates, pumpVars
<1> QED BY <1>1, <1>2, <1>3, <1>4, <1>5

-----------------------------------------------------------------------------

LEMMA MailStart ==
  ASSUME MailInit
  PROVE  MailInv
<1>1. ledger = <<>> /\ Messages = {} /\ Len(ledger) = 0
  BY DEF MailInit, Messages
<1>2. SendShape
  <2>1. NoSend \in SendTypes /\ NoSend.msg = 0
    BY DEF NoSend, SendTypes
  <2> QED BY <1>1, <2>1, MailAssumption DEF MailInit, SendShape
<1>3. LaneShape
  BY DEF MailInit, LaneShape, LaneStates
<1>4. HookShape
  <2>1. NoPending \in PendingTypes /\ NoPump \in PumpTypes
    BY DEF NoPending, NoPump, PendingTypes, PumpTypes
  <2> QED BY <2>1 DEF MailInit, HookShape
<1>5. BoxInv
  BY <1>1 DEF MailInit, BoxInv, Published
<1>6. SenderInv
  BY DEF MailInit, SenderInv, NoSend
<1>7. HookInv
  BY MailParties DEF MailInit, HookInv, Hooked, NoPending, NoPump
<1>8. UnreadIsReported
  BY DEF MailInit, UnreadIsReported
<1> QED BY <1>2, <1>3, <1>4, <1>5, <1>6, <1>7, <1>8 DEF MailInv

LEMMA MailStep ==
  ASSUME MailInv, [MailNext]_mailVars
  PROVE  MailInv'
<1>1. CASE UNCHANGED mailVars
  <2>1. SendShape' /\ LaneShape' /\ HookShape' /\ BoxInv' /\ HookInv' /\ UnreadIsReported'
    BY <1>1 DEF MailInv, SendShape, LaneShape, HookShape, PendingTypes, PumpTypes, Messages, BoxInv, InBox,
       NumberOf, Published, HookInv, Hooked, NoPending, UnreadIsReported, mailVars, sendVars, laneVars, pumpVars
  <2>2. SenderInv'
    BY <1>1 DEF MailInv, SenderInv, Sending, Unseen, Open, Running, Messages, InBox,
       NumberOf, Published, mailVars, sendVars, laneVars, pumpVars
  <2> QED BY <2>1, <2>2 DEF MailInv
<1>2. CASE MailNext
  <2>1. ASSUME NEW s \in Senders,
               \/ SendRecords(s) \/ SendNumbers(s) \/ SendPublishes(s) \/ SendMisses(s)
               \/ SendNotes(s) \/ SendEnds(s) \/ SendDies(s)
        PROVE  MailInv'
    <3>1. s \in Parties
      BY MailAssumption
    <3> QED BY <2>1, <3>1, SendRecordsKeeps, SendNumbersKeeps, SendPublishesKeeps, SendMissesKeeps,
               SendNotesKeeps, SendStops
  <2>2. ASSUME NEW l \in Lanes,
               \/ PumpPromotes(l) \/ PumpForgets(l) \/ PumpCollects(l) \/ PumpRetries(l)
               \/ PumpEmits(l) \/ PumpMarks(l) \/ PumpDies(l)
        PROVE  MailInv'
    BY <2>2, PumpPromotesKeeps, PumpForgetsKeeps, PumpCollectsKeeps, PumpRetriesKeeps, PumpEmitsKeeps,
       PumpMarksKeeps, PumpDiesKeeps
  <2>3. ASSUME NEW l \in Ending,
               \/ LaneExits(l) \/ RecordLocked(l) \/ CancelLocked(l) \/ SnapshotUnlocked(l) \/ RecordWal(l)
        PROVE  MailInv'
    BY <2>3, LaneKeeps, MailAssumption
  <2> QED BY <1>2, <2>1, <2>2, <2>3, ReadKeeps, PruneKeeps DEF MailNext
<1> QED BY <1>1, <1>2

LEMMA MailInvariant == MailSpec => []MailInv
BY MailStart, MailStep, PTL DEF MailSpec

LEMMA MailTyped == MailInv => MailTypeOK
<1> SUFFICES ASSUME MailInv
             PROVE  MailTypeOK
  OBVIOUS
<1>0. SendShape /\ LaneShape /\ HookShape /\ BoxInv /\ HookInv
  BY DEF MailInv
<1>1. nextSeq \in 1..(MaxMail + 1) /\ mailLock \in Parties \cup {NoParty}
  BY <1>0, MailAssumption DEF SendShape, BoxInv
<1>2. \A m \in Messages :
        /\ ledger[m].from \in Parties /\ ledger[m].seq \in 1..MaxMail
        /\ DOMAIN ledger[m].rows \subseteq Parties
        /\ \A r \in DOMAIN ledger[m].rows : ledger[m].rows[r] \in {"blocked", "skipped", "failed", "delivered"}
  BY <1>0, NumbersAre DEF Letters, Outcomes
<1>3. sending \in [Parties -> [at : {"idle", "ledgered", "numbered", "published"}, msg : 0..Len(ledger),
                               todo : SUBSET Parties, cur : Parties \cup {NoParty}]]
  <2>1. \A s \in Parties : sending[s] \in SendTypes /\ sending[s].msg \in 0..Len(ledger)
    BY <1>0 DEF SendShape, SendTypes
  <2> QED BY <1>0, <2>1 DEF SendShape, SendTypes
<1>4. cursor \in [Lanes -> 0..MaxMail]
  <2>1. \A l \in Lanes : cursor[l] \in 0..MaxMail
    BY <1>0, <1>1, MailAssumption DEF HookShape, HookInv, Hooked
  <2> QED BY <1>0, <2>1 DEF HookShape
<1>5. pending \in [Lanes -> [ids : SUBSET Messages, last : 0..MaxMail, emitted : BOOLEAN]]
  <2>1. \A l \in Lanes : pending[l] \in PendingTypes /\ pending[l].last \in 0..MaxMail
    BY <1>0, <1>1, MailAssumption, PumpTyped DEF HookInv, Hooked
  <2> QED BY <1>0, <2>1 DEF HookShape, PendingTypes
<1> QED BY <1>0, <1>1, <1>2, <1>3, <1>4, <1>5 DEF MailTypeOK, SendShape, LaneShape, HookShape, PumpTypes

(* Every variable of the mailbox has its type.                              *)
THEOREM MailTypes == MailSpec => []MailTypeOK
BY MailInvariant, MailTyped, PTL

(* What a push hook counts as seen was in front of the model.               *)
THEOREM MarksFollowShown == MailSpec => []PushHidesNothing
BY MailInvariant, HidesNothing, PTL

(* A lane's unread mail is in its record, when that was published under the *)
(* registry lock.                                                           *)
THEOREM RecordsNameUnread == MailSpec => []UnreadIsReported
<1>1. MailInv => UnreadIsReported
  BY DEF MailInv
<1> QED BY <1>1, MailInvariant, PTL

LEMMA StatusTold == MailInv => StatusTellsDelivery
<1> SUFFICES ASSUME MailInv, NEW m \in Messages, NEW r \in DOMAIN ledger[m].rows
             PROVE  StatusOf(m, r) = "delivered" <=> InBox(m, r)
  BY DEF StatusTellsDelivery
<1>1. r \in Parties
  BY NumbersAre DEF MailInv
<1> QED BY <1>1 DEF MailInv, BoxInv, StatusOf

(* `mail status` calls delivered what is in the recipient's box, no more.   *)
THEOREM StatusFollowsBox == MailSpec => []StatusTellsDelivery
BY MailInvariant, StatusTold, PTL
=============================================================================
