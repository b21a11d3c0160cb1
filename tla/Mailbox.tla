------------------------------ MODULE Mailbox ------------------------------
(* The workspace mailbox: mail_core.py (send, read, prune, status), the     *)
(* stop-hook pump of mail_push.py, and what finalization and cancel record  *)
(* of a lane's unread mail (runner.py, wait_cancel_commands.py).            *)
(*                                                                          *)
(* A lane is a tracked work run; Lead is the coordinator.  Every mutation   *)
(* but the pump's runs under the registry lock, which the kernel drops when *)
(* its holder dies.  A message is the number of its ledger.                 *)
EXTENDS Naturals, Sequences, FiniteSets, FiniteSetsExt

CONSTANTS
  Lanes, Lead, NoParty,
  PushLanes,  \* the lanes launched with --mail-push
  Senders,    \* bound: the parties that send
  Ending,     \* bound: the lanes whose run ends
  Blocked,    \* pairs <<sender, recipient>> refused by mail/rules.json
  PushBatch,  \* MAIL_PUSH_MAX_MESSAGES
  MaxMail,    \* bound: ledgers written
  MailDeaths  \* bound: senders and pumps that are killed

Parties == Lanes \cup {Lead}

ASSUME MailAssumption ==
  /\ Lead \notin Lanes /\ NoParty \notin Parties
  /\ PushLanes \subseteq Lanes /\ Senders \subseteq Parties /\ Ending \subseteq Lanes /\ Blocked \subseteq Parties \X Parties
  /\ PushBatch \in Nat \ {0} /\ MaxMail \in Nat

VARIABLES
  mailLock,  \* the sender that holds the registry lock, or NoParty
  nextSeq,   \* mail/meta.json
  ledger,    \* mail/sent: a sequence of [from, seq, rows]
  inbox,     \* [Parties -> set of messages]: boxes/<box>/inbox
  readBox,   \* [Parties -> set of messages]: boxes/<box>/read
  sending,   \* [Parties -> [at, msg, todo, cur]]: the send command of a party
  pruned,    \* every ledger up to this one has been pruned
  mailDeaths
sendVars == <<mailLock, nextSeq, ledger, inbox, readBox, sending, pruned, mailDeaths>>

VARIABLES
  lane,      \* [Lanes -> LaneStates]: the run, as readers see it
  unread,    \* [Lanes -> set of messages]: unreadMail of the (coming) record
  recordLock \* [Lanes -> BOOLEAN]: the record was published under the lock
laneVars == <<lane, unread, recordLock>>

VARIABLES
  cursor,    \* [Lanes -> Nat]: hook-cursor.json
  pending,   \* [Lanes -> pending batch]: hook-pending.json, ids = {} when absent
  pump,      \* [Lanes -> [at, batch]]: the stop hook's process
  shown      \* [Lanes -> set of messages]: injected into the model's context
pumpVars == <<cursor, pending, pump, shown>>

mailVars == <<sendVars, laneVars, pumpVars>>

Messages == 1..Len(ledger)
LaneStates == {"running", "exited", "unlocked", "cancelled", "final"}
NoSend == [at |-> "idle", msg |-> 0, todo |-> {}, cur |-> NoParty]
NoPump == [at |-> "idle", batch |-> {}]
NoPending == [ids |-> {}, last |-> 0, emitted |-> FALSE]

MailInit ==
  /\ mailLock = NoParty /\ nextSeq = 1 /\ ledger = <<>> /\ pruned = 0 /\ mailDeaths = 0
  /\ inbox = [p \in Parties |-> {}] /\ readBox = inbox
  /\ sending = [p \in Parties |-> NoSend]
  /\ lane = [l \in Lanes |-> "running"]
  /\ unread = [l \in Lanes |-> {}]
  /\ recordLock = [l \in Lanes |-> TRUE]
  /\ cursor = [l \in Lanes |-> 0]
  /\ pending = [l \in Lanes |-> NoPending]
  /\ pump = [l \in Lanes |-> NoPump]
  /\ shown = [l \in Lanes |-> {}]

-----------------------------------------------------------------------------
(* Sending *)

\* effective_status: readers take a run for running until its record, or the
\* WAL that stands for it, is terminal.
Running(l) == lane[l] \in {"running", "exited", "unlocked"}
Eligible(from, r) == r = Lead \/ (r \in Lanes /\ Running(r) /\ r # from)

\* What the sender writes of a recipient before it has delivered anything.
FirstOutcome(from, r) ==
  IF <<from, r>> \in Blocked THEN "blocked" ELSE IF Eligible(from, r) THEN "failed" ELSE "skipped"

\* A direct recipient that a rule blocks is refused; a group leaves out its sender.
Addressed(from) ==
  {{r} : r \in {x \in Parties : <<from, x>> \notin Blocked}} \cup {Lanes \ {from}}

\* send takes the lock, judges the recipients and creates the ledger.
SendRecords(s) ==
  /\ mailLock = NoParty /\ sending[s].at = "idle" /\ Len(ledger) < MaxMail
  /\ s \in Lanes => lane[s] = "running"
  /\ \E to \in Addressed(s) :
       LET rows == [r \in to |-> FirstOutcome(s, r)] IN
       /\ ledger' = Append(ledger, [from |-> s, seq |-> nextSeq, rows |-> rows])
       /\ sending' = [sending EXCEPT ![s] =
            [at |-> "ledgered", msg |-> Len(ledger) + 1,
             todo |-> {r \in to : rows[r] = "failed"}, cur |-> NoParty]]
  /\ mailLock' = s
  /\ UNCHANGED <<nextSeq, inbox, readBox, pruned, mailDeaths, laneVars, pumpVars>>

\* Slip: a number for every recipient.
NumbersRows(s) ==
  /\ sending[s].at = "ledgered"
  /\ nextSeq' = ledger[sending[s].msg].seq + Cardinality(DOMAIN ledger[sending[s].msg].rows)
  /\ sending' = [sending EXCEPT ![s].at = "numbered"]
  /\ UNCHANGED <<mailLock, ledger, inbox, readBox, pruned, mailDeaths, laneVars, pumpVars>>

SendNumbers(s) ==
  /\ sending[s].at = "ledgered"
  /\ nextSeq' = ledger[sending[s].msg].seq + 1
  /\ sending' = [sending EXCEPT ![s].at = "numbered"]
  /\ UNCHANGED <<mailLock, ledger, inbox, readBox, pruned, mailDeaths, laneVars, pumpVars>>

\* The envelope appears in the recipient's inbox in one step.
SendPublishes(s) ==
  /\ sending[s].at = "numbered"
  /\ \E r \in sending[s].todo :
       /\ inbox' = [inbox EXCEPT ![r] = @ \cup {sending[s].msg}]
       /\ sending' = [sending EXCEPT ![s].at = "published", ![s].cur = r]
  /\ UNCHANGED <<mailLock, nextSeq, ledger, readBox, pruned, mailDeaths, laneVars, pumpVars>>

\* The write failed: the row stays "failed" and the ledger is written as it is.
SendMisses(s) ==
  /\ sending[s].at = "numbered"
  /\ \E r \in sending[s].todo : sending' = [sending EXCEPT ![s].todo = @ \ {r}]
  /\ UNCHANGED <<mailLock, nextSeq, ledger, inbox, readBox, pruned, mailDeaths, laneVars, pumpVars>>

SendNotes(s) ==
  /\ sending[s].at = "published"
  /\ ledger' = [ledger EXCEPT ![sending[s].msg].rows[sending[s].cur] = "delivered"]
  /\ sending' = [sending EXCEPT ![s].at = "numbered", ![s].todo = @ \ {sending[s].cur}, ![s].cur = NoParty]
  /\ UNCHANGED <<mailLock, nextSeq, inbox, readBox, pruned, mailDeaths, laneVars, pumpVars>>

SendEnds(s) ==
  /\ sending[s].at = "numbered" /\ sending[s].todo = {}
  /\ mailLock' = NoParty /\ sending' = [sending EXCEPT ![s] = NoSend]
  /\ UNCHANGED <<nextSeq, ledger, inbox, readBox, pruned, mailDeaths, laneVars, pumpVars>>

\* A killed sender leaves everything where it is; its lock is free at once.
SendDies(s) ==
  /\ sending[s].at # "idle" /\ mailDeaths < MailDeaths
  /\ mailLock' = NoParty /\ sending' = [sending EXCEPT ![s] = NoSend] /\ mailDeaths' = mailDeaths + 1
  /\ UNCHANGED <<nextSeq, ledger, inbox, readBox, pruned, laneVars, pumpVars>>

-----------------------------------------------------------------------------
(* Reading and pruning *)

ReadMessage(p) ==
  /\ mailLock = NoParty /\ (p \in Lanes => lane[p] = "running")
  /\ \E m \in inbox[p] :
       /\ inbox' = [inbox EXCEPT ![p] = @ \ {m}]
       /\ readBox' = [readBox EXCEPT ![p] = @ \cup {m}]
  /\ UNCHANGED <<mailLock, nextSeq, ledger, sending, pruned, mailDeaths, laneVars, pumpVars>>

\* prune removes what was sent before a cutoff, from every box and from sent/.
Prune ==
  /\ mailLock = NoParty
  /\ \E cut \in (pruned + 1)..Len(ledger) :
       /\ inbox' = [p \in Parties |-> {m \in inbox[p] : m > cut}]
       /\ readBox' = [p \in Parties |-> {m \in readBox[p] : m > cut}]
       /\ pruned' = cut
  /\ UNCHANGED <<mailLock, nextSeq, ledger, sending, mailDeaths, laneVars, pumpVars>>

\* What `mail status` answers of a recipient, from the ledger and the boxes.
InBox(m, r) == m \in inbox[r] \cup readBox[r]

\* Slip: the ledger is believed over the box.
StatusOfRow(m, r) ==
  LET row == ledger[m].rows[r] IN IF ~InBox(m, r) /\ row = "delivered" THEN "pruned" ELSE row

StatusOf(m, r) ==
  LET row == ledger[m].rows[r] IN
  IF InBox(m, r) /\ row = "failed" THEN "delivered"
  ELSE IF ~InBox(m, r) /\ row = "delivered" THEN "pruned"
  ELSE row

-----------------------------------------------------------------------------
(* The stop-hook pump: one at a time per lane, killed with its harness *)

NumberOf(m) == ledger[m].seq
NewMail(l) == {m \in inbox[l] : NumberOf(m) > cursor[l]}
Held(l) == {m \in pending[l].ids : InBox(m, l) /\ NumberOf(m) > cursor[l] /\ NumberOf(m) <= pending[l].last}

\* The first messages in order of seq, as many as fit the byte bound.
Batches(l) ==
  {b \in SUBSET NewMail(l) : b # {} /\ Cardinality(b) <= PushBatch
                             /\ \A m \in b, n \in NewMail(l) \ b : NumberOf(m) <= NumberOf(n)}

PumpIdle(l) == lane[l] = "running" /\ pump[l].at = "idle" /\ l \in PushLanes

\* An emitted batch is acknowledged by the next stop: the cursor moves first.
PumpPromotes(l) ==
  /\ PumpIdle(l) /\ pending[l].emitted
  /\ cursor' = [cursor EXCEPT ![l] = pending[l].last]
  /\ pump' = [pump EXCEPT ![l].at = "promoted"]
  /\ UNCHANGED <<sendVars, laneVars, pending, shown>>

PumpForgets(l) ==
  /\ pump[l].at = "promoted"
  /\ pending' = [pending EXCEPT ![l] = NoPending]
  /\ pump' = [pump EXCEPT ![l] = NoPump]
  /\ UNCHANGED <<sendVars, laneVars, cursor, shown>>

\* Slip: a batch counts as emitted as soon as it is written down.
CollectsEmitted(l) ==
  /\ PumpIdle(l) /\ pending[l] = NoPending
  /\ \E b \in Batches(l) :
       /\ pending' = [pending EXCEPT ![l] =
            [ids |-> b, last |-> Max({NumberOf(m) : m \in b}), emitted |-> TRUE]]
       /\ pump' = [pump EXCEPT ![l] = [at |-> "emit", batch |-> b]]
  /\ UNCHANGED <<sendVars, laneVars, cursor, shown>>

PumpCollects(l) ==
  /\ PumpIdle(l) /\ pending[l] = NoPending
  /\ \E b \in Batches(l) :
       /\ pending' = [pending EXCEPT ![l] =
            [ids |-> b, last |-> Max({NumberOf(m) : m \in b}), emitted |-> FALSE]]
       /\ pump' = [pump EXCEPT ![l] = [at |-> "emit", batch |-> b]]
  /\ UNCHANGED <<sendVars, laneVars, cursor, shown>>

\* A batch that was written down but never acknowledged is taken up again, or
\* the hook fails because one of its messages is gone.
PumpRetries(l) ==
  /\ PumpIdle(l) /\ pending[l].ids # {} /\ ~pending[l].emitted
  /\ Held(l) = pending[l].ids
  /\ pump' = [pump EXCEPT ![l] = [at |-> "emit", batch |-> pending[l].ids]]
  /\ UNCHANGED <<sendVars, laneVars, cursor, pending, shown>>

PumpEmits(l) ==
  /\ pump[l].at = "emit"
  /\ shown' = [shown EXCEPT ![l] = @ \cup pump[l].batch]
  /\ pump' = [pump EXCEPT ![l].at = "mark"]
  /\ UNCHANGED <<sendVars, laneVars, cursor, pending>>

PumpMarks(l) ==
  /\ pump[l].at = "mark"
  /\ pending' = [pending EXCEPT ![l].emitted = TRUE]
  /\ pump' = [pump EXCEPT ![l] = NoPump]
  /\ UNCHANGED <<sendVars, laneVars, cursor, shown>>

\* Killed, or its response or its mark could not be written.
PumpDies(l) ==
  /\ pump[l].at # "idle" /\ mailDeaths < MailDeaths
  /\ pump' = [pump EXCEPT ![l] = NoPump] /\ mailDeaths' = mailDeaths + 1
  /\ UNCHANGED <<mailLock, nextSeq, ledger, inbox, readBox, sending, pruned, laneVars,
                 cursor, pending, shown>>

-----------------------------------------------------------------------------
(* What a lane's record says of its mail *)

PushedThrough(l) ==
  IF l \in PushLanes
  THEN IF pending[l].emitted THEN Max({cursor[l], pending[l].last}) ELSE cursor[l]
  ELSE 0
UnreadMail(l) == {m \in inbox[l] : NumberOf(m) > PushedThrough(l)}

\* Slip: what the finalizer saw before it had the lock stays.
RefreshedNever(l) == unread[l]

\* The snapshot taken at publication replaces an earlier one unless it is empty.
Refreshed(l) == IF UnreadMail(l) = {} THEN unread[l] ELSE UnreadMail(l)

\* The harness is gone and the finalizer has scanned the box once.
LaneExits(l) ==
  /\ lane[l] = "running" /\ sending[l].at = "idle"
  /\ lane' = [lane EXCEPT ![l] = "exited"]
  /\ unread' = [unread EXCEPT ![l] = UnreadMail(l)]
  /\ pump' = [pump EXCEPT ![l] = NoPump]
  /\ UNCHANGED <<sendVars, recordLock, cursor, pending, shown>>

\* The finalizer publishes the record under the lock, over a cancel too.
RecordLocked(l) ==
  /\ lane[l] \in {"exited", "cancelled"} /\ mailLock = NoParty
  /\ lane' = [lane EXCEPT ![l] = "final"]
  /\ unread' = [unread EXCEPT ![l] = Refreshed(l)]
  /\ UNCHANGED <<sendVars, recordLock, pumpVars>>

\* A cancel kills the lane and seals its record under the lock.
CancelLocked(l) ==
  /\ lane[l] \in {"running", "exited"} /\ mailLock = NoParty
  /\ lane' = [lane EXCEPT ![l] = "cancelled"]
  /\ unread' = [unread EXCEPT ![l] = UnreadMail(l)]
  /\ pump' = [pump EXCEPT ![l] = NoPump]
  /\ UNCHANGED <<sendVars, recordLock, cursor, pending, shown>>

\* The finalizer lost its wait for the lock, or an urgent cancel never tried:
\* it takes the snapshot without the lock and writes the WAL afterwards.
SnapshotUnlocked(l) ==
  /\ lane[l] \in {"running", "exited"} /\ mailLock # NoParty /\ mailLock # l
  /\ lane' = [lane EXCEPT ![l] = "unlocked"]
  /\ unread' = [unread EXCEPT ![l] = Refreshed(l)]
  /\ pump' = [pump EXCEPT ![l] = NoPump]
  /\ UNCHANGED <<sendVars, recordLock, cursor, pending, shown>>

RecordWal(l) ==
  /\ lane[l] = "unlocked"
  /\ lane' = [lane EXCEPT ![l] = "final"]
  /\ recordLock' = [recordLock EXCEPT ![l] = FALSE]
  /\ UNCHANGED <<sendVars, unread, pumpVars>>

-----------------------------------------------------------------------------

MailNext ==
  \/ \E s \in Senders : \/ SendRecords(s) \/ SendNumbers(s) \/ SendPublishes(s) \/ SendMisses(s)
                        \/ SendNotes(s) \/ SendEnds(s) \/ SendDies(s)
  \/ \E p \in Parties : ReadMessage(p)
  \/ Prune
  \/ \E l \in Lanes : \/ PumpPromotes(l) \/ PumpForgets(l) \/ PumpCollects(l) \/ PumpRetries(l)
                      \/ PumpEmits(l) \/ PumpMarks(l) \/ PumpDies(l)
  \/ \E l \in Ending : \/ LaneExits(l) \/ RecordLocked(l) \/ CancelLocked(l)
                       \/ SnapshotUnlocked(l) \/ RecordWal(l)

MailSpec == MailInit /\ [][MailNext]_mailVars

MailTypeOK ==
  /\ mailLock \in Parties \cup {NoParty} /\ nextSeq \in 1..(MaxMail + 1)
  /\ \A m \in Messages :
       /\ ledger[m].from \in Parties /\ ledger[m].seq \in 1..MaxMail
       /\ DOMAIN ledger[m].rows \subseteq Parties
       /\ \A r \in DOMAIN ledger[m].rows : ledger[m].rows[r] \in {"blocked", "skipped", "failed", "delivered"}
  /\ inbox \in [Parties -> SUBSET Messages] /\ readBox \in [Parties -> SUBSET Messages]
  /\ sending \in [Parties -> [at : {"idle", "ledgered", "numbered", "published"}, msg : 0..Len(ledger),
                              todo : SUBSET Parties, cur : Parties \cup {NoParty}]]
  /\ lane \in [Lanes -> LaneStates] /\ unread \in [Lanes -> SUBSET Messages]
  /\ recordLock \in [Lanes -> BOOLEAN]
  /\ cursor \in [Lanes -> 0..MaxMail] /\ shown \in [Lanes -> SUBSET Messages]
  /\ pending \in [Lanes -> [ids : SUBSET Messages, last : 0..MaxMail, emitted : BOOLEAN]]
  /\ pump \in [Lanes -> [at : {"idle", "promoted", "emit", "mark"}, batch : SUBSET Messages]]

\* What a push hook counts as seen was in front of the model: a message that
\* still lies in the inbox with a seq at or below the pushed mark has been
\* injected (pushed_through_seq, unread_mail_for_run), whoever died when.
PushHidesNothing ==
  \A l \in Lanes : \A m \in inbox[l] : NumberOf(m) <= PushedThrough(l) => m \in shown[l]

\* Mail a lane never reads is not lost silently: when its record was published
\* under the lock, every message in its inbox was injected or is in unreadMail.
UnreadIsReported ==
  \A l \in Lanes : lane[l] \in {"cancelled", "final"} /\ recordLock[l] =>
     inbox[l] \subseteq shown[l] \cup unread[l]

\* `mail status` tells a delivered message from one that was not, wherever the
\* sender died: delivered exactly when the recipient's box holds it.
StatusTellsDelivery ==
  \A m \in Messages : \A r \in DOMAIN ledger[m].rows : StatusOf(m, r) = "delivered" <=> InBox(m, r)
=============================================================================
