----------------------------- MODULE CashLedger -----------------------------
(***************************************************************************)
(* The owner's cash notes (app/cash_ledger.py, the capture in              *)
(* app/handlers.py and the review route of app/admin.py).  A WhatsApp text *)
(* that reads as a cash movement becomes a ledger entry with an audit      *)
(* event; the reply that tells the owner the entry and the expected        *)
(* balance is sent while the entry's transaction is still open, so the     *)
(* outcome of the Meta call decides whether the entry is kept.  Staff      *)
(* later sort entries into categories; every change is audited.            *)
(*                                                                         *)
(* The webhook serves several messages at once: another handler runs while *)
(* one waits for Meta, each with a transaction of its own.                 *)
(***************************************************************************)
EXTENDS Integers, Sequences, FiniteSets

CONSTANTS
  Messages,      \* WhatsApp message ids
  Texts,         \* what a message may say: [words, amount, keyword]
  Keywords,      \* the categories a text's keywords may point to
  NoEntry,       \* no entry: an idle transaction, a creation's "before"
  MaxAudit,      \* bound: audit events per entry
  MaxDeliveries  \* bound: webhook deliveries of one message

(* The transaction types in the order the parser tries their word lists.   *)
TypePriority == <<"bank_withdrawal", "bank_deposit", "cash_received",
                  "cash_payment", "other_cash_in">>
TransactionTypes == {TypePriority[i] : i \in 1..5}

NoKeyword == "no_keyword"
NoAmount == 0 - 1

ASSUME TextsAssumption ==
  Texts \subseteq [words: SUBSET TransactionTypes, amount: Nat \cup {NoAmount},
                   keyword: Keywords \cup {NoKeyword}]
ASSUME KeywordsAssumption ==
  Keywords \cap {"uncategorized", NoKeyword} = {}
ASSUME BoundsAssumption == MaxAudit \in Nat \ {0} /\ MaxDeliveries \in Nat \ {0}

Categories == Keywords \cup {"bank", "customer_payment", "other_cash_in", "uncategorized"}
Directions == {"cash_in", "cash_out"}

Snapshot == [direction: Directions, amount: Nat, category: Categories,
             status: {"recorded", "needs_review"}]
ASSUME NoEntryAssumption == NoEntry \notin Snapshot
Event == [type: {"created", "reviewed"}, before: Snapshot \cup {NoEntry}, after: Snapshot]
Phases == {"new",       \* not delivered yet
           "seen",      \* its inbound row is committed, the handler runs
           "chat",      \* no cash movement: the booking dialogue takes it
           "calling",   \* entry flushed, reply on its way to Meta
           "accepted",  \* Meta sent the reply on, its answer is not back
           "noted",     \* entry committed
           "dropped"}   \* the handler ended without an entry

VARIABLES
  phase,       \* per message: how far its handler is
  deliveries,  \* per message: webhook deliveries so far
  open,        \* per message: the flushed entry of its open transaction
  reply,       \* per message: the balance summed for its reply
  ledger,      \* committed entries in commit order: [source, data]
  audit,       \* per position of ledger: its audit events
  told,        \* per message: the balance the owner was told, or nothing yet
  overlapped   \* messages whose transaction was open together with another's

vars == <<phase, deliveries, open, reply, ledger, audit, told, overlapped>>

Entry == [source: Messages, data: Snapshot]

TypeOK ==
  /\ phase \in [Messages -> Phases]
  /\ deliveries \in [Messages -> 0..MaxDeliveries]
  /\ open \in [Messages -> Snapshot \cup {NoEntry}]
  /\ DOMAIN reply = Messages
  /\ ledger \in Seq(Entry)
  /\ audit \in Seq(Seq(Event))
  /\ DOMAIN told = Messages
  /\ overlapped \subseteq Messages

Init ==
  /\ phase = [m \in Messages |-> "new"]
  /\ deliveries = [m \in Messages |-> 0]
  /\ open = [m \in Messages |-> NoEntry]
  /\ reply = [m \in Messages |-> 0]
  /\ ledger = <<>>
  /\ audit = <<>>
  /\ told = [m \in Messages |-> <<>>]
  /\ overlapped = {}

-----------------------------------------------------------------------------
(* Reading a text.                                                         *)

(* The first word list that matches decides; a text without one, or        *)
(* without an amount, is no cash movement.                                 *)
IsMovement(text) == text.amount # NoAmount /\ text.words # {}
TransactionType(words) ==
  TypePriority[CHOOSE i \in 1..5 :
                 /\ TypePriority[i] \in words
                 /\ \A j \in 1..(i - 1) : TypePriority[j] \notin words]

Direction(type) ==
  IF type \in {"bank_deposit", "cash_payment"} THEN "cash_out" ELSE "cash_in"

InferCategory(type, keyword) ==
  CASE type \in {"bank_withdrawal", "bank_deposit"} -> "bank"
    [] type = "cash_received" -> "customer_payment"
    [] type \in {"cash_payment", "other_cash_in"} /\ keyword # NoKeyword -> keyword
    [] type = "cash_payment" /\ keyword = NoKeyword -> "uncategorized"
    [] type = "other_cash_in" /\ keyword = NoKeyword -> "other_cash_in"

(* What create_cash_ledger_entry stores: an uncategorized entry waits for  *)
(* a review.                                                               *)
StatusFor(category) == IF category = "uncategorized" THEN "needs_review" ELSE "recorded"
NewEntry(text) ==
  LET type == TransactionType(text.words)
      category == InferCategory(type, text.keyword)
  IN [direction |-> Direction(type), amount |-> text.amount,
      category |-> category, status |-> StatusFor(category)]

-----------------------------------------------------------------------------
(* The expected cash: in minus out over the entries.                       *)
Signed(data) == IF data.direction = "cash_in" THEN data.amount ELSE 0 - data.amount
BalanceOf(entries) ==
  LET sum[n \in 0..Len(entries)] ==
        IF n = 0 THEN 0 ELSE sum[n - 1] + Signed(entries[n].data)
  IN sum[Len(entries)]
Balance == BalanceOf(ledger)

(* The sum a handler reads inside its own transaction: the committed       *)
(* entries and its own flushed one, nobody else's.                         *)
BalanceSeenBefore(data) == Balance
BalanceSeen(data) == Balance + Signed(data)

Calling == {m \in Messages : phase[m] \in {"calling", "accepted"}}

-----------------------------------------------------------------------------
(* The webhook hands a message over.  The inbound row has the message id   *)
(* as its key and is committed first: a repeated delivery ends here.       *)
AlreadySeen(m) == phase[m] # "new"
Deliver(m) ==
  /\ deliveries[m] < MaxDeliveries
  /\ deliveries' = [deliveries EXCEPT ![m] = @ + 1]
  /\ phase' = IF AlreadySeen(m) THEN phase ELSE [phase EXCEPT ![m] = "seen"]
  /\ UNCHANGED <<open, reply, ledger, audit, told, overlapped>>

(* A text that is no movement, or that comes while a booking dialogue is   *)
(* under way (state not IDLE), is left to that dialogue.                   *)
LeaveToDialogue(m) ==
  /\ phase[m] = "seen"
  /\ phase' = [phase EXCEPT ![m] = "chat"]
  /\ UNCHANGED <<deliveries, open, reply, ledger, audit, told, overlapped>>

(* The entry is inserted and flushed, the balance summed in the same       *)
(* transaction, and the handler awaits Meta.                               *)
Capture(m) ==
  /\ phase[m] = "seen"
  /\ \E text \in Texts :
       /\ IsMovement(text)
       /\ open' = [open EXCEPT ![m] = NewEntry(text)]
       /\ reply' = [reply EXCEPT ![m] = BalanceSeen(NewEntry(text))]
  /\ phase' = [phase EXCEPT ![m] = "calling"]
  /\ overlapped' = IF Calling = {} THEN overlapped ELSE overlapped \cup Calling \cup {m}
  /\ UNCHANGED <<deliveries, ledger, audit, told>>

(* Meta takes the reply: the owner reads it.                               *)
MetaAccepts(m) ==
  /\ phase[m] = "calling"
  /\ phase' = [phase EXCEPT ![m] = "accepted"]
  /\ told' = [told EXCEPT ![m] = <<reply[m]>>]
  /\ UNCHANGED <<deliveries, open, reply, ledger, audit, overlapped>>

(* The answer comes back, session_scope commits entry and audit event.     *)
CreatedEvent(data) == [type |-> "created", before |-> NoEntry, after |-> data]
CommitFirst(m) == phase[m] \in {"calling", "accepted"}
MayCommit(m) == phase[m] = "accepted"
Commit(m) ==
  /\ MayCommit(m)
  /\ ledger' = Append(ledger, [source |-> m, data |-> open[m]])
  /\ audit' = Append(audit, <<CreatedEvent(open[m])>>)
  /\ open' = [open EXCEPT ![m] = NoEntry]
  /\ phase' = [phase EXCEPT ![m] = "noted"]
  /\ UNCHANGED <<deliveries, reply, told, overlapped>>

(* Meta refuses, its answer is lost or the commit fails: the exception     *)
(* leaves session_scope and the entry is rolled back.                      *)
RollBack(m) ==
  /\ phase[m] \in {"calling", "accepted"}
  /\ open' = [open EXCEPT ![m] = NoEntry]
  /\ phase' = [phase EXCEPT ![m] = "dropped"]
  /\ UNCHANGED <<deliveries, reply, ledger, audit, told, overlapped>>

(* The process stops: every handler under way is lost, with its            *)
(* transaction; the inbound rows stay.                                     *)
Crash ==
  /\ \E m \in Messages : phase[m] \in {"seen", "calling", "accepted"}
  /\ phase' = [m \in Messages |->
                 IF phase[m] \in {"seen", "calling", "accepted"} THEN "dropped" ELSE phase[m]]
  /\ open' = [m \in Messages |-> NoEntry]
  /\ UNCHANGED <<deliveries, reply, ledger, audit, told, overlapped>>

(* Staff file an entry under a category.  Filing it as uncategorized puts  *)
(* it back into the review queue.                                          *)
Reviewed(data, category) ==
  [data EXCEPT !.category = category, !.status = StatusFor(category)]
LateReviewEvent(before, after) == [type |-> "reviewed", before |-> after, after |-> after]
ReviewEvent(before, after) == [type |-> "reviewed", before |-> before, after |-> after]
Review(i, category) ==
  /\ i \in DOMAIN ledger
  /\ Len(audit[i]) < MaxAudit
  /\ LET before == ledger[i].data
         after == Reviewed(before, category)
     IN /\ ledger' = [ledger EXCEPT ![i].data = after]
        /\ audit' = [audit EXCEPT ![i] = Append(@, ReviewEvent(before, after))]
  /\ UNCHANGED <<phase, deliveries, open, reply, told, overlapped>>

Next ==
  \/ \E m \in Messages :
       \/ Deliver(m)
       \/ LeaveToDialogue(m)
       \/ Capture(m)
       \/ MetaAccepts(m)
       \/ Commit(m)
       \/ RollBack(m)
  \/ Crash
  \/ \E i \in DOMAIN ledger, category \in Categories : Review(i, category)

Spec == Init /\ [][Next]_vars

-----------------------------------------------------------------------------
(* A message gives at most one entry however often it is delivered; an     *)
(* entry is in the ledger exactly when its handler saw Meta's answer, and  *)
(* no entry is kept that the owner was not told of (handlers.py:87-110:    *)
(* the reply goes out inside the entry's transaction).                     *)
EntriesOf(m) == {i \in DOMAIN ledger : ledger[i].source = m}
KeptEntriesWereTold ==
  \A m \in Messages :
    /\ Cardinality(EntriesOf(m)) <= 1
    /\ phase[m] = "noted" <=> EntriesOf(m) # {}
    /\ EntriesOf(m) # {} => told[m] # <<>>

(* The audit events of an entry are its whole history: the first is the    *)
(* creation, each later one starts from what the one before it left, and   *)
(* the last one leaves what the entry holds ("every mutation writes an     *)
(* audit event", cash_ledger.py:3-5).                                      *)
Rebuilds(history, data) ==
  /\ history # <<>>
  /\ history[1].type = "created" /\ history[1].before = NoEntry
  /\ \A k \in 2..Len(history) :
       /\ history[k].type = "reviewed"
       /\ history[k].before = history[k - 1].after
  /\ history[Len(history)].after = data
AuditRebuildsLedger ==
  /\ Len(audit) = Len(ledger)
  /\ \A i \in DOMAIN audit : Rebuilds(audit[i], ledger[i].data)

(* What the two rest on: an entry is open exactly while its handler is     *)
(* with Meta, the owner has read the reply of an accepted one, and no two  *)
(* entries come from one message.                                          *)
OpenWhileCalling ==
  \A m \in Messages : open[m] # NoEntry <=> phase[m] \in {"calling", "accepted"}
AcceptedWereTold ==
  \A m \in Messages : phase[m] \in {"accepted", "noted"} => told[m] # <<>>
OneEntryPerMessage ==
  /\ \A i, j \in DOMAIN ledger : ledger[i].source = ledger[j].source => i = j
  /\ \A m \in Messages :
       phase[m] = "noted" <=> \E i \in DOMAIN ledger : ledger[i].source = m

IndInv ==
  /\ TypeOK
  /\ OpenWhileCalling
  /\ AcceptedWereTold
  /\ OneEntryPerMessage
  /\ AuditRebuildsLedger

(* The balance told with the newest entry is the ledger's balance, unless  *)
(* its transaction was open together with another one: two overlapping     *)
(* notes each miss the other's uncommitted entry (cash_ledger.py:473).     *)
LastBalanceToldIsCurrent ==
  ledger # <<>> =>
    LET m == ledger[Len(ledger)].source
    IN m \notin overlapped => told[m] = <<Balance>>

(* What it rests on: while a transaction is the only one open, its reply   *)
(* is the ledger's balance with its own entry; and what the owner is told  *)
(* is the reply.                                                           *)
ReplyIsOwnBalance ==
  \A m \in Calling \ overlapped :
    /\ \A k \in Calling : k = m
    /\ reply[m] = BalanceSeen(open[m])
ToldIsReply ==
  \A m \in Messages : phase[m] \in {"accepted", "noted"} => told[m] = <<reply[m]>>

BalanceInv == IndInv /\ ReplyIsOwnBalance /\ ToldIsReply /\ LastBalanceToldIsCurrent
=============================================================================
