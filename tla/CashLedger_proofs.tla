-------------------------- MODULE CashLedger_proofs --------------------------
(* The owner's cash notes: what is kept was told and is audited, for any   *)
(* messages, texts, keywords and numbers of deliveries and reviews.        *)
EXTENDS CashLedger, FiniteSetTheorems, SequenceTheorems, WellFoundedInduction, TLAPS

-----------------------------------------------------------------------------
(* Reading a text.                                                         *)

(* A text with a word of a list has a first list.                          *)
LEMMA FirstListExists ==
  ASSUME NEW words \in SUBSET TransactionTypes, words # {}
  PROVE  TransactionType(words) \in TransactionTypes
<1> DEFINE First(i) == /\ TypePriority[i] \in words
                       /\ \A j \in 1..(i - 1) : TypePriority[j] \notin words
<1>1. PICK i \in 1..5 : TypePriority[i] \in words
  BY DEF TransactionTypes
<1>2. \E k \in 1..5 : First(k)
  <2>1. CASE TypePriority[1] \in words
    BY <2>1
  <2>2. CASE TypePriority[1] \notin words /\ TypePriority[2] \in words
    BY <2>2
  <2>3. CASE TypePriority[1] \notin words /\ TypePriority[2] \notin words /\ TypePriority[3] \in words
    BY <2>3
  <2>4. CASE /\ TypePriority[1] \notin words /\ TypePriority[2] \notin words
             /\ TypePriority[3] \notin words /\ TypePriority[4] \in words
    BY <2>4
  <2>5. CASE /\ TypePriority[1] \notin words /\ TypePriority[2] \notin words
             /\ TypePriority[3] \notin words /\ TypePriority[4] \notin words
    <3>1. i = 5
      BY <1>1, <2>5
    <3> QED BY <1>1, <2>5, <3>1
  <2> QED BY <2>1, <2>2, <2>3, <2>4, <2>5
<1>3. (CHOOSE k \in 1..5 : First(k)) \in 1..5
  BY <1>2
<1> QED BY <1>3 DEF TransactionType, TransactionTypes

(* What is stored for a movement is a well-formed entry.                   *)
LEMMA NewEntryTyped ==
  ASSUME NEW text \in Texts, IsMovement(text)
  PROVE  NewEntry(text) \in Snapshot
<1> DEFINE type == TransactionType(text.words)
           category == InferCategory(type, text.keyword)
<1>1. type \in TransactionTypes /\ text.amount \in Nat /\ text.keyword \in Keywords \cup {NoKeyword}
  BY FirstListExists, TextsAssumption DEF IsMovement
<1>2. type \in {"bank_withdrawal", "bank_deposit", "cash_received", "cash_payment", "other_cash_in"}
  BY <1>1 DEF TransactionTypes, TypePriority
<1>3. category \in Categories
  <2> HIDE DEF type
  <2> QED BY <1>1, <1>2 DEF InferCategory, Categories
<1>4. Direction(type) \in Directions /\ StatusFor(category) \in {"recorded", "needs_review"}
  BY DEF Direction, Directions, StatusFor
<1> HIDE DEF type, category
<1>5. [direction |-> Direction(type), amount |-> text.amount,
       category |-> category, status |-> StatusFor(category)] \in Snapshot
  BY <1>1, <1>3, <1>4 DEF Snapshot
<1> QED BY <1>5 DEF NewEntry, type, category

LEMMA ReviewedTyped ==
  ASSUME NEW data \in Snapshot, NEW category \in Categories
  PROVE  Reviewed(data, category) \in Snapshot
BY DEF Reviewed, Snapshot, StatusFor

-----------------------------------------------------------------------------
(* Histories.                                                              *)

(* A creation is a history of what it created.                             *)
LEMMA CreationRebuilds ==
  ASSUME NEW data \in Snapshot
  PROVE  /\ <<CreatedEvent(data)>> \in Seq(Event)
         /\ Rebuilds(<<CreatedEvent(data)>>, data)
<1>1. CreatedEvent(data) \in Event
  BY DEF CreatedEvent, Event
<1>2. Len(<<CreatedEvent(data)>>) = 1 /\ <<CreatedEvent(data)>>[1] = CreatedEvent(data)
  OBVIOUS
<1>3. \A k \in 2..1 : FALSE
  OBVIOUS
<1>4. <<CreatedEvent(data)>> \in Seq(Event)
  BY <1>1
<1> QED BY <1>2, <1>3, <1>4 DEF Rebuilds, CreatedEvent

(* A review appended to the history of an entry is one of what it left.    *)
LEMMA ReviewRebuilds ==
  ASSUME NEW history \in Seq(Event), NEW before \in Snapshot, NEW after \in Snapshot,
         Rebuilds(history, before)
  PROVE  /\ Append(history, ReviewEvent(before, after)) \in Seq(Event)
         /\ Rebuilds(Append(history, ReviewEvent(before, after)), after)
<1> DEFINE event == ReviewEvent(before, after)
           longer == Append(history, event)
<1>1. event \in Event /\ event.type = "reviewed" /\ event.before = before /\ event.after = after
  BY DEF ReviewEvent, Event
<1> HIDE DEF event
<1>2. /\ longer \in Seq(Event) /\ longer # <<>>
      /\ Len(longer) = Len(history) + 1
      /\ \A k \in 1..Len(history) : longer[k] = history[k]
      /\ longer[Len(history) + 1] = event
  BY <1>1, AppendProperties
<1>3. Len(history) \in Nat \ {0}
  BY EmptySeq DEF Rebuilds
<1> HIDE DEF longer
<1>4. longer[1].type = "created" /\ longer[1].before = NoEntry
  BY <1>2, <1>3 DEF Rebuilds
<1>5. ASSUME NEW k \in 2..Len(longer)
      PROVE  longer[k].type = "reviewed" /\ longer[k].before = longer[k - 1].after
  <2>1. CASE k = Len(history) + 1
    <3>1. longer[k - 1] = history[Len(history)]
      BY <2>1, <1>2, <1>3
    <3>2. history[Len(history)].after = before
      BY DEF Rebuilds
    <3> QED BY <1>1, <1>2, <2>1, <3>1, <3>2
  <2>2. CASE k # Len(history) + 1
    <3>1. k \in 2..Len(history) /\ k - 1 \in 1..Len(history)
      BY <1>2, <1>3, <2>2
    <3>2. longer[k] = history[k] /\ longer[k - 1] = history[k - 1]
      BY <1>2, <1>3, <3>1
    <3> QED BY <3>1, <3>2 DEF Rebuilds
  <2> QED BY <2>1, <2>2
<1>6. longer[Len(longer)].after = after
  BY <1>1, <1>2
<1> QED BY <1>2, <1>4, <1>5, <1>6 DEF Rebuilds, longer, event

-----------------------------------------------------------------------------
(* The inductive invariant.                                                *)

LEMMA IndInit == Init => IndInv
<1> SUFFICES ASSUME Init PROVE IndInv
  OBVIOUS
<1>1. TypeOK
  BY BoundsAssumption, EmptySeq DEF Init, TypeOK, Phases
<1>2. DOMAIN ledger = {} /\ DOMAIN audit = {} /\ Len(audit) = Len(ledger)
  BY DEF Init
<1> QED
  BY <1>1, <1>2 DEF Init, IndInv, OpenWhileCalling, AcceptedWereTold, OneEntryPerMessage,
                    AuditRebuildsLedger

(* Steps that leave the ledger and its audit alone and keep a message out  *)
(* of "noted".                                                             *)
QuietStep ==
  /\ UNCHANGED <<ledger, audit>>
  /\ \A m \in Messages : phase'[m] = "noted" <=> phase[m] = "noted"
LEMMA QuietInv ==
  IndInv /\ QuietStep => OneEntryPerMessage' /\ AuditRebuildsLedger'
BY DEF IndInv, QuietStep, OneEntryPerMessage, AuditRebuildsLedger, Rebuilds

LEMMA DeliverInv == ASSUME NEW m \in Messages, IndInv, Deliver(m) PROVE IndInv'
<1> USE DEF IndInv
<1>1. TypeOK'
  BY BoundsAssumption DEF TypeOK, Deliver, AlreadySeen, Phases
<1>2. QuietStep /\ OpenWhileCalling' /\ AcceptedWereTold'
  BY DEF TypeOK, Deliver, AlreadySeen, QuietStep, OpenWhileCalling, AcceptedWereTold
<1> QED BY <1>1, <1>2, QuietInv

LEMMA LeaveInv == ASSUME NEW m \in Messages, IndInv, LeaveToDialogue(m) PROVE IndInv'
<1> USE DEF IndInv
<1>1. TypeOK'
  BY DEF TypeOK, LeaveToDialogue, Phases
<1>2. QuietStep /\ OpenWhileCalling' /\ AcceptedWereTold'
  BY DEF TypeOK, LeaveToDialogue, QuietStep, OpenWhileCalling, AcceptedWereTold
<1> QED BY <1>1, <1>2, QuietInv

LEMMA CaptureInv == ASSUME NEW m \in Messages, IndInv, Capture(m) PROVE IndInv'
<1> USE DEF IndInv
<1>1. PICK text \in Texts :
        /\ IsMovement(text)
        /\ open' = [open EXCEPT ![m] = NewEntry(text)]
        /\ reply' = [reply EXCEPT ![m] = BalanceSeen(NewEntry(text))]
  BY DEF Capture
<1>2. NewEntry(text) \in Snapshot /\ NewEntry(text) # NoEntry
  BY <1>1, NewEntryTyped, NoEntryAssumption
<1>3. TypeOK'
  <2>1. open' \in [Messages -> Snapshot \cup {NoEntry}] /\ DOMAIN reply' = Messages
    BY <1>1, <1>2 DEF TypeOK
  <2>2. phase' \in [Messages -> Phases] /\ overlapped' \subseteq Messages
    BY DEF TypeOK, Capture, Calling, Phases
  <2> QED BY <2>1, <2>2 DEF TypeOK, Capture
<1>4. QuietStep /\ OpenWhileCalling' /\ AcceptedWereTold'
  BY <1>1, <1>2 DEF TypeOK, Capture, QuietStep, OpenWhileCalling, AcceptedWereTold
<1> QED BY <1>3, <1>4, QuietInv

LEMMA MetaAcceptsInv == ASSUME NEW m \in Messages, IndInv, MetaAccepts(m) PROVE IndInv'
<1> USE DEF IndInv
<1>1. TypeOK'
  BY DEF TypeOK, MetaAccepts, Phases
<1>2. told'[m] = <<reply[m]>> /\ \A n \in Messages \ {m} : told'[n] = told[n]
  BY DEF TypeOK, MetaAccepts
<1>3. <<reply[m]>> # <<>>
  OBVIOUS
<1>4. QuietStep /\ OpenWhileCalling' /\ AcceptedWereTold'
  BY <1>2, <1>3 DEF TypeOK, MetaAccepts, QuietStep, OpenWhileCalling, AcceptedWereTold
<1> QED BY <1>1, <1>4, QuietInv

LEMMA RollBackInv == ASSUME NEW m \in Messages, IndInv, RollBack(m) PROVE IndInv'
<1> USE DEF IndInv
<1>1. TypeOK'
  BY DEF TypeOK, RollBack, Phases
<1>2. QuietStep /\ OpenWhileCalling' /\ AcceptedWereTold'
  BY DEF TypeOK, RollBack, QuietStep, OpenWhileCalling, AcceptedWereTold
<1> QED BY <1>1, <1>2, QuietInv

LEMMA CrashInv == IndInv /\ Crash => IndInv'
<1> SUFFICES ASSUME IndInv, Crash PROVE IndInv'
  OBVIOUS
<1> USE DEF IndInv
<1>1. TypeOK'
  BY DEF TypeOK, Crash, Phases
<1>2. QuietStep /\ OpenWhileCalling' /\ AcceptedWereTold'
  BY DEF TypeOK, Crash, QuietStep, OpenWhileCalling, AcceptedWereTold
<1> QED BY <1>1, <1>2, QuietInv

(* The entry of an accepted note is new: its message was not noted yet.    *)
LEMMA CommitInv == ASSUME NEW m \in Messages, IndInv, Commit(m) PROVE IndInv'
<1> USE DEF IndInv
<1> DEFINE entry == [source |-> m, data |-> open[m]]
           history == <<CreatedEvent(open[m])>>
           n == Len(ledger)
<1>1. phase[m] = "accepted" /\ open[m] \in Snapshot
  BY DEF Commit, MayCommit, OpenWhileCalling, TypeOK
<1>2. entry \in Entry /\ entry.source = m /\ entry.data = open[m]
  BY <1>1 DEF Entry
<1>3. history \in Seq(Event) /\ Rebuilds(history, open[m])
  BY <1>1, CreationRebuilds
<1> HIDE DEF entry, history
<1>4. /\ ledger' = Append(ledger, entry) /\ audit' = Append(audit, history)
      /\ phase' = [phase EXCEPT ![m] = "noted"] /\ open' = [open EXCEPT ![m] = NoEntry]
  BY DEF Commit, entry, history
<1>5. ledger \in Seq(Entry) /\ audit \in Seq(Seq(Event)) /\ n \in Nat /\ Len(audit) = n
  BY LenProperties DEF TypeOK, AuditRebuildsLedger
<1> HIDE DEF n
<1>6. /\ ledger' \in Seq(Entry) /\ Len(ledger') = n + 1
      /\ \A i \in 1..n : ledger'[i] = ledger[i]
      /\ ledger'[n + 1] = entry
  BY <1>2, <1>4, <1>5, AppendProperties DEF n
<1>7. /\ audit' \in Seq(Seq(Event)) /\ Len(audit') = n + 1
      /\ \A i \in 1..n : audit'[i] = audit[i]
      /\ audit'[n + 1] = history
  BY <1>3, <1>4, <1>5, AppendProperties
<1>8. /\ DOMAIN ledger = 1..n /\ DOMAIN audit = 1..n
      /\ DOMAIN ledger' = 1..(n + 1) /\ DOMAIN audit' = 1..(n + 1)
  BY <1>5, <1>6, <1>7, LenProperties DEF n
<1>9. TypeOK'
  BY <1>4, <1>6, <1>7 DEF TypeOK, Commit, Phases
<1>10. OpenWhileCalling' /\ AcceptedWereTold'
  BY <1>1, <1>4 DEF TypeOK, OpenWhileCalling, AcceptedWereTold, Commit
<1>11. OneEntryPerMessage'
  <2>1. \A i \in 1..n : ledger[i].source # m
    BY <1>1, <1>8 DEF OneEntryPerMessage
  <2>2. ASSUME NEW i \in 1..(n + 1), NEW j \in 1..(n + 1), ledger'[i].source = ledger'[j].source
        PROVE  i = j
    <3>1. CASE i \in 1..n /\ j \in 1..n
      <4>1. ledger[i].source = ledger[j].source
        BY <3>1, <2>2, <1>6
      <4> QED BY <4>1, <3>1, <1>8 DEF OneEntryPerMessage
    <3>2. CASE i = n + 1 /\ j \in 1..n
      BY <3>2, <2>1, <2>2, <1>2, <1>6
    <3>3. CASE i \in 1..n /\ j = n + 1
      BY <3>3, <2>1, <2>2, <1>2, <1>6
    <3> QED BY <3>1, <3>2, <3>3, <1>5
  <2>3. ASSUME NEW k \in Messages
        PROVE  phase'[k] = "noted" <=> \E i \in 1..(n + 1) : ledger'[i].source = k
    <3>1. CASE k = m
      BY <3>1, <1>2, <1>4, <1>5, <1>6 DEF TypeOK
    <3>2. CASE k # m
      <4>1. phase'[k] = phase[k]
        BY <3>2, <1>4 DEF TypeOK
      <4>2. phase[k] = "noted" <=> \E i \in 1..n : ledger[i].source = k
        BY <1>8 DEF OneEntryPerMessage
      <4>3. (\E i \in 1..(n + 1) : ledger'[i].source = k) <=> \E i \in 1..n : ledger'[i].source = k
        <5>1. ledger'[n + 1].source # k
          BY <3>2, <1>2, <1>6
        <5> QED BY <5>1, <1>5
      <4>4. (\E i \in 1..n : ledger'[i].source = k) <=> \E i \in 1..n : ledger[i].source = k
        BY <1>6
      <4> QED BY <4>1, <4>2, <4>3, <4>4
    <3> QED BY <3>1, <3>2
  <2> QED BY <2>2, <2>3, <1>8 DEF OneEntryPerMessage
<1>12. AuditRebuildsLedger'
  <2>1. ASSUME NEW i \in 1..(n + 1) PROVE Rebuilds(audit'[i], ledger'[i].data)
    <3>1. CASE i = n + 1
      BY <3>1, <1>2, <1>3, <1>6, <1>7
    <3>2. CASE i # n + 1
      <4>1. i \in 1..n
        BY <3>2, <1>5
      <4>2. Rebuilds(audit[i], ledger[i].data)
        BY <4>1, <1>8 DEF AuditRebuildsLedger
      <4> QED BY <4>1, <4>2, <1>6, <1>7
    <3> QED BY <3>1, <3>2
  <2>2. AuditRebuildsLedger' <=> /\ Len(audit') = Len(ledger')
                                /\ \A i \in DOMAIN audit' : Rebuilds(audit'[i], ledger'[i].data)
    BY DEF AuditRebuildsLedger, Rebuilds
  <2> QED BY <2>1, <2>2, <1>6, <1>7, <1>8
<1> QED BY <1>9, <1>10, <1>11, <1>12

(* A review changes one entry and appends to the history of the same one.  *)
LEMMA ReviewInv ==
  ASSUME NEW i \in DOMAIN ledger, NEW category \in Categories, IndInv, Review(i, category)
  PROVE  IndInv'
<1> USE DEF IndInv
<1> DEFINE before == ledger[i].data
           after == Reviewed(before, category)
           entry == [ledger[i] EXCEPT !.data = after]
           history == Append(audit[i], ReviewEvent(before, after))
           n == Len(ledger)
<1>1. /\ ledger \in Seq(Entry) /\ audit \in Seq(Seq(Event)) /\ n \in Nat /\ Len(audit) = n
      /\ DOMAIN ledger = 1..n /\ DOMAIN audit = 1..n /\ i \in 1..n
  BY LenProperties DEF TypeOK, AuditRebuildsLedger
<1>2. ledger[i] \in Entry /\ audit[i] \in Seq(Event)
  BY <1>1, ElementOfSeq
<1>3. before \in Snapshot /\ after \in Snapshot
  BY <1>2, ReviewedTyped DEF Entry
<1>4. entry \in Entry /\ entry.source = ledger[i].source /\ entry.data = after
  <2> HIDE DEF after
  <2> QED BY <1>2, <1>3 DEF Entry
<1>5. history \in Seq(Event) /\ Rebuilds(history, after)
  <2>1. Rebuilds(audit[i], before)
    BY <1>1 DEF AuditRebuildsLedger
  <2> HIDE DEF before, after
  <2> QED BY <2>1, <1>2, <1>3, ReviewRebuilds
<1>6. ledger' = [ledger EXCEPT ![i] = entry] /\ audit' = [audit EXCEPT ![i] = history]
  BY <1>1, <1>2 DEF Review
<1> HIDE DEF before, after, entry, history, n
<1>7. /\ ledger' \in Seq(Entry) /\ Len(ledger') = n
      /\ \A j \in 1..n : ledger'[j] = IF j = i THEN entry ELSE ledger[j]
  BY <1>1, <1>4, <1>6, ExceptSeq DEF n
<1>8. /\ audit' \in Seq(Seq(Event)) /\ Len(audit') = n
      /\ \A j \in 1..n : audit'[j] = IF j = i THEN history ELSE audit[j]
  BY <1>1, <1>5, <1>6, ExceptSeq
<1>9. DOMAIN ledger' = 1..n /\ DOMAIN audit' = 1..n
  BY <1>7, <1>8, LenProperties
<1>10. UNCHANGED <<phase, deliveries, open, reply, told, overlapped>>
  BY DEF Review
<1>11. TypeOK'
  BY <1>7, <1>8, <1>10 DEF TypeOK
<1>12. OpenWhileCalling' /\ AcceptedWereTold'
  BY <1>10 DEF OpenWhileCalling, AcceptedWereTold
<1>13. OneEntryPerMessage'
  <2>1. \A j \in 1..n : ledger'[j].source = ledger[j].source
    BY <1>4, <1>7
  <2> QED BY <2>1, <1>1, <1>9, <1>10 DEF OneEntryPerMessage
<1>14. AuditRebuildsLedger'
  <2>1. ASSUME NEW j \in 1..n PROVE Rebuilds(audit'[j], ledger'[j].data)
    <3>1. CASE j = i
      BY <3>1, <1>4, <1>5, <1>7, <1>8
    <3>2. CASE j # i
      <4>1. Rebuilds(audit[j], ledger[j].data)
        BY <1>1 DEF AuditRebuildsLedger
      <4> QED BY <4>1, <3>2, <1>7, <1>8
    <3> QED BY <3>1, <3>2
  <2>2. AuditRebuildsLedger' <=> /\ Len(audit') = Len(ledger')
                                /\ \A j \in DOMAIN audit' : Rebuilds(audit'[j], ledger'[j].data)
    BY DEF AuditRebuildsLedger, Rebuilds
  <2> QED BY <2>1, <2>2, <1>7, <1>8, <1>9
<1> QED BY <1>11, <1>12, <1>13, <1>14

LEMMA IndStep == IndInv /\ [Next]_vars => IndInv'
<1> SUFFICES ASSUME IndInv, [Next]_vars PROVE IndInv'
  OBVIOUS
<1>1. ASSUME NEW m \in Messages,
             \/ Deliver(m) \/ LeaveToDialogue(m) \/ Capture(m)
             \/ MetaAccepts(m) \/ Commit(m) \/ RollBack(m)
      PROVE  IndInv'
  BY <1>1, DeliverInv, LeaveInv, CaptureInv, MetaAcceptsInv, CommitInv, RollBackInv
<1>2. CASE Crash
  BY <1>2, CrashInv
<1>3. ASSUME NEW i \in DOMAIN ledger, NEW category \in Categories, Review(i, category)
      PROVE  IndInv'
  BY <1>3, ReviewInv
<1>4. CASE UNCHANGED vars
  <2>1. QuietStep /\ TypeOK' /\ OpenWhileCalling' /\ AcceptedWereTold'
    BY <1>4 DEF vars, IndInv, QuietStep, TypeOK, OpenWhileCalling, AcceptedWereTold
  <2> QED BY <2>1, QuietInv DEF IndInv
<1> QED BY <1>1, <1>2, <1>3, <1>4 DEF Next

(* The strengthened invariant holds in every state.                        *)
THEOREM InductiveInvariant == Spec => []IndInv
BY IndInit, IndStep, PTL DEF Spec

(* Every state is type correct; in particular every stored entry is one    *)
(* the parser and the reviews can produce.                                 *)
THEOREM TypeCorrect == Spec => []TypeOK
BY InductiveInvariant, PTL DEF IndInv

(* However often a message is delivered and however its Meta call ends,    *)
(* there is at most one entry for it, exactly when its handler saw Meta's  *)
(* answer, and then the owner was told (handlers.py:87-110).               *)
LEMMA InvImpliesTold == IndInv => KeptEntriesWereTold
<1> SUFFICES ASSUME IndInv, NEW m \in Messages
             PROVE  /\ Cardinality(EntriesOf(m)) <= 1
                    /\ phase[m] = "noted" <=> EntriesOf(m) # {}
                    /\ EntriesOf(m) # {} => told[m] # <<>>
  BY DEF KeptEntriesWereTold
<1>1. phase[m] = "noted" <=> EntriesOf(m) # {}
  BY DEF IndInv, OneEntryPerMessage, EntriesOf
<1>2. EntriesOf(m) # {} => told[m] # <<>>
  BY <1>1 DEF IndInv, AcceptedWereTold
<1>3. Cardinality(EntriesOf(m)) <= 1
  <2>1. CASE EntriesOf(m) = {}
    BY <2>1, FS_EmptySet
  <2>2. CASE EntriesOf(m) # {}
    <3>1. PICK i \in EntriesOf(m) : TRUE
      BY <2>2
    <3>2. EntriesOf(m) = {i}
      BY <3>1 DEF IndInv, OneEntryPerMessage, EntriesOf
    <3> QED BY <3>2, FS_Singleton
  <2> QED BY <2>1, <2>2
<1> QED BY <1>1, <1>2, <1>3

(* A message gives at most one entry, and an entry that is kept was told   *)
(* to the owner, whatever is redelivered, refused or lost                  *)
(* (handlers.py:105).                                                      *)
THEOREM KeptNotesWereTold == Spec => []KeptEntriesWereTold
BY InductiveInvariant, InvImpliesTold, PTL

(* The audit trail of an entry leads from its creation to what it holds    *)
(* ("every mutation writes an audit event", cash_ledger.py:3-5).           *)
THEOREM AuditIsComplete == Spec => []AuditRebuildsLedger
BY InductiveInvariant, PTL DEF IndInv

-----------------------------------------------------------------------------
(* The balance.  Its sum is a recursive function of the ledger's length:   *)
(* the proof builds one, and shows that there is no other.                 *)

(* A set of naturals that is not empty has a least element.                *)
LEMMA Least ==
  ASSUME NEW T \in SUBSET Nat, T # {}
  PROVE  \E x \in T : \A y \in T : x <= y
<1> DEFINE R == OpToRel(<, Nat)
<1>1. IsWellFoundedOn(R, Nat)
  BY NatLessThanWellFounded
<1>2. \A x, y \in Nat : y < x => <<y, x>> \in R
  BY DEF OpToRel
<1> HIDE DEF R
<1>3. PICK x \in T : \A y \in T : <<y, x>> \notin R
  BY <1>1, WFMin
<1>4. \A y \in T : x <= y
  <2> TAKE y \in T
  <2>1. x \in Nat /\ y \in Nat
    OBVIOUS
  <2>2. ~(y < x)
    BY <1>2, <1>3, <2>1
  <2> QED BY <2>1, <2>2
<1> QED BY <1>4

(* The running sums of n values.                                           *)
Sums(g, n, v) ==
  /\ g \in [0..n -> Int]
  /\ g[0] = 0
  /\ \A i \in 1..n : g[i] = g[i - 1] + v[i]

LEMMA SumsExist ==
  ASSUME NEW n \in Nat, NEW v \in [1..n -> Int]
  PROVE  \E g : Sums(g, n, v)
<1> DEFINE T == {k \in 0..n : ~\E g : Sums(g, k, v)}
<1>1. T = {}
  <2> SUFFICES ASSUME T # {} PROVE FALSE
    OBVIOUS
  <2>1. PICK k \in T : \A j \in T : k <= j
    <3>1. T \in SUBSET Nat
      OBVIOUS
    <3> HIDE DEF T
    <3> QED BY <3>1, Least
  <2>2. k # 0
    <3>1. Sums([i \in 0..0 |-> 0], 0, v)
      BY DEF Sums
    <3> QED BY <3>1
  <2>3. k - 1 \in 0..n /\ k - 1 \notin T /\ k \in 1..n
    BY <2>1, <2>2
  <2>4. PICK g : Sums(g, k - 1, v)
    BY <2>3
  <2> DEFINE h == [i \in 0..k |-> IF i = k THEN g[k - 1] + v[k] ELSE g[i]]
  <2>5. g \in [0..(k - 1) -> Int] /\ g[0] = 0 /\ \A i \in 1..(k - 1) : g[i] = g[i - 1] + v[i]
    BY <2>4 DEF Sums
  <2>6. h \in [0..k -> Int]
    BY <2>3, <2>5
  <2>7. h[0] = 0
    BY <2>3, <2>5
  <2>8. ASSUME NEW i \in 1..k PROVE h[i] = h[i - 1] + v[i]
    BY <2>3, <2>5
  <2>9. Sums(h, k, v)
    <3> HIDE DEF h
    <3> QED BY <2>6, <2>7, <2>8 DEF Sums
  <2> QED BY <2>9
<1>2. n \in 0..n
  OBVIOUS
<1> QED BY <1>1, <1>2

(* Sums of values that agree up to k agree up to k.                        *)
LEMMA SumsAgree ==
  ASSUME NEW n \in Nat, NEW m \in Nat, NEW v, NEW w, NEW g, NEW h,
         Sums(g, n, v), Sums(h, m, w),
         NEW k \in 0..n, k \in 0..m, \A i \in 1..k : v[i] = w[i]
  PROVE  g[k] = h[k]
<1> DEFINE T == {i \in 0..k : g[i] # h[i]}
<1>1. T = {}
  <2> SUFFICES ASSUME T # {} PROVE FALSE
    OBVIOUS
  <2>1. PICK i \in T : \A j \in T : i <= j
    <3>1. T \in SUBSET Nat
      OBVIOUS
    <3> HIDE DEF T
    <3> QED BY <3>1, Least
  <2>2. i # 0
    BY DEF Sums
  <2>3. i - 1 \in 0..k /\ i \in 1..k /\ i - 1 \notin T
    BY <2>1, <2>2
  <2>4. g[i - 1] = h[i - 1]
    BY <2>3
  <2>5. g[i] = g[i - 1] + v[i] /\ h[i] = h[i - 1] + w[i]
    BY <2>3 DEF Sums
  <2> QED BY <2>3, <2>4, <2>5
<1>2. k \in 0..k
  OBVIOUS
<1> QED BY <1>1, <1>2

LEMMA SignedTyped ==
  ASSUME NEW data \in Snapshot
  PROVE  Signed(data) \in Int
BY DEF Signed, Snapshot

(* What entries hold, as values to be summed.                              *)
Values(entries) == [i \in 1..Len(entries) |-> Signed(entries[i].data)]

LEMMA ValuesTyped ==
  ASSUME NEW entries \in Seq(Entry)
  PROVE  Len(entries) \in Nat /\ Values(entries) \in [1..Len(entries) -> Int]
<1>1. \A i \in 1..Len(entries) : Signed(entries[i].data) \in Int
  <2> TAKE i \in 1..Len(entries)
  <2>1. entries[i] \in Entry
    OBVIOUS
  <2>2. entries[i].data \in Snapshot
    BY <2>1 DEF Entry
  <2> QED BY <2>2, SignedTyped
<1> QED BY <1>1 DEF Values

(* The balance of the code is the last running sum.                        *)
LEMMA BalanceIsSum ==
  ASSUME NEW entries \in Seq(Entry)
  PROVE  \E g : /\ Sums(g, Len(entries), Values(entries))
                /\ BalanceOf(entries) = g[Len(entries)]
<1> DEFINE n == Len(entries)
           v == Values(entries)
           Solves(g) == g = [i \in 0..n |-> IF i = 0 THEN 0 ELSE g[i - 1] + Signed(entries[i].data)]
<1>1. n \in Nat /\ v \in [1..n -> Int]
  BY ValuesTyped
<1>2. \A i \in 1..n : v[i] = Signed(entries[i].data)
  BY DEF Values
<1>3. PICK s : Sums(s, n, v)
  <2> HIDE DEF n, v
  <2> QED BY <1>1, SumsExist
<1>4. Solves(s)
  <2>1. s \in [0..n -> Int] /\ s[0] = 0 /\ \A i \in 1..n : s[i] = s[i - 1] + v[i]
    BY <1>3 DEF Sums
  <2> HIDE DEF n, v
  <2>2. \A i \in 0..n : s[i] = IF i = 0 THEN 0 ELSE s[i - 1] + Signed(entries[i].data)
    BY <1>1, <1>2, <2>1
  <2> QED BY <2>1, <2>2
<1>5. \E g : Solves(g) /\ BalanceOf(entries) = g[n]
  BY <1>4 DEF BalanceOf
<1>6. PICK g : Solves(g) /\ BalanceOf(entries) = g[n]
  BY <1>5
<1>7. DOMAIN g = 0..n /\ g[0] = 0 /\ \A i \in 1..n : g[i] = g[i - 1] + v[i]
  <2> DEFINE H(i) == IF i = 0 THEN 0 ELSE g[i - 1] + Signed(entries[i].data)
  <2>1. g = [i \in 0..n |-> H(i)]
    BY <1>6
  <2> HIDE DEF H, n, v
  <2>2. DOMAIN g = 0..n /\ \A i \in 0..n : g[i] = H(i)
    BY <2>1
  <2>3. 0 \in 0..n /\ \A i \in 1..n : i \in 0..n /\ i # 0
    BY <1>1
  <2> QED BY <1>2, <2>2, <2>3 DEF H
<1>8. g \in [0..n -> Int]
  <2> DEFINE T == {i \in 0..n : g[i] \notin Int}
  <2>1. T = {}
    <3> SUFFICES ASSUME T # {} PROVE FALSE
      OBVIOUS
    <3>1. PICK i \in T : \A j \in T : i <= j
      <4>1. T \in SUBSET Nat
        BY <1>1
      <4> HIDE DEF T
      <4> QED BY <4>1, Least
    <3> HIDE DEF n, v
    <3>2. i # 0
      BY <1>7
    <3>3. i \in 1..n /\ i - 1 \in 0..n /\ i - 1 \notin T
      BY <1>1, <3>1, <3>2
    <3>4. g[i] = g[i - 1] + v[i] /\ g[i - 1] \in Int /\ v[i] \in Int
      BY <1>1, <1>7, <3>3
    <3> QED BY <3>4
  <2>2. g = [i \in 0..n |-> g[i]]
    BY <1>6
  <2> QED BY <2>1, <2>2
<1>9. Sums(g, n, v)
  BY <1>7, <1>8 DEF Sums
<1> QED BY <1>6, <1>9

LEMMA BalanceTyped ==
  ASSUME NEW entries \in Seq(Entry)
  PROVE  BalanceOf(entries) \in Int
<1>1. PICK g : Sums(g, Len(entries), Values(entries)) /\ BalanceOf(entries) = g[Len(entries)]
  BY BalanceIsSum
<1>2. Len(entries) \in 0..Len(entries)
  BY ValuesTyped
<1> QED BY <1>1, <1>2 DEF Sums

(* An entry at the end adds its amount.                                    *)
LEMMA BalanceAppend ==
  ASSUME NEW entries \in Seq(Entry), NEW e \in Entry
  PROVE  BalanceOf(Append(entries, e)) = BalanceOf(entries) + Signed(e.data)
<1> DEFINE longer == Append(entries, e)
           n == Len(entries)
<1>1. /\ longer \in Seq(Entry) /\ Len(longer) = n + 1 /\ n \in Nat
      /\ \A i \in 1..n : longer[i] = entries[i]
      /\ longer[n + 1] = e
  BY AppendProperties, LenProperties
<1>2. PICK g : Sums(g, n, Values(entries)) /\ BalanceOf(entries) = g[n]
  BY BalanceIsSum
<1> HIDE DEF longer
<1>3. PICK h : Sums(h, n + 1, Values(longer)) /\ BalanceOf(longer) = h[n + 1]
  BY <1>1, BalanceIsSum
<1>4. \A i \in 1..n : Values(entries)[i] = Values(longer)[i]
  BY <1>1 DEF Values
<1>5. g[n] = h[n]
  <2>1. n \in 0..n /\ n \in 0..(n + 1) /\ n + 1 \in Nat
    BY <1>1
  <2> HIDE DEF n
  <2> QED BY <1>1, <1>2, <1>3, <1>4, <2>1, SumsAgree
<1>6. h[n + 1] = h[n] + Values(longer)[n + 1]
  <2>1. n + 1 \in 1..(n + 1) /\ (n + 1) - 1 = n
    BY <1>1
  <2> QED BY <1>3, <2>1 DEF Sums
<1>7. Values(longer)[n + 1] = Signed(e.data)
  BY <1>1 DEF Values
<1> QED BY <1>2, <1>3, <1>5, <1>6, <1>7 DEF longer

(* Entries that move the same money have the same balance.                 *)
LEMMA BalanceSame ==
  ASSUME NEW a \in Seq(Entry), NEW b \in Seq(Entry), Len(a) = Len(b),
         \A i \in 1..Len(a) : Signed(a[i].data) = Signed(b[i].data)
  PROVE  BalanceOf(a) = BalanceOf(b)
<1> DEFINE n == Len(a)
<1>1. n \in Nat /\ n \in 0..n
  BY ValuesTyped
<1>2. PICK g : Sums(g, n, Values(a)) /\ BalanceOf(a) = g[n]
  BY BalanceIsSum
<1>3. PICK h : Sums(h, n, Values(b)) /\ BalanceOf(b) = h[n]
  BY BalanceIsSum
<1>4. \A i \in 1..n : Values(a)[i] = Values(b)[i]
  BY DEF Values
<1> HIDE DEF n
<1>5. g[n] = h[n]
  BY <1>1, <1>2, <1>3, <1>4, SumsAgree
<1> QED BY <1>2, <1>3, <1>5

-----------------------------------------------------------------------------
(* What the owner is told.                                                 *)

(* Steps that leave the ledger alone, and tell no more than the replies.   *)
LEMMA ToldKept ==
  ASSUME BalanceInv, ledger' = ledger, overlapped \subseteq overlapped',
         \A m \in Messages : phase[m] = "noted" => phase'[m] = "noted" /\ told'[m] = told[m],
         \A m \in Messages : phase'[m] \in {"accepted", "noted"} =>
           \/ phase[m] \in {"accepted", "noted"} /\ told'[m] = told[m] /\ reply'[m] = reply[m]
           \/ told'[m] = <<reply'[m]>>
  PROVE  ToldIsReply' /\ LastBalanceToldIsCurrent'
<1> USE DEF BalanceInv
<1>1. Balance' = Balance
  BY DEF Balance
<1>2. ToldIsReply'
  BY DEF ToldIsReply
<1>3. LastBalanceToldIsCurrent'
  <2> SUFFICES ASSUME ledger # <<>>, ledger[Len(ledger)].source \notin overlapped'
               PROVE  told'[ledger[Len(ledger)].source] = <<Balance>>
    BY <1>1 DEF LastBalanceToldIsCurrent
  <2> DEFINE m == ledger[Len(ledger)].source
  <2>1. m \notin overlapped /\ told[m] = <<Balance>>
    BY DEF LastBalanceToldIsCurrent
  <2>2. m \in Messages /\ phase[m] = "noted"
    <3>1. ledger \in Seq(Entry) /\ Len(ledger) \in DOMAIN ledger
      BY EmptySeq, LenProperties DEF IndInv, TypeOK
    <3>2. ledger[Len(ledger)] \in Entry
      BY <3>1, ElementOfSeq
    <3>3. m \in Messages
      BY <3>2 DEF Entry
    <3> QED BY <3>1, <3>3 DEF IndInv, OneEntryPerMessage
  <2> QED BY <2>1, <2>2
<1> QED BY <1>2, <1>3

(* Steps that open no transaction.                                         *)
LEMMA ReplyKept ==
  ASSUME BalanceInv, ledger' = ledger, overlapped \subseteq overlapped', Calling' \subseteq Calling,
         \A m \in Calling' : open'[m] = open[m] /\ reply'[m] = reply[m]
  PROVE  ReplyIsOwnBalance'
<1>1. Balance' = Balance
  BY DEF Balance
<1> QED BY <1>1 DEF BalanceInv, ReplyIsOwnBalance, BalanceSeen

(* A transaction opened while another one is open leaves both overlapped.  *)
LEMMA CaptureBalance ==
  ASSUME BalanceInv, NEW m \in Messages, Capture(m)
  PROVE  ReplyIsOwnBalance' /\ ToldIsReply' /\ LastBalanceToldIsCurrent'
<1> USE DEF BalanceInv
<1>1. PICK text \in Texts :
        /\ open' = [open EXCEPT ![m] = NewEntry(text)]
        /\ reply' = [reply EXCEPT ![m] = BalanceSeen(NewEntry(text))]
  BY DEF Capture
<1>2. /\ open'[m] = NewEntry(text) /\ reply'[m] = BalanceSeen(NewEntry(text))
      /\ \A k \in Messages \ {m} : open'[k] = open[k] /\ reply'[k] = reply[k]
  BY <1>1 DEF IndInv, TypeOK
<1>3. /\ phase[m] = "seen" /\ phase'[m] = "calling"
      /\ \A k \in Messages \ {m} : phase'[k] = phase[k]
      /\ told' = told /\ ledger' = ledger
  BY DEF Capture, IndInv, TypeOK
<1>4. Calling' = Calling \cup {m} /\ m \notin Calling
  BY <1>3 DEF Calling
<1>5. overlapped' = IF Calling = {} THEN overlapped ELSE overlapped \cup Calling \cup {m}
  BY DEF Capture
<1>6. Balance' = Balance
  BY <1>3 DEF Balance
<1>7. ReplyIsOwnBalance'
  <2>1. CASE Calling = {}
    BY <1>2, <1>4, <1>6, <2>1 DEF ReplyIsOwnBalance, BalanceSeen
  <2>2. CASE Calling # {}
    <3>1. Calling' \ overlapped' = {}
      BY <1>4, <1>5, <2>2
    <3> QED BY <3>1 DEF ReplyIsOwnBalance
  <2> QED BY <2>1, <2>2
<1>8. \A k \in Messages : phase[k] = "noted" => phase'[k] = "noted" /\ told'[k] = told[k]
  BY <1>3
<1>9. ASSUME NEW k \in Messages, phase'[k] \in {"accepted", "noted"}
      PROVE  phase[k] \in {"accepted", "noted"} /\ told'[k] = told[k] /\ reply'[k] = reply[k]
  BY <1>2, <1>3, <1>9
<1>10. overlapped \subseteq overlapped'
  BY <1>5
<1> QED BY <1>3, <1>7, <1>8, <1>9, <1>10, ToldKept

(* The entry of a note that was alone is what its reply counted.           *)
LEMMA CommitBalance ==
  ASSUME BalanceInv, NEW m \in Messages, Commit(m)
  PROVE  ReplyIsOwnBalance' /\ ToldIsReply' /\ LastBalanceToldIsCurrent'
<1> USE DEF BalanceInv
<1> DEFINE entry == [source |-> m, data |-> open[m]]
<1>1. phase[m] = "accepted" /\ open[m] \in Snapshot
  BY DEF Commit, MayCommit, IndInv, OpenWhileCalling, TypeOK
<1>2. entry \in Entry /\ entry.source = m /\ entry.data = open[m]
  BY <1>1 DEF Entry
<1> HIDE DEF entry
<1>3. /\ ledger' = Append(ledger, entry) /\ phase' = [phase EXCEPT ![m] = "noted"]
      /\ open' = [open EXCEPT ![m] = NoEntry]
      /\ UNCHANGED <<reply, told, overlapped>>
  BY DEF Commit, entry
<1>4. ledger \in Seq(Entry) /\ phase \in [Messages -> Phases]
  BY DEF IndInv, TypeOK
<1>5. Balance' = Balance + Signed(open[m])
  BY <1>2, <1>3, <1>4, BalanceAppend DEF Balance
<1>6. /\ Len(ledger') \in Nat /\ ledger'[Len(ledger')] = entry
  BY <1>2, <1>3, <1>4, AppendProperties, LenProperties
<1>7. m \in Calling /\ Calling' = Calling \ {m}
  BY <1>1, <1>3, <1>4 DEF Calling
<1>8. LastBalanceToldIsCurrent'
  <2> SUFFICES ASSUME m \notin overlapped PROVE told[m] = <<Balance'>>
    BY <1>2, <1>3, <1>6 DEF LastBalanceToldIsCurrent
  <2>1. reply[m] = BalanceSeen(open[m])
    BY <1>7 DEF ReplyIsOwnBalance
  <2>2. told[m] = <<reply[m]>>
    BY <1>1 DEF ToldIsReply
  <2> QED BY <1>5, <2>1, <2>2 DEF BalanceSeen
<1>9. ToldIsReply'
  BY <1>1, <1>3, <1>4 DEF ToldIsReply
<1>10. ReplyIsOwnBalance'
  <2>1. Calling' \ overlapped' = {}
    <3> SUFFICES ASSUME NEW k \in Calling \ overlapped, k # m PROVE FALSE
      BY <1>3, <1>7
    <3> QED BY <1>7 DEF ReplyIsOwnBalance
  <2> QED BY <2>1 DEF ReplyIsOwnBalance
<1> QED BY <1>8, <1>9, <1>10

(* A review moves no money.                                                *)
LEMMA ReviewBalance ==
  ASSUME BalanceInv, NEW i \in DOMAIN ledger, NEW category \in Categories, Review(i, category)
  PROVE  ReplyIsOwnBalance' /\ ToldIsReply' /\ LastBalanceToldIsCurrent'
<1> USE DEF BalanceInv
<1>1. ledger \in Seq(Entry) /\ DOMAIN ledger = 1..Len(ledger) /\ Len(ledger) \in Nat
  BY LenProperties DEF IndInv, TypeOK
<1> DEFINE after == Reviewed(ledger[i].data, category)
<1>2. UNCHANGED <<phase, open, reply, told, overlapped>> /\ ledger' = [ledger EXCEPT ![i].data = after]
  BY DEF Review
<1>3. ledger[i] \in Entry /\ ledger[i].data \in Snapshot
  <2>1. ledger[i] \in Entry
    BY <1>1, ElementOfSeq
  <2> QED BY <2>1 DEF Entry
<1>4. after.direction = ledger[i].data.direction /\ after.amount = ledger[i].data.amount
  BY <1>3 DEF Reviewed, Snapshot
<1>5. Signed(after) = Signed(ledger[i].data)
  BY <1>4 DEF Signed
<1> HIDE DEF after
<1>6. ledger' = [ledger EXCEPT ![i] = [ledger[i] EXCEPT !.data = after]]
  BY <1>2
<1>7. [ledger[i] EXCEPT !.data = after].data = after
      /\ [ledger[i] EXCEPT !.data = after].source = ledger[i].source
  BY <1>3 DEF Entry
<1>8. /\ Len(ledger') = Len(ledger)
      /\ \A j \in 1..Len(ledger) : ledger'[j] = IF j = i THEN [ledger[i] EXCEPT !.data = after] ELSE ledger[j]
  BY <1>1, <1>6
<1>9. \A j \in 1..Len(ledger) : /\ Signed(ledger'[j].data) = Signed(ledger[j].data)
                                /\ ledger'[j].source = ledger[j].source
  BY <1>5, <1>7, <1>8
<1>10. ledger' \in Seq(Entry)
  <2>1. IndInv'
    BY ReviewInv
  <2> QED BY <2>1 DEF IndInv, TypeOK
<1>11. Balance' = Balance
  BY <1>1, <1>8, <1>9, <1>10, BalanceSame DEF Balance
<1>12. ReplyIsOwnBalance' /\ ToldIsReply'
  BY <1>2, <1>11 DEF ReplyIsOwnBalance, ToldIsReply, Calling, BalanceSeen
<1>13. LastBalanceToldIsCurrent'
  <2>1. Len(ledger) \in 1..Len(ledger)
    BY <1>1
  <2>2. ledger # <<>> /\ ledger'[Len(ledger')].source = ledger[Len(ledger)].source
    BY <1>8, <1>9, <2>1
  <2> QED BY <1>2, <1>11, <2>2 DEF LastBalanceToldIsCurrent
<1> QED BY <1>12, <1>13

(* The other steps.                                                        *)
LEMMA QuietBalance ==
  ASSUME BalanceInv, NEW m \in Messages,
         Deliver(m) \/ LeaveToDialogue(m) \/ MetaAccepts(m) \/ RollBack(m)
  PROVE  ReplyIsOwnBalance' /\ ToldIsReply' /\ LastBalanceToldIsCurrent'
<1>1. /\ phase \in [Messages -> Phases] /\ open \in [Messages -> Snapshot \cup {NoEntry}]
      /\ DOMAIN told = Messages
  BY DEF BalanceInv, IndInv, TypeOK
<1>2. ledger' = ledger /\ overlapped' = overlapped /\ reply' = reply
  BY DEF Deliver, LeaveToDialogue, MetaAccepts, RollBack
<1>3. CASE Deliver(m)
  <2>1. Calling' = Calling /\ open' = open /\ told' = told
    BY <1>1, <1>3 DEF Deliver, AlreadySeen, Calling
  <2>2. \A k \in Messages : phase'[k] = phase[k] \/ (phase[k] = "new" /\ phase'[k] = "seen")
    BY <1>1, <1>3 DEF Deliver, AlreadySeen
  <2> QED BY <1>2, <2>1, <2>2, ReplyKept, ToldKept
<1>4. CASE LeaveToDialogue(m)
  <2>1. Calling' = Calling /\ open' = open /\ told' = told
    BY <1>1, <1>4 DEF LeaveToDialogue, Calling
  <2>2. \A k \in Messages : phase'[k] = phase[k] \/ (phase[k] = "seen" /\ phase'[k] = "chat")
    BY <1>1, <1>4 DEF LeaveToDialogue
  <2> QED BY <1>2, <2>1, <2>2, ReplyKept, ToldKept
<1>5. CASE MetaAccepts(m)
  <2>1. Calling' = Calling /\ open' = open
    BY <1>1, <1>5 DEF MetaAccepts, Calling
  <2>2. /\ phase[m] = "calling" /\ phase'[m] = "accepted" /\ told'[m] = <<reply[m]>>
        /\ \A k \in Messages \ {m} : phase'[k] = phase[k] /\ told'[k] = told[k]
    BY <1>1, <1>5 DEF MetaAccepts
  <2> QED BY <1>2, <2>1, <2>2, ReplyKept, ToldKept
<1>6. CASE RollBack(m)
  <2>1. /\ phase[m] \in {"calling", "accepted"} /\ phase'[m] = "dropped"
        /\ \A k \in Messages \ {m} : phase'[k] = phase[k] /\ open'[k] = open[k]
        /\ told' = told
    BY <1>1, <1>6 DEF RollBack
  <2>2. Calling' \subseteq Calling /\ \A k \in Calling' : open'[k] = open[k]
    BY <2>1 DEF Calling
  <2> QED BY <1>2, <2>1, <2>2, ReplyKept, ToldKept
<1> QED BY <1>3, <1>4, <1>5, <1>6

LEMMA CrashBalance ==
  ASSUME BalanceInv, Crash
  PROVE  ReplyIsOwnBalance' /\ ToldIsReply' /\ LastBalanceToldIsCurrent'
<1>1. /\ ledger' = ledger /\ overlapped' = overlapped /\ reply' = reply /\ told' = told
      /\ phase' = [m \in Messages |->
                     IF phase[m] \in {"seen", "calling", "accepted"} THEN "dropped" ELSE phase[m]]
  BY DEF Crash
<1>2. Calling' = {}
  BY <1>1 DEF Calling
<1>3. \A k \in Messages : phase'[k] = phase[k] \/ (phase[k] # "noted" /\ phase'[k] = "dropped")
  BY <1>1
<1> QED BY <1>1, <1>2, <1>3, ReplyKept, ToldKept

(* The owner is told the balance the ledger comes to, unless transactions  *)
(* overlapped.                                                             *)
THEOREM BalanceInvariant == Spec => []BalanceInv
<1>1. Init => BalanceInv
  <2> SUFFICES ASSUME Init PROVE BalanceInv
    OBVIOUS
  <2> QED BY IndInit DEF Init, BalanceInv, ReplyIsOwnBalance, ToldIsReply,
                         LastBalanceToldIsCurrent, Calling
<1>2. BalanceInv /\ [Next]_vars => BalanceInv'
  <2> SUFFICES ASSUME BalanceInv, [Next]_vars PROVE BalanceInv'
    OBVIOUS
  <2>1. IndInv'
    BY IndStep DEF BalanceInv
  <2>2. ASSUME NEW m \in Messages,
               Deliver(m) \/ LeaveToDialogue(m) \/ Capture(m) \/ MetaAccepts(m) \/ Commit(m) \/ RollBack(m)
        PROVE  ReplyIsOwnBalance' /\ ToldIsReply' /\ LastBalanceToldIsCurrent'
    BY <2>2, QuietBalance, CaptureBalance, CommitBalance
  <2>3. ASSUME NEW i \in DOMAIN ledger, NEW category \in Categories, Review(i, category)
        PROVE  ReplyIsOwnBalance' /\ ToldIsReply' /\ LastBalanceToldIsCurrent'
    BY <2>3, ReviewBalance
  <2>4. CASE UNCHANGED vars
    <3>1. Balance' = Balance
      BY <2>4 DEF vars, Balance
    <3> QED BY <2>1, <2>4, <3>1 DEF vars, BalanceInv, ReplyIsOwnBalance, ToldIsReply,
                                    LastBalanceToldIsCurrent, Calling, BalanceSeen
  <2> QED BY <2>1, <2>2, <2>3, <2>4, CrashBalance DEF Next, BalanceInv
<1> QED BY <1>1, <1>2, PTL DEF Spec

(* The balance told with the newest entry is the ledger's.                 *)
THEOREM BalanceToldIsCurrent == Spec => []LastBalanceToldIsCurrent
<1>1. BalanceInv => LastBalanceToldIsCurrent
  BY DEF BalanceInv
<1> QED BY <1>1, BalanceInvariant, PTL
=============================================================================
