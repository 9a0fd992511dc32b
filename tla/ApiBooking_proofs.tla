--------------------------- MODULE ApiBooking_proofs ---------------------------
(***************************************************************************)
(* What ApiBooking guarantees for any number of devices, submissions,      *)
(* server processes, bookings and faults.  The argument: an attempt goes   *)
(* by one client_request_id wherever it is written down, and the unique    *)
(* index keeps rows apart by it, so an attempt has one row; a submission   *)
(* answers with a row of its own key and phone, so that is what is shown;  *)
(* references grow, so only one submission ever alerts staff of a row.     *)
(***************************************************************************)
EXTENDS ApiBooking, FiniteSetTheorems, TLAPS

LEMMA OfIsDevice ==
  ASSUME NEW s \in Submission PROVE Of(s) \in Device
BY DEF Submission, Of

\* A submission that is somewhere is a task with all its fields.
LEMMA IsTask ==
  ASSUME TypeOK, NEW s \in Submission, task[s].pc # "free"
  PROVE  task[s] \in Tasks
BY DEF TypeOK, NoTask

LEMMA TaskIsNotNoTask ==
  ASSUME NEW t \in Tasks PROVE t # NoTask /\ t.pc # "free"
BY DEF Tasks, NoTask, Serving

-----------------------------------------------------------------------------
(* One lemma per part of the invariant: what a step has to respect. *)

LEMMA KeyedShrinks ==
  ASSUME \A r \in rows' : <<r.attempt, r.key>> \in Keyed,
         \A d \in Device : draft'[d] = NoDraft
                             \/ <<draft'[d].attempt, draft'[d].key>> \in Keyed,
         \A s \in Submission : task'[s] = NoTask
                             \/ <<task'[s].attempt, task'[s].key>> \in Keyed
  PROVE  Keyed' \subseteq Keyed
BY DEF Keyed

LEMMA KeysStay ==
  ASSUME KeysIdentifyAttempts, Keyed' \subseteq Keyed, rows' = rows,
         lastAttempt' = lastAttempt
  PROVE  KeysIdentifyAttempts'
BY DEF KeysIdentifyAttempts

\* A draft of an attempt nobody made before may go by any key.
LEMMA NewAttemptKeeps ==
  ASSUME TypeOK, KeysIdentifyAttempts, NEW k, rows' = rows,
         lastAttempt' = lastAttempt + 1,
         Keyed' \subseteq Keyed \cup {<<lastAttempt + 1, k>>}
  PROVE  KeysIdentifyAttempts'
<1>1. lastAttempt \in Nat
  BY ApiConstants DEF TypeOK
<1>2. \A x \in Keyed : x[1] <= lastAttempt /\ x[1] \in Nat
  <2>1. \A r \in rows : r.attempt \in Nat
    BY ApiConstants DEF TypeOK, Row, Attempts
  <2>2. \A d \in Device : draft[d] # NoDraft => draft[d].attempt \in Nat
    BY ApiConstants DEF TypeOK, Draft, Attempts
  <2>3. \A s \in Submission : task[s] # NoTask => task[s].attempt \in Nat
    BY ApiConstants DEF TypeOK, Tasks, Attempts
  <2> QED
    BY <2>1, <2>2, <2>3 DEF KeysIdentifyAttempts, Keyed
<1>3. \A x \in Keyed : x[1] # lastAttempt + 1
  BY <1>1, <1>2
<1>4. \A x, y \in Keyed' : x[1] = y[1] => x[2] = y[2]
  BY <1>3 DEF KeysIdentifyAttempts
<1>5. \A x \in Keyed' : x[1] <= lastAttempt'
  BY <1>1, <1>2
<1> QED
  BY <1>4, <1>5 DEF KeysIdentifyAttempts

LEMMA AnswersStay ==
  ASSUME AnswersAreStored, rows \subseteq rows',
         \A s \in Submission :
           Booked(s)' => /\ Booked(s) /\ task'[s].ref = task[s].ref
                         /\ task'[s].key = task[s].key
                         /\ task'[s].phone = task[s].phone
  PROVE  AnswersAreStored'
BY DEF AnswersAreStored

LEMMA ConfirmationsStay ==
  ASSUME ConfirmedIsStored, rows \subseteq rows',
         \A d \in Device : screen'[d] = NoScreen \/ screen'[d] = screen[d]
  PROVE  ConfirmedIsStored'
BY DEF ConfirmedIsStored

LEMMA CreatorsStay ==
  ASSUME CreatorsAlert, rows' = rows, alerts' = alerts,
         \A s \in Submission :
           Creating(s)' => Creating(s) /\ task'[s].ref = task[s].ref
  PROVE  CreatorsAlert'
BY DEF CreatorsAlert

\* t is what a submission may become without answering anything new.
Follows(t, s) ==
  \/ t = NoTask
  \/ /\ task[s] # NoTask
     /\ t.attempt = task[s].attempt /\ t.key = task[s].key /\ t.phone = task[s].phone
     /\ t.pc \in {"verify", "peek", "mint", "answered"} =>
          /\ Booked(s) /\ t.ref = task[s].ref /\ t.creator = task[s].creator
     /\ t.pc = "answered" <=> task[s].pc = "answered"

\* Steps that store, answer, alert and set out to nothing new.
LEMMA QuietInv ==
  ASSUME IndInv, TypeOK', rows' = rows, alerts' = alerts,
         lastAttempt' = lastAttempt,
         \A s \in Submission : Follows(task'[s], s),
         \A d \in Device : \/ draft'[d] = NoDraft
                           \/ /\ draft[d] # NoDraft
                              /\ draft'[d].attempt = draft[d].attempt
                              /\ draft'[d].key = draft[d].key,
         \A d \in Device : screen'[d] = NoScreen \/ screen'[d] = screen[d]
  PROVE  IndInv'
<1> USE DEF IndInv
<1>1. KeysIdentifyAttempts'
  <2>1. \A d \in Device : draft'[d] = NoDraft
                            \/ <<draft'[d].attempt, draft'[d].key>> \in Keyed
    BY DEF Keyed
  <2>2. \A s \in Submission : task'[s] = NoTask
                            \/ <<task'[s].attempt, task'[s].key>> \in Keyed
    BY DEF Keyed, Follows
  <2>3. \A r \in rows' : <<r.attempt, r.key>> \in Keyed
    BY DEF Keyed
  <2>4. Keyed' \subseteq Keyed
    BY <2>1, <2>2, <2>3, KeyedShrinks
  <2> QED
    BY <2>4, KeysStay
<1>2. \A s \in Submission :
        Booked(s)' => /\ Booked(s) /\ task'[s].ref = task[s].ref
                      /\ task'[s].key = task[s].key /\ task'[s].phone = task[s].phone
  BY DEF Follows, Booked, NoTask
<1>3. \A s \in Submission :
        Creating(s)' => Creating(s) /\ task'[s].ref = task[s].ref
  BY DEF Follows, Booked, Creating, NoTask
<1>4. AnswersAreStored'
  BY <1>2, AnswersStay
<1>5. CreatorsAlert'
  BY <1>3, CreatorsStay
<1>6. ConfirmedIsStored'
  BY ConfirmationsStay
<1> QED
  BY <1>1, <1>4, <1>5, <1>6

-----------------------------------------------------------------------------
(* The booking flow. *)

LEMMA StartInv ==
  ASSUME IndInv, NEW d \in Device, Start(d)
  PROVE  IndInv'
<1> USE DEF IndInv
<1>1. /\ lastAttempt \in Nat /\ lastKey \in Nat
      /\ lastAttempt' = lastAttempt + 1 /\ lastKey' = lastKey + 1
      /\ lastAttempt' \in Attempts
  BY ApiConstants DEF Start, TypeOK, Attempts
<1>2. /\ draft' \in [Device -> Draft \cup {NoDraft}]
      /\ draft'[d].attempt = lastAttempt + 1 /\ draft'[d].key = lastKey + 1
      /\ \A e \in Device \ {d} : draft'[e] = draft[e]
  <2> DEFINE b == [key |-> lastKey', phone |-> OwnPhone[d],
                   attempt |-> lastAttempt', again |-> FALSE]
  <2>1. b \in Draft /\ b.attempt = lastAttempt' /\ b.key = lastKey'
    BY <1>1, ApiConstants DEF Draft
  <2>2. draft' = [draft EXCEPT ![d] = b] /\ draft \in [Device -> Draft \cup {NoDraft}]
    BY DEF Start, TypeOK
  <2> HIDE DEF b
  <2> QED
    BY <1>1, <2>1, <2>2
<1>3. TypeOK'
  BY <1>1, <1>2, ApiConstants DEF Start, TypeOK, dbVars, Attempts
<1>4. Keyed' \subseteq Keyed \cup {<<lastAttempt + 1, lastKey + 1>>}
  BY <1>2 DEF Start, Keyed, dbVars
<1>5. KeysIdentifyAttempts'
  BY <1>1, <1>4, NewAttemptKeeps DEF Start, dbVars
<1>6. AnswersAreStored' /\ CreatorsAlert' /\ ConfirmedIsStored'
  BY DEF Start, dbVars, AnswersAreStored, Booked, CreatorsAlert, Creating, ConfirmedIsStored
<1> QED
  BY <1>3, <1>5, <1>6

\* Not waiting any more, and not listening any more, change no answer.
LEMMA UnblockedFollows ==
  ASSUME TypeOK, NEW d \in Device
  PROVE  /\ Unblocked(d) \in [Submission -> Tasks \cup {NoTask}]
         /\ \A s \in Submission : Follows(Unblocked(d)[s], s)
<1> SUFFICES ASSUME NEW s \in Submission
             PROVE  /\ Unblocked(d)[s] \in Tasks \cup {NoTask}
                    /\ Follows(Unblocked(d)[s], s)
  BY DEF Unblocked
<1>1. CASE Of(s) = d /\ task[s] # NoTask
  BY <1>1 DEF Unblocked, TypeOK, Tasks, Follows, Booked
<1>2. CASE ~(Of(s) = d /\ task[s] # NoTask)
  BY <1>2 DEF Unblocked, TypeOK, Follows, Booked
<1> QED
  BY <1>1, <1>2

LEMMA UnheardFollows ==
  ASSUME TypeOK, NEW d \in Device
  PROVE  /\ Unheard(d) \in [Submission -> Tasks \cup {NoTask}]
         /\ \A s \in Submission : Follows(Unheard(d)[s], s)
<1> SUFFICES ASSUME NEW s \in Submission
             PROVE  /\ Unheard(d)[s] \in Tasks \cup {NoTask}
                    /\ Follows(Unheard(d)[s], s)
  BY DEF Unheard
<1>1. CASE Of(s) # d \/ task[s] = NoTask
  BY <1>1 DEF Unheard, TypeOK, Follows, Booked
<1>2. CASE Of(s) = d /\ task[s] # NoTask /\ task[s].pc = "answered"
  BY <1>2 DEF Unheard, Follows
<1>3. CASE Of(s) = d /\ task[s] # NoTask /\ task[s].pc # "answered"
  BY <1>3 DEF Unheard, TypeOK, Tasks, Follows, Booked
<1> QED
  BY <1>1, <1>2, <1>3

LEMMA SameFollows ==
  ASSUME NEW s \in Submission PROVE Follows(task[s], s)
BY DEF Follows, Booked

LEMMA EditInv ==
  ASSUME IndInv, NEW d \in Device, Edit(d)
  PROVE  IndInv'
<1> USE DEF IndInv
<1>1. /\ draft[d] \in Draft
      /\ lastAttempt' = IF draft[d].again THEN lastAttempt + 1 ELSE lastAttempt
      /\ lastAttempt' \in 0..MaxAttempts
      /\ draft[d].again => lastAttempt' \in Attempts
  BY ApiConstants DEF Edit, TypeOK, Attempts, Draft
<1>2. /\ draft' \in [Device -> Draft \cup {NoDraft}]
      /\ draft'[d].key = draft[d].key
      /\ draft'[d].attempt = IF draft[d].again THEN lastAttempt' ELSE draft[d].attempt
      /\ \A e \in Device \ {d} : draft'[e] = draft[e]
  <2>1. PICK p \in Phone :
          draft' = [draft EXCEPT ![d] =
            [draft[d] EXCEPT !.phone = p, !.again = FALSE,
               !.attempt = IF draft[d].again THEN lastAttempt' ELSE @]]
    BY DEF Edit
  <2> DEFINE b == [draft[d] EXCEPT !.phone = p, !.again = FALSE,
                     !.attempt = IF draft[d].again THEN lastAttempt' ELSE @]
  <2>2. /\ b \in Draft /\ b.key = draft[d].key
        /\ b.attempt = IF draft[d].again THEN lastAttempt' ELSE draft[d].attempt
    BY <1>1 DEF Draft
  <2>3. draft' = [draft EXCEPT ![d] = b] /\ draft \in [Device -> Draft \cup {NoDraft}]
    BY <2>1 DEF TypeOK
  <2> HIDE DEF b
  <2> QED
    BY <2>2, <2>3
<1>3. /\ task' \in [Submission -> Tasks \cup {NoTask}]
      /\ \A s \in Submission : Follows(task'[s], s)
  BY UnblockedFollows, SameFollows DEF Edit, TypeOK
<1>4. rows' = rows /\ alerts' = alerts /\ screen' = screen
  BY DEF Edit, dbVars
<1>5. TypeOK'
  BY <1>1, <1>2, <1>3 DEF Edit, TypeOK, dbVars
<1>6. CASE ~draft[d].again
  BY <1>1, <1>2, <1>3, <1>4, <1>5, <1>6, QuietInv DEF Edit
<1>7. CASE draft[d].again
  <2>1. \A s \in Submission :
          task'[s] = NoTask \/ <<task'[s].attempt, task'[s].key>> \in Keyed
    BY <1>3 DEF Keyed, Follows
  <2>2. Keyed' \subseteq Keyed \cup {<<lastAttempt + 1, draft[d].key>>}
    BY <1>1, <1>2, <1>4, <1>7, <2>1 DEF Keyed
  <2>3. KeysIdentifyAttempts'
    BY <1>1, <1>4, <1>7, <2>2, NewAttemptKeeps
  <2>4. AnswersAreStored'
    BY <1>3, <1>4, AnswersStay DEF Follows, Booked, NoTask
  <2>5. CreatorsAlert'
    BY <1>3, <1>4, CreatorsStay DEF Follows, Booked, Creating, NoTask
  <2>6. ConfirmedIsStored'
    BY <1>4, ConfirmationsStay
  <2> QED
    BY <1>5, <2>3, <2>4, <2>5, <2>6
<1> QED
  BY <1>6, <1>7

\* A recap that comes back keeps its attempt and its key.
LEMMA RecapComesBack ==
  ASSUME TypeOK, NEW d \in Device, Reopens(d) \/ UNCHANGED <<draft, screen>>
  PROVE  /\ draft' \in [Device -> Draft \cup {NoDraft}]
         /\ screen' \in [Device -> Screen \cup {NoScreen}]
         /\ \A e \in Device : \/ draft'[e] = NoDraft
                              \/ /\ draft[e] # NoDraft
                                 /\ draft'[e].attempt = draft[e].attempt
                                 /\ draft'[e].key = draft[e].key
         /\ \A e \in Device : screen'[e] = NoScreen \/ screen'[e] = screen[e]
<1>1. CASE UNCHANGED <<draft, screen>>
  BY <1>1 DEF TypeOK
<1>2. CASE Reopens(d)
  <2> DEFINE b == [draft[d] EXCEPT !.again = @ \/ draft[d].key = screen[d].key]
  <2>1. draft[d] \in Draft /\ draft[d] # NoDraft
    BY <1>2 DEF Reopens, TypeOK
  <2>2. b \in Draft /\ b.attempt = draft[d].attempt /\ b.key = draft[d].key
    BY <2>1 DEF Draft
  <2>3. /\ draft' = [draft EXCEPT ![d] = b]
        /\ screen' = [screen EXCEPT ![d] = NoScreen]
        /\ draft \in [Device -> Draft \cup {NoDraft}]
        /\ screen \in [Device -> Screen \cup {NoScreen}]
    BY <1>2 DEF Reopens, TypeOK
  <2> HIDE DEF b
  <2> QED
    BY <2>1, <2>2, <2>3
<1> QED
  BY <1>1, <1>2

LEMMA ReopenInv ==
  ASSUME IndInv, NEW d \in Device, Reopen(d)
  PROVE  IndInv'
<1> USE DEF IndInv
<1>1. TypeOK'
  BY RecapComesBack DEF Reopen, TypeOK, dbVars
<1>2. rows' = rows /\ alerts' = alerts /\ lastAttempt' = lastAttempt /\ task' = task
  BY DEF Reopen, dbVars
<1>3. \A s \in Submission : Follows(task'[s], s)
  BY <1>2, SameFollows
<1> QED
  BY <1>1, <1>2, <1>3, RecapComesBack, QuietInv DEF Reopen

LEMMA DiscardInv ==
  ASSUME IndInv, NEW d \in Device, Discard(d)
  PROVE  IndInv'
<1> USE DEF IndInv
<1>1. TypeOK'
  BY UnblockedFollows DEF Discard, TypeOK, dbVars
<1>2. rows' = rows /\ alerts' = alerts /\ lastAttempt' = lastAttempt /\ screen' = screen
  BY DEF Discard, dbVars
<1>3. \A s \in Submission : Follows(task'[s], s)
  BY UnblockedFollows DEF Discard
<1>4. \A e \in Device : draft'[e] = NoDraft \/ (draft[e] # NoDraft /\ draft'[e] = draft[e])
  BY DEF Discard, TypeOK
<1> QED
  BY <1>1, <1>2, <1>3, <1>4, QuietInv

LEMMA LeaveInv ==
  ASSUME IndInv, NEW d \in Device, Leave(d)
  PROVE  IndInv'
<1> USE DEF IndInv
<1>1. faults' \in 0..MaxFaults
  BY ApiConstants DEF Leave, Fault, TypeOK
<1>2. TypeOK'
  BY <1>1, UnheardFollows DEF Leave, TypeOK, dbVars, Restored
<1>3. rows' = rows /\ alerts' = alerts /\ lastAttempt' = lastAttempt
  BY DEF Leave, dbVars
<1>4. \A s \in Submission : Follows(task'[s], s)
  BY UnheardFollows DEF Leave
<1>5. \A e \in Device : draft'[e] = NoDraft \/ (draft[e] # NoDraft /\ draft'[e] = draft[e])
  BY DEF Leave, TypeOK, Restored
<1>6. \A e \in Device : screen'[e] = NoScreen \/ screen'[e] = screen[e]
  BY DEF Leave, TypeOK
<1> QED
  BY <1>2, <1>3, <1>4, <1>5, <1>6, QuietInv

\* A submission that waits no more, has failed, or goes on without a booking.
LEMMA TaskFollows ==
  ASSUME IndInv, NEW s \in Submission, NEW t \in Tasks \cup {NoTask}, Follows(t, s),
         task' = [task EXCEPT ![s] = t],
         Reopens(Of(s)) \/ UNCHANGED <<draft, screen>>,
         UNCHANGED <<rows, alerts, held, lastKey, lastAttempt>>,
         tokens' \subseteq Token, lastToken' \in Nat, faults' \in 0..MaxFaults
  PROVE  IndInv'
<1> USE DEF IndInv
<1>1. \A u \in Submission : Follows(task'[u], u)
  BY SameFollows DEF TypeOK
<1>2. TypeOK'
  BY OfIsDevice, RecapComesBack DEF TypeOK
<1> QED
  BY <1>1, <1>2, OfIsDevice, RecapComesBack, QuietInv

LEMMA TimeoutInv ==
  ASSUME IndInv, NEW s \in Submission, Timeout(s)
  PROVE  IndInv'
<1>1. TypeOK /\ Of(s) \in Device
  BY OfIsDevice DEF IndInv
<1>2. /\ Unheard(Of(s))[s] \in Tasks \cup {NoTask}
      /\ Follows(Unheard(Of(s))[s], s)
  BY <1>1, UnheardFollows
<1>3. faults' \in 0..MaxFaults
  BY <1>1, ApiConstants DEF Timeout, Fault, TypeOK
<1>4. Reopens(Of(s)) \/ UNCHANGED <<draft, screen>>
  BY DEF Timeout, Errs
<1> QED
  BY <1>1, <1>2, <1>3, <1>4, TaskFollows DEF Timeout, dbVars, TypeOK

\* A submission that is over, whatever it has brought the device back to.
LEMMA EndsInv ==
  ASSUME IndInv, NEW s \in Submission, Ends(s), Errs(s),
         UNCHANGED <<dbVars, alerts, held, lastKey, lastAttempt>>,
         faults' \in 0..MaxFaults
  PROVE  IndInv'
<1>1. Follows(NoTask, s)
  BY DEF Follows
<1>2. Reopens(Of(s)) \/ UNCHANGED <<draft, screen>>
  BY DEF Errs
<1> QED
  BY <1>1, <1>2, TaskFollows DEF Ends, dbVars, IndInv, TypeOK

\* What is submitted is a draft, with its attempt and its key.
LEMMA SubmitInv ==
  ASSUME IndInv, NEW s \in Submission, Submit(s)
  PROVE  IndInv'
<1> USE DEF IndInv
<1> DEFINE d == Of(s)
           t == [pc |-> "sent", heard |-> TRUE, blocks |-> TRUE, key |-> draft[d].key,
                 phone |-> draft[d].phone, attempt |-> draft[d].attempt,
                 carried |-> held[d], ref |-> 0, creator |-> FALSE,
                 answer |-> NoToken]
<1>1. d \in Device /\ draft[d] \in Draft /\ draft[d] # NoDraft
  BY OfIsDevice DEF Submit, TypeOK
<1>2. /\ t \in Tasks /\ t.attempt = draft[d].attempt /\ t.key = draft[d].key
      /\ t.pc = "sent"
  BY <1>1 DEF TypeOK, Draft, Tasks
<1>3. task' = [task EXCEPT ![s] = t] /\ task \in [Submission -> Tasks \cup {NoTask}]
  BY DEF Submit, TypeOK
<1>4. /\ rows' = rows /\ alerts' = alerts /\ screen' = screen /\ draft' = draft
      /\ lastAttempt' = lastAttempt
  BY DEF Submit, dbVars, deviceVars
<1> HIDE DEF t, d
<1>5. /\ task' \in [Submission -> Tasks \cup {NoTask}]
      /\ task'[s] = t /\ \A u \in Submission \ {s} : task'[u] = task[u]
  BY <1>2, <1>3
<1>6. TypeOK'
  BY <1>5 DEF Submit, TypeOK, dbVars, deviceVars
<1>7. KeysIdentifyAttempts'
  <2>1. <<t.attempt, t.key>> \in Keyed
    BY <1>1, <1>2 DEF Keyed
  <2>2. \A u \in Submission :
          task'[u] = NoTask \/ <<task'[u].attempt, task'[u].key>> \in Keyed
    BY <1>5, <2>1 DEF Keyed
  <2>3. \A e \in Device :
          draft'[e] = NoDraft \/ <<draft'[e].attempt, draft'[e].key>> \in Keyed
    BY <1>4 DEF Keyed
  <2>4. \A r \in rows' : <<r.attempt, r.key>> \in Keyed
    BY <1>4 DEF Keyed
  <2> QED
    BY <1>4, <2>2, <2>3, <2>4, KeyedShrinks, KeysStay
<1>8. AnswersAreStored'
  BY <1>2, <1>4, <1>5, AnswersStay DEF Booked
<1>9. CreatorsAlert'
  BY <1>2, <1>4, <1>5, CreatorsStay DEF Creating
<1>10. ConfirmedIsStored'
  BY <1>4, ConfirmationsStay
<1> QED
  BY <1>6, <1>7, <1>8, <1>9, <1>10

\* What is shown is what the submission was answered with.
LEMMA DeliverInv ==
  ASSUME IndInv, NEW s \in Submission, Deliver(s)
  PROVE  IndInv'
<1> USE DEF IndInv
<1> DEFINE d == Of(s)
           c == [ref |-> task[s].ref, key |-> task[s].key,
                 phone |-> task[s].phone, attempt |-> task[s].attempt]
<1>1. d \in Device /\ task[s] \in Tasks /\ Booked(s)
  BY OfIsDevice, IsTask DEF Deliver, Booked
<1>2. PICK r \in rows : r.ref = task[s].ref /\ r.key = task[s].key /\ r.phone = task[s].phone
  BY <1>1 DEF AnswersAreStored
<1>3. /\ c.ref = r.ref /\ c.key = r.key /\ c.phone = r.phone
      /\ c \in Screen
  <2>1. r \in Row
    BY DEF TypeOK
  <2> QED
    BY <1>1, <1>2, <2>1 DEF Screen, Row, Tasks
<1>4. screen' = [screen EXCEPT ![d] = c] /\ screen \in [Device -> Screen \cup {NoScreen}]
  BY DEF Deliver, TypeOK
<1>5. /\ task' \in [Submission -> Tasks \cup {NoTask}]
      /\ \A u \in Submission : Follows(task'[u], u)
  <2>1. /\ Unblocked(d) \in [Submission -> Tasks \cup {NoTask}]
        /\ \A u \in Submission : Follows(Unblocked(d)[u], u)
    BY <1>1, UnblockedFollows
  <2>2. task' = [Unblocked(d) EXCEPT ![s] = NoTask]
    BY DEF Deliver
  <2>3. Follows(NoTask, s)
    BY DEF Follows
  <2> HIDE DEF d
  <2> QED
    BY <2>1, <2>2, <2>3
<1>6. /\ rows' = rows /\ alerts' = alerts /\ draft' = draft /\ lastAttempt' = lastAttempt
      /\ tokens' = tokens /\ lastKey' = lastKey /\ lastToken' = lastToken
      /\ faults' = faults
  BY DEF Deliver, dbVars
<1>7. held' \in [Device -> Token \cup {NoToken}]
  <2>1. task[s].answer \in Token \cup {NoToken}
    BY <1>1 DEF Tasks
  <2> QED
    BY <2>1 DEF Deliver, TypeOK
<1> HIDE DEF c, d
<1>8. screen' \in [Device -> Screen \cup {NoScreen}]
  BY <1>3, <1>4
<1>9. TypeOK'
  BY <1>5, <1>6, <1>7, <1>8 DEF TypeOK
<1>10. KeysIdentifyAttempts'
  <2>1. \A u \in Submission :
          task'[u] = NoTask \/ <<task'[u].attempt, task'[u].key>> \in Keyed
    BY <1>5 DEF Keyed, Follows
  <2>2. \A e \in Device :
          draft'[e] = NoDraft \/ <<draft'[e].attempt, draft'[e].key>> \in Keyed
    BY <1>6 DEF Keyed
  <2>3. \A q \in rows' : <<q.attempt, q.key>> \in Keyed
    BY <1>6 DEF Keyed
  <2> QED
    BY <1>6, <2>1, <2>2, <2>3, KeyedShrinks, KeysStay
<1>11. AnswersAreStored'
  BY <1>5, <1>6, AnswersStay DEF Follows, Booked, NoTask
<1>12. CreatorsAlert'
  BY <1>5, <1>6, CreatorsStay DEF Follows, Booked, Creating, NoTask
<1>13. ConfirmedIsStored'
  BY <1>3, <1>4, <1>6 DEF ConfirmedIsStored
<1> QED
  BY <1>9, <1>10, <1>11, <1>12, <1>13

-----------------------------------------------------------------------------
(* POST /api/v1/bookings. *)

\* A submission that goes on to another step, with the booking it has or without.
LEMMA GoesInv ==
  ASSUME IndInv, NEW s \in Submission, task[s].pc \in {"sent"} \cup Serving,
         NEW pc \in Serving, pc \in {"fresh", "conflict"} \/ Booked(s), Goes(s, pc),
         UNCHANGED <<dbVars, alerts, deviceVars, faults>>
  PROVE  IndInv'
<1> USE DEF IndInv
<1> DEFINE t == [task[s] EXCEPT !.pc = pc]
<1>1. task[s] \in Tasks /\ task[s] # NoTask
  BY IsTask, TaskIsNotNoTask DEF Serving
<1>2. t \in Tasks
  BY <1>1 DEF Tasks
<1>3. Follows(t, s)
  BY <1>1 DEF Follows, Tasks, Serving, Booked
<1>4. task' = [task EXCEPT ![s] = t]
  BY DEF Goes
<1> HIDE DEF t
<1> QED
  BY <1>2, <1>3, <1>4, TaskFollows DEF dbVars, deviceVars, TypeOK

\* What a submission that has its booking keeps, and what it gets.
LEMMA BooksTask ==
  ASSUME TypeOK, NEW s \in Submission, task[s].pc # "free",
         NEW r \in Row, NEW creator \in BOOLEAN, Books(s, r, creator)
  PROVE  \E t \in Tasks :
           /\ task' = [task EXCEPT ![s] = t]
           /\ t.attempt = task[s].attempt /\ t.key = task[s].key
           /\ t.phone = task[s].phone /\ t.ref = r.ref /\ t.creator = creator
           /\ t.pc \in {"verify", "peek", "mint"}
<1> DEFINE pc == IF task[s].carried = NoToken THEN WithoutToken(creator) ELSE "verify"
           t == [task[s] EXCEPT !.ref = r.ref, !.creator = creator, !.pc = pc]
<1>1. pc \in {"verify", "peek", "mint"}
  BY DEF WithoutToken
<1>2. r.ref \in Nat /\ task[s] \in Tasks
  BY IsTask DEF Row
<1>3. task' = [task EXCEPT ![s] = t]
  <2>1. task' = [task EXCEPT ![s].ref = r.ref, ![s].creator = creator, ![s].pc = pc]
    BY DEF Books
  <2> HIDE DEF pc
  <2> QED
    BY <2>1 DEF TypeOK
<1> HIDE DEF pc
<1>4. /\ t \in Tasks /\ t.attempt = task[s].attempt /\ t.key = task[s].key
      /\ t.phone = task[s].phone /\ t.ref = r.ref /\ t.creator = creator /\ t.pc = pc
  BY <1>1, <1>2 DEF Tasks, Serving
<1> HIDE DEF t
<1> QED
  BY <1>1, <1>3, <1>4

\* A submission gets a row of its own key and phone, and alerts staff of it only
\* when nobody else has or does.
LEMMA BooksInv ==
  ASSUME IndInv, NEW s \in Submission, task[s].pc # "free",
         NEW r \in Row, NEW creator \in BOOLEAN, Books(s, r, creator),
         r \in rows', r.key = task[s].key, r.phone = task[s].phone,
         rows \subseteq rows', rows' \subseteq Row, IsFiniteSet(rows'),
         \A q \in rows' : q.ref <= Cardinality(rows'),
         Cardinality(rows) \in Nat, Cardinality(rows') \in Nat,
         Cardinality(rows) <= Cardinality(rows'),
         creator => r.ref > Cardinality(rows),
         \A q \in rows' : q \in rows \/ (q.attempt = task[s].attempt /\ q.key = task[s].key),
         \A p, q \in rows' : p.key = q.key => p = q,
         UNCHANGED <<tokens, lastToken, alerts, deviceVars, faults>>
  PROVE  IndInv'
<1> USE DEF IndInv
<1>1. PICK t \in Tasks :
        /\ task' = [task EXCEPT ![s] = t]
        /\ t.attempt = task[s].attempt /\ t.key = task[s].key
        /\ t.phone = task[s].phone /\ t.ref = r.ref /\ t.creator = creator
        /\ t.pc \in {"verify", "peek", "mint"}
  BY BooksTask
<1>2. /\ task' \in [Submission -> Tasks \cup {NoTask}]
      /\ task'[s] = t /\ \A u \in Submission \ {s} : task'[u] = task[u]
  BY <1>1 DEF TypeOK
<1>3. /\ alerts' = alerts /\ screen' = screen /\ draft' = draft
      /\ lastAttempt' = lastAttempt
  BY DEF deviceVars
<1>4. TypeOK'
  BY <1>2 DEF TypeOK, deviceVars
<1>5. KeysIdentifyAttempts'
  <2>1. <<task[s].attempt, task[s].key>> \in Keyed
    BY IsTask, TaskIsNotNoTask DEF Keyed
  <2>2. \A u \in Submission :
          task'[u] = NoTask \/ <<task'[u].attempt, task'[u].key>> \in Keyed
    BY <1>1, <1>2, <2>1 DEF Keyed
  <2>3. \A e \in Device :
          draft'[e] = NoDraft \/ <<draft'[e].attempt, draft'[e].key>> \in Keyed
    BY <1>3 DEF Keyed
  <2>4. \A q \in rows' : <<q.attempt, q.key>> \in Keyed
    BY <2>1 DEF Keyed
  <2>5. Keyed' \subseteq Keyed
    BY <2>2, <2>3, <2>4, KeyedShrinks
  <2> QED
    BY <1>3, <2>5 DEF KeysIdentifyAttempts
<1>6. AnswersAreStored'
  BY <1>1, <1>2 DEF AnswersAreStored, Booked
<1>7. CreatorsAlert'
  <2>1. \A a \in alerts' : a \in Nat /\ a <= Cardinality(rows)
    BY <1>3 DEF CreatorsAlert, TypeOK
  <2>2. \A u \in Submission \ {s} : Creating(u)' => Creating(u)
    BY <1>2 DEF Creating
  <2>3. \A u \in Submission : Creating(u) =>
          task[u].ref \in Nat /\ task[u].ref <= Cardinality(rows)
    BY DEF Creating, Booked, AnswersAreStored, CreatorsAlert, TypeOK, Row
  <2>4. r.ref \in Nat
    BY DEF Row
  <2>5. Creating(s)' => creator /\ task'[s].ref = r.ref
    BY <1>1, <1>2 DEF Creating
  <2>6. \A u \in Submission : Creating(u)' => task'[u].ref \notin alerts'
    BY <1>2, <1>3, <2>1, <2>2, <2>4, <2>5 DEF CreatorsAlert
  <2>7. \A u, v \in Submission :
          u # v /\ Creating(u)' /\ Creating(v)' => task'[u].ref # task'[v].ref
    BY <1>2, <2>2, <2>3, <2>4, <2>5 DEF CreatorsAlert
  <2>8. \A a \in alerts' : a <= Cardinality(rows')
    BY <2>1
  <2> QED
    BY <2>6, <2>7, <2>8 DEF CreatorsAlert
<1>8. ConfirmedIsStored'
  BY <1>3, ConfirmationsStay
<1> QED
  BY <1>4, <1>5, <1>6, <1>7, <1>8

\* A replay answers with a row that is there.
LEMMA ReplayInv ==
  ASSUME IndInv, NEW s \in Submission, task[s].pc # "free",
         NEW r \in Found(s), Books(s, r, FALSE),
         UNCHANGED <<dbVars, alerts, deviceVars, faults>>
  PROVE  IndInv'
<1>1. /\ r \in rows /\ r \in Row /\ r.key = task[s].key /\ r.phone = task[s].phone
      /\ rows' = rows /\ rows \subseteq Row
  BY DEF Found, IndInv, TypeOK, dbVars
<1>2. IsFiniteSet(rows) /\ Cardinality(rows) \in Nat
  BY FS_CardinalityType DEF IndInv, CreatorsAlert
<1>3. /\ \A q \in rows : q.ref <= Cardinality(rows)
      /\ \A p, q \in rows : p.key = q.key => p = q
  BY DEF IndInv, CreatorsAlert, KeysIdentifyAttempts
<1>4. UNCHANGED <<tokens, lastToken, alerts, deviceVars, faults>>
  BY DEF dbVars
<1>5. /\ IsFiniteSet(rows') /\ Cardinality(rows') \in Nat
      /\ Cardinality(rows) <= Cardinality(rows')
      /\ \A q \in rows' : q.ref <= Cardinality(rows')
      /\ \A p, q \in rows' : p.key = q.key => p = q
      /\ r \in rows' /\ rows \subseteq rows' /\ rows' \subseteq Row
      /\ \A q \in rows' : q \in rows
  BY <1>1, <1>2, <1>3
<1>6. FALSE \in BOOLEAN /\ (FALSE => r.ref > Cardinality(rows))
  OBVIOUS
<1> QED
  BY <1>1, <1>2, <1>4, <1>5, <1>6, BooksInv

LEMMA LookupInv ==
  ASSUME IndInv, NEW s \in Submission, Lookup(s)
  PROVE  IndInv'
<1>1. task[s].pc = "sent" /\ UNCHANGED <<dbVars, alerts, deviceVars, faults>>
  BY DEF Lookup, At
<1>2. CASE \E r \in Found(s) : Books(s, r, FALSE)
  BY <1>1, <1>2, ReplayInv
<1>3. CASE Goes(s, "fresh")
  BY <1>1, <1>3, GoesInv DEF Serving
<1> QED
  BY <1>2, <1>3 DEF Lookup

LEMMA RejectInv ==
  ASSUME IndInv, NEW s \in Submission, Reject(s)
  PROVE  IndInv'
BY EndsInv DEF Reject, IndInv, TypeOK

\* A new row gets the next reference, and a key that no row has.
LEMMA CreateInv ==
  ASSUME IndInv, NEW s \in Submission, Create(s)
  PROVE  IndInv'
<1> DEFINE row == [ref |-> Cardinality(rows) + 1, key |-> task[s].key,
                   phone |-> task[s].phone, attempt |-> task[s].attempt]
<1>1. /\ task[s].pc = "fresh"
      /\ UNCHANGED <<tokens, lastToken, alerts, deviceVars, faults>>
  BY DEF Create, At
<1>2. CASE KeyTaken(s)
  BY <1>1, <1>2, GoesInv DEF Create, Serving, dbVars
<1>3. CASE ~KeyTaken(s)
  <2>1. Books(s, row, TRUE) /\ rows' = rows \cup {row}
    BY <1>3 DEF Create
  <2>2. /\ IsFiniteSet(rows) /\ Cardinality(rows) \in Nat /\ rows \subseteq Row
        /\ \A q \in rows : q.ref \in Nat /\ q.ref <= Cardinality(rows)
    BY FS_CardinalityType DEF IndInv, CreatorsAlert, TypeOK, Row
  <2>3. task[s] \in Tasks
    BY <1>1, IsTask DEF IndInv
  <2>4. /\ row \in Row /\ row.ref = Cardinality(rows) + 1 /\ row.key = task[s].key
        /\ row.phone = task[s].phone /\ row.attempt = task[s].attempt
    BY <2>2, <2>3 DEF Row, Tasks
  <2>5. \A q \in rows : q.key # task[s].key
    BY <1>3 DEF KeyTaken
  <2> HIDE DEF row
  <2>6. row \notin rows
    BY <2>4, <2>5
  <2>7. IsFiniteSet(rows') /\ Cardinality(rows') = Cardinality(rows) + 1
    BY <2>1, <2>2, <2>6, FS_AddElement
  <2>8. /\ Cardinality(rows') \in Nat /\ Cardinality(rows) <= Cardinality(rows')
        /\ row.ref > Cardinality(rows)
        /\ \A q \in rows' : q.ref <= Cardinality(rows')
    <3> DEFINE n == Cardinality(rows)
               m == Cardinality(rows')
    <3>1. n \in Nat /\ m = n + 1 /\ row.ref = n + 1 /\ \A q \in rows : q.ref \in Nat /\ q.ref <= n
      BY <2>2, <2>4, <2>7
    <3> HIDE DEF n, m
    <3>2. m \in Nat /\ n <= m /\ row.ref > n /\ \A q \in rows' : q.ref <= m
      BY <2>1, <3>1
    <3> QED
      BY <3>2 DEF n, m
  <2>9. \A p, q \in rows' : p.key = q.key => p = q
    <3>1. \A p, q \in rows : p.key = q.key => p = q
      BY DEF IndInv, KeysIdentifyAttempts
    <3> QED
      BY <2>1, <2>4, <2>5, <3>1
  <2>10. /\ row \in rows' /\ rows \subseteq rows' /\ rows' \subseteq Row
         /\ \A q \in rows' :
              q \in rows \/ (q.attempt = task[s].attempt /\ q.key = task[s].key)
    BY <2>1, <2>2, <2>4
  <2>11. task[s].pc # "free" /\ TRUE \in BOOLEAN
    BY <1>1
  <2> QED
    BY <1>1, <2>1, <2>2, <2>4, <2>7, <2>8, <2>9, <2>10, <2>11, BooksInv
<1> QED
  BY <1>2, <1>3

LEMMA LookupAgainInv ==
  ASSUME IndInv, NEW s \in Submission, LookupAgain(s)
  PROVE  IndInv'
<1>1. /\ task[s].pc = "conflict"
      /\ UNCHANGED <<dbVars, alerts, held, lastKey, lastAttempt, faults>>
  BY DEF LookupAgain, At
<1>2. CASE \E r \in Found(s) : Books(s, r, FALSE) /\ UNCHANGED <<draft, screen>>
  BY <1>1, <1>2, ReplayInv DEF deviceVars
<1>3. CASE Ends(s) /\ Errs(s)
  BY <1>1, <1>3, EndsInv DEF IndInv, TypeOK
<1> QED
  BY <1>2, <1>3 DEF LookupAgain

LEMMA FailsInv ==
  ASSUME IndInv, NEW s \in Submission, Fails(s)
  PROVE  IndInv'
<1>1. faults' \in 0..MaxFaults
  BY ApiConstants DEF Fails, Fault, IndInv, TypeOK
<1> QED
  BY <1>1, EndsInv DEF Fails

\* The submission that has responded alerts nobody any more.
LEMMA RespondsInv ==
  ASSUME IndInv, NEW s \in Submission, task[s].pc \in {"verify", "peek", "mint"},
         NEW token \in Token \cup {NoToken}, Responds(s, token),
         UNCHANGED <<rows, deviceVars, faults>>,
         tokens' \subseteq Token, lastToken' \in Nat
  PROVE  IndInv'
<1> USE DEF IndInv
<1>1. task[s] \in Tasks /\ Booked(s)
  BY IsTask DEF Booked
<1>2. PICK t \in Tasks \cup {NoTask} :
        /\ task' = [task EXCEPT ![s] = t]
        /\ t = NoTask \/ (/\ t.pc = "answered" /\ t.attempt = task[s].attempt
                          /\ t.key = task[s].key /\ t.phone = task[s].phone
                          /\ t.ref = task[s].ref)
  <2>1. CASE ~task[s].heard
    BY <2>1 DEF Responds, Ends
  <2>2. CASE task[s].heard
    <3> DEFINE t == [task[s] EXCEPT !.pc = "answered", !.answer = token,
                                    !.carried = NoToken, !.creator = FALSE]
    <3>1. task' = [task EXCEPT ![s] = t]
      BY <2>2 DEF Responds, TypeOK
    <3>2. /\ t \in Tasks /\ t.pc = "answered" /\ t.attempt = task[s].attempt
          /\ t.key = task[s].key /\ t.phone = task[s].phone /\ t.ref = task[s].ref
      BY <1>1 DEF Tasks
    <3> HIDE DEF t
    <3> QED
      BY <3>1, <3>2
  <2> QED
    BY <2>1, <2>2
<1>3. /\ task' \in [Submission -> Tasks \cup {NoTask}]
      /\ task'[s] = t /\ \A u \in Submission \ {s} : task'[u] = task[u]
  BY <1>2 DEF TypeOK
<1>4. /\ rows' = rows /\ screen' = screen /\ draft' = draft
      /\ lastAttempt' = lastAttempt /\ alerts' = alerts \cup AlertsOf(s)
  BY DEF deviceVars, Responds
<1>5. task[s].ref \in Nat /\ task[s].ref <= Cardinality(rows)
  BY <1>1 DEF AnswersAreStored, CreatorsAlert, Tasks
<1>6. TypeOK'
  BY <1>3, <1>4, <1>5 DEF TypeOK, deviceVars, AlertsOf
<1>7. KeysIdentifyAttempts'
  <2>1. \A u \in Submission :
          task'[u] = NoTask \/ <<task'[u].attempt, task'[u].key>> \in Keyed
    BY <1>1, <1>2, <1>3, TaskIsNotNoTask DEF Keyed
  <2>2. \A e \in Device :
          draft'[e] = NoDraft \/ <<draft'[e].attempt, draft'[e].key>> \in Keyed
    BY <1>4 DEF Keyed
  <2>3. \A q \in rows' : <<q.attempt, q.key>> \in Keyed
    BY <1>4 DEF Keyed
  <2> QED
    BY <1>4, <2>1, <2>2, <2>3, KeyedShrinks, KeysStay
<1>8. AnswersAreStored'
  BY <1>1, <1>2, <1>3, <1>4, AnswersStay DEF Booked, NoTask
<1>9. CreatorsAlert'
  <2>1. \A a \in alerts' : a <= Cardinality(rows')
    BY <1>4, <1>5 DEF CreatorsAlert, AlertsOf
  <2>2. \A u \in Submission : Creating(u)' => u # s /\ Creating(u) /\ task'[u] = task[u]
    BY <1>2, <1>3 DEF Creating, NoTask
  <2>3. \A u \in Submission : Creating(u)' => task'[u].ref \notin AlertsOf(s)
    BY <2>2 DEF AlertsOf, CreatorsAlert, Creating
  <2>4. \A u \in Submission : Creating(u)' => task'[u].ref \notin alerts'
    BY <1>4, <2>2, <2>3 DEF CreatorsAlert
  <2>5. \A u, v \in Submission :
          u # v /\ Creating(u)' /\ Creating(v)' => task'[u].ref # task'[v].ref
    BY <2>2 DEF CreatorsAlert
  <2> QED
    BY <1>4, <2>1, <2>4, <2>5 DEF CreatorsAlert
<1>10. ConfirmedIsStored'
  BY <1>4, ConfirmationsStay
<1> QED
  BY <1>6, <1>7, <1>8, <1>9, <1>10

LEMMA VerifyInv ==
  ASSUME IndInv, NEW s \in Submission, Verify(s)
  PROVE  IndInv'
<1> DEFINE good == task[s].carried \in tokens /\ task[s].carried.phone = task[s].phone
<1>1. /\ task[s].pc = "verify" /\ task[s] \in Tasks /\ task[s] # NoTask /\ Booked(s)
      /\ UNCHANGED <<dbVars, deviceVars, faults>>
  BY IsTask, TaskIsNotNoTask DEF Verify, At, Booked, IndInv
<1>2. tokens' \subseteq Token /\ lastToken' \in Nat /\ tokens \subseteq Token
  BY <1>1 DEF dbVars, IndInv, TypeOK
<1>3. CASE good
  <2>1. Responds(s, task[s].carried) /\ task[s].carried \in Token \cup {NoToken}
    BY <1>2, <1>3 DEF Verify
  <2> QED
    BY <1>1, <1>2, <2>1, RespondsInv DEF dbVars
<1>4. CASE ~good
  <2> DEFINE pc == WithoutToken(task[s].creator)
             t == [task[s] EXCEPT !.pc = pc, !.carried = NoToken]
  <2>1. pc \in {"peek", "mint"}
    BY DEF WithoutToken
  <2>2. task' = [task EXCEPT ![s].pc = pc, ![s].carried = NoToken] /\ alerts' = alerts
    BY <1>4 DEF Verify
  <2> HIDE DEF pc
  <2>3. task' = [task EXCEPT ![s] = t]
    BY <2>2 DEF IndInv, TypeOK
  <2>4. t \in Tasks
    BY <1>1, <2>1 DEF Tasks, Serving
  <2>5. Follows(t, s)
    BY <1>1, <2>1 DEF Follows, Tasks, Serving
  <2> HIDE DEF t
  <2>6. /\ UNCHANGED <<rows, alerts, held, lastKey, lastAttempt>>
        /\ UNCHANGED <<draft, screen>> /\ faults' \in 0..MaxFaults
    BY <1>1, <2>2 DEF dbVars, deviceVars, IndInv, TypeOK
  <2> QED
    BY <1>2, <2>3, <2>4, <2>5, <2>6, TaskFollows
<1> QED
  BY <1>3, <1>4

LEMMA PeekInv ==
  ASSUME IndInv, NEW s \in Submission, Peek(s)
  PROVE  IndInv'
<1>1. task[s].pc = "peek" /\ Booked(s) /\ UNCHANGED <<dbVars, deviceVars, faults>>
  BY DEF Peek, At, Booked
<1>2. tokens' \subseteq Token /\ lastToken' \in Nat
  BY <1>1 DEF dbVars, IndInv, TypeOK
<1>3. CASE HasToken(task[s].phone)
  BY <1>1, <1>2, <1>3, RespondsInv DEF Peek, dbVars
<1>4. CASE ~HasToken(task[s].phone)
  BY <1>1, <1>4, GoesInv DEF Peek, Serving
<1> QED
  BY <1>3, <1>4

LEMMA MintInv ==
  ASSUME IndInv, NEW s \in Submission, Mint(s)
  PROVE  IndInv'
<1>1. task[s].pc = "mint" /\ task[s] \in Tasks /\ UNCHANGED <<rows, deviceVars, faults>>
  BY IsTask DEF Mint, At, IndInv
<1>2. NewToken(task[s].phone) \in Token
  BY <1>1 DEF NewToken, Token, Tasks, IndInv, TypeOK
<1>3. tokens' \subseteq Token /\ lastToken' \in Nat
  BY <1>2 DEF Mint, IndInv, TypeOK
<1> QED
  BY <1>1, <1>2, <1>3, RespondsInv DEF Mint

-----------------------------------------------------------------------------

LEMMA NextInv ==
  ASSUME IndInv, [Next]_vars
  PROVE  IndInv'
<1>1. ASSUME NEW d \in Device, Customer(d) PROVE IndInv'
  BY <1>1, StartInv, EditInv, ReopenInv, DiscardInv, LeaveInv DEF Customer
<1>2. ASSUME NEW s \in Submission, Served(s) PROVE IndInv'
  BY <1>2, LookupInv, RejectInv, CreateInv, LookupAgainInv, VerifyInv, PeekInv, MintInv
     DEF Served
<1>3. ASSUME NEW s \in Submission, Submit(s) \/ Deliver(s) \/ Timeout(s) \/ Fails(s)
      PROVE  IndInv'
  BY <1>3, SubmitInv, DeliverInv, TimeoutInv, FailsInv
<1>4. CASE UNCHANGED vars
  <2>1. UNCHANGED <<rows, tokens, lastToken, alerts, draft, screen, held, lastKey,
                    lastAttempt, task, faults>>
    BY <1>4 DEF vars, dbVars, deviceVars
  <2>2. \A s \in Submission : Follows(task'[s], s)
    BY <2>1, SameFollows
  <2>3. TypeOK'
    BY <2>1 DEF IndInv, TypeOK
  <2> QED
    BY <2>1, <2>2, <2>3, QuietInv
<1> QED
  BY <1>1, <1>2, <1>3, <1>4 DEF Next

LEMMA InitInv ==
  ASSUME Init PROVE IndInv
<1>1. TypeOK
  BY ApiConstants DEF Init, TypeOK
<1>2. Keyed = {}
  BY DEF Init, Keyed
<1>3. KeysIdentifyAttempts
  BY <1>2 DEF Init, KeysIdentifyAttempts
<1>4. \A s \in Submission : ~Booked(s) /\ ~Creating(s)
  BY DEF Init, Booked, Creating, NoTask
<1>5. IsFiniteSet(rows)
  BY FS_EmptySet DEF Init
<1>6. AnswersAreStored /\ CreatorsAlert /\ ConfirmedIsStored
  BY <1>4, <1>5 DEF Init, AnswersAreStored, CreatorsAlert, ConfirmedIsStored
<1> QED
  BY <1>1, <1>3, <1>6 DEF IndInv

\* The invariant of every step that the theorems below rest on.
THEOREM InductiveInvariant == Spec => []IndInv
<1>1. Init => IndInv
  BY InitInv
<1>2. IndInv /\ [Next]_vars => IndInv'
  BY NextInv
<1> QED
  BY <1>1, <1>2, PTL DEF Spec

\* Every variable keeps its type, for any number of devices, of overlapping
\* submissions, server processes and faults.
THEOREM TypeCorrect == Spec => []TypeOK
<1>1. IndInv => TypeOK
  BY DEF IndInv
<1> QED
  BY <1>1, InductiveInvariant, PTL

\* A booking that is submitted again and again, by any number of overlapping
\* processes and after any faults, is stored once (client_request_id).
THEOREM OneBookingPerAttempt == Spec => []OneRowPerAttempt
<1>1. IndInv => OneRowPerAttempt
  <2> SUFFICES ASSUME IndInv, NEW q \in rows, NEW r \in rows, q.attempt = r.attempt
               PROVE  q = r
    BY DEF OneRowPerAttempt
  <2>1. <<q.attempt, q.key>> \in Keyed /\ <<r.attempt, r.key>> \in Keyed
    BY DEF Keyed
  <2>2. q.key = r.key
    BY <2>1 DEF IndInv, KeysIdentifyAttempts
  <2> QED
    BY <2>2 DEF IndInv, KeysIdentifyAttempts
<1> QED
  BY <1>1, InductiveInvariant, PTL

\* What a device confirms to its customer is stored, with the phone and the key
\* that were submitted: the replay lookup compares both.
THEOREM NobodyElsesBooking == Spec => []ConfirmedIsStored
<1>1. IndInv => ConfirmedIsStored
  BY DEF IndInv
<1> QED
  BY <1>1, InductiveInvariant, PTL

\* Whatever is replayed, the staff are alerted of a booking at most once.
THEOREM StaffAlertedOnce == Spec => AlertedOnce
<1>1. IndInv => \A s \in Submission :
                  (Verify(s) \/ Peek(s) \/ Mint(s)) => AlertsOf(s) \cap alerts = {}
  <2> SUFFICES ASSUME IndInv, NEW s \in Submission, Verify(s) \/ Peek(s) \/ Mint(s)
               PROVE  AlertsOf(s) \cap alerts = {}
    OBVIOUS
  <2>1. task[s].pc \in {"verify", "peek", "mint"}
    BY DEF Verify, Peek, Mint, At
  <2>2. CASE task[s].creator
    BY <2>1, <2>2 DEF AlertsOf, Creating, IndInv, CreatorsAlert
  <2>3. CASE ~task[s].creator
    BY <2>3 DEF AlertsOf
  <2> QED
    BY <2>2, <2>3
<1> QED
  BY <1>1, InductiveInvariant, PTL DEF AlertedOnce

-----------------------------------------------------------------------------
(* How many tokens a phone has. *)

\* t is what a submission may become without being served anew or setting out
\* to mint.
MintsNoMore(t, s) ==
  t.pc \in Serving =>
    /\ task[s].pc \in Serving /\ t.phone = task[s].phone
    /\ t.pc = "mint" \/ (t.pc \in {"verify", "peek", "mint"} /\ t.creator) =>
         At(s, "mint") \/ Creating(s)

LEMMA FreeMintsNothing ==
  ASSUME NEW s \in Submission PROVE MintsNoMore(NoTask, s) /\ MintsNoMore(task[s], s)
BY DEF MintsNoMore, NoTask, Serving, At, Creating

LEMMA MintingFinite ==
  ASSUME IsFiniteSet(ServedNow), NEW p
  PROVE  /\ IsFiniteSet(Minting(p)) /\ Cardinality(Minting(p)) \in Nat
         /\ Cardinality(Minting(p)) <= Cardinality(ServedNow)
         /\ Cardinality(ServedNow) \in Nat
<1>1. Minting(p) \in SUBSET ServedNow
  BY DEF Minting
<1> QED
  BY <1>1, FS_Subset, FS_CardinalityType

LEMMA CountsAreNat ==
  ASSUME IndInv, IsFiniteSet(tokens), NEW p
  PROVE  /\ IsFiniteSet(TokensOf(p)) /\ Cardinality(TokensOf(p)) \in Nat
         /\ IsFiniteSet(RowsOf(p)) /\ Cardinality(RowsOf(p)) \in Nat
<1>1. TokensOf(p) \in SUBSET tokens /\ RowsOf(p) \in SUBSET rows /\ IsFiniteSet(rows)
  BY DEF TokensOf, RowsOf, IndInv, CreatorsAlert
<1> QED
  BY <1>1, FS_Subset, FS_CardinalityType

\* Steps that neither store, nor mint, nor set out to.
LEMMA QuietMints ==
  ASSUME IndInv, MintsAreCounted, tokens' = tokens, rows' = rows,
         \A s \in Submission : MintsNoMore(task'[s], s)
  PROVE  MintsAreCounted'
<1>1. ServedNow' \in SUBSET ServedNow
  BY DEF ServedNow, MintsNoMore
<1>2. IsFiniteSet(ServedNow) /\ Cardinality(ServedNow) \in Nat /\ Cardinality(ServedNow) <= Servers
  BY FS_CardinalityType DEF MintsAreCounted
<1>3. /\ IsFiniteSet(ServedNow') /\ Cardinality(ServedNow') \in Nat
      /\ Cardinality(ServedNow') <= Cardinality(ServedNow)
  BY <1>1, <1>2, FS_Subset, FS_CardinalityType
<1>4. ASSUME NEW p \in Phone
      PROVE  Cardinality(TokensOf(p)') + Cardinality(Minting(p)')
               <= Cardinality(RowsOf(p)') + Servers - 1
  <2>1. Minting(p)' \in SUBSET Minting(p)
    BY DEF Minting, ServedNow, MintsNoMore, At, Creating
  <2>2. IsFiniteSet(Minting(p)) /\ Cardinality(Minting(p)) \in Nat
    BY <1>2, MintingFinite
  <2>3. Cardinality(Minting(p)') <= Cardinality(Minting(p)) /\ Cardinality(Minting(p)') \in Nat
    BY <2>1, <2>2, FS_Subset, FS_CardinalityType
  <2>4. TokensOf(p)' = TokensOf(p) /\ RowsOf(p)' = RowsOf(p)
    BY DEF TokensOf, RowsOf
  <2>5. Cardinality(TokensOf(p)) + Cardinality(Minting(p)) <= Cardinality(RowsOf(p)) + Servers - 1
    BY DEF MintsAreCounted
  <2>6. Cardinality(TokensOf(p)) \in Nat /\ Cardinality(RowsOf(p)) \in Nat /\ Servers \in Nat
    BY ApiConstants, CountsAreNat DEF MintsAreCounted
  <2> QED
    BY <2>2, <2>3, <2>4, <2>5, <2>6
<1>5. Cardinality(ServedNow') <= Servers
  BY <1>2, <1>3, ApiConstants
<1> QED
  BY <1>3, <1>4, <1>5 DEF MintsAreCounted

\* A device's steps change nothing a submission is served with.
LEMMA DeviceMints ==
  ASSUME IndInv, MintsAreCounted, NEW d \in Device, Customer(d)
  PROVE  MintsAreCounted'
<1>1. tokens' = tokens /\ rows' = rows
  BY DEF Customer, Start, Edit, Reopen, Discard, Leave, dbVars
<1>2. task' = task \/ task' = Unblocked(d) \/ task' = Unheard(d)
  BY DEF Customer, Start, Edit, Reopen, Discard, Leave
<1>3. ASSUME NEW s \in Submission, NEW t, t = Unblocked(d)[s] \/ t = Unheard(d)[s]
      PROVE  MintsNoMore(t, s)
  <2>1. CASE t = task[s] \/ t = NoTask
    BY <2>1, FreeMintsNothing
  <2>2. CASE t # task[s] /\ t # NoTask
    <3>1. task[s] \in Tasks
      BY <1>3, <2>2 DEF IndInv, TypeOK, Unblocked, Unheard
    <3>2. \/ t = [task[s] EXCEPT !.blocks = FALSE]
          \/ t = [task[s] EXCEPT !.heard = FALSE, !.blocks = FALSE]
      BY <1>3, <2>2 DEF Unblocked, Unheard
    <3>3. t.pc = task[s].pc /\ t.phone = task[s].phone /\ t.creator = task[s].creator
      BY <3>1, <3>2 DEF Tasks
    <3> QED
      BY <3>3 DEF MintsNoMore, At, Creating
  <2> QED
    BY <2>1, <2>2
<1>4. \A s \in Submission : MintsNoMore(task'[s], s)
  BY <1>2, <1>3, FreeMintsNothing
<1> QED
  BY <1>1, <1>4, QuietMints

\* One submission changes.
LEMMA OneMints ==
  ASSUME IndInv, MintsAreCounted, NEW s \in Submission, NEW t,
         task' = [task EXCEPT ![s] = t], MintsNoMore(t, s), tokens' = tokens, rows' = rows
  PROVE  MintsAreCounted'
<1>1. \A u \in Submission : task'[u] = task[u] \/ (u = s /\ task'[u] = t)
  BY DEF IndInv, TypeOK
<1> QED
  BY <1>1, FreeMintsNothing, QuietMints

LEMMA SubmitMints ==
  ASSUME IndInv, MintsAreCounted, NEW s \in Submission, Submit(s)
  PROVE  MintsAreCounted'
<1> DEFINE d == Of(s)
           t == [pc |-> "sent", heard |-> TRUE, blocks |-> TRUE, key |-> draft[d].key,
                 phone |-> draft[d].phone, attempt |-> draft[d].attempt,
                 carried |-> held[d], ref |-> 0, creator |-> FALSE,
                 answer |-> NoToken]
<1>1. task' = [task EXCEPT ![s] = t] /\ tokens' = tokens /\ rows' = rows
  BY DEF Submit, dbVars
<1>2. t.pc = "sent"
  OBVIOUS
<1> HIDE DEF t
<1>3. MintsNoMore(t, s)
  BY <1>2 DEF MintsNoMore, Serving
<1> QED
  BY <1>1, <1>3, OneMints

LEMMA EndsMints ==
  ASSUME IndInv, MintsAreCounted, NEW s \in Submission, Ends(s), tokens' = tokens, rows' = rows
  PROVE  MintsAreCounted'
BY OneMints, FreeMintsNothing DEF Ends

LEMMA DeliverMints ==
  ASSUME IndInv, MintsAreCounted, NEW s \in Submission, Deliver(s)
  PROVE  MintsAreCounted'
<1>1. tokens' = tokens /\ rows' = rows /\ task' = [Unblocked(Of(s)) EXCEPT ![s] = NoTask]
  BY DEF Deliver, dbVars
<1>2. ASSUME NEW u \in Submission PROVE MintsNoMore(task'[u], u)
  <2>1. task'[u] = NoTask \/ task'[u] = Unblocked(Of(s))[u]
    BY <1>1 DEF Unblocked
  <2>2. CASE task'[u] = NoTask \/ task'[u] = task[u]
    BY <2>2, FreeMintsNothing
  <2>3. CASE task'[u] # NoTask /\ task'[u] # task[u]
    <3>1. task[u] \in Tasks
      BY <2>1, <2>3 DEF IndInv, TypeOK, Unblocked
    <3>2. task'[u] = [task[u] EXCEPT !.blocks = FALSE]
      BY <2>1, <2>3 DEF Unblocked
    <3>3. /\ task'[u].pc = task[u].pc /\ task'[u].phone = task[u].phone
          /\ task'[u].creator = task[u].creator
      BY <3>1, <3>2 DEF Tasks
    <3> QED
      BY <3>3 DEF MintsNoMore, At, Creating
  <2> QED
    BY <2>2, <2>3
<1> QED
  BY <1>1, <1>2, QuietMints

LEMMA TimeoutMints ==
  ASSUME IndInv, MintsAreCounted, NEW s \in Submission, Timeout(s)
  PROVE  MintsAreCounted'
<1> DEFINE t == Unheard(Of(s))[s]
<1>1. task' = [task EXCEPT ![s] = t] /\ tokens' = tokens /\ rows' = rows /\ task[s] \in Tasks
  BY DEF Timeout, dbVars, IndInv, TypeOK
<1>2. t = NoTask \/ t = [task[s] EXCEPT !.heard = FALSE, !.blocks = FALSE]
  BY DEF Timeout, Unheard
<1> HIDE DEF t
<1>3. t = NoTask \/ (t.pc = task[s].pc /\ t.phone = task[s].phone /\ t.creator = task[s].creator)
  BY <1>1, <1>2 DEF Tasks
<1>4. MintsNoMore(t, s)
  BY <1>3, FreeMintsNothing DEF MintsNoMore, At, Creating
<1> QED
  BY <1>1, <1>4, OneMints

\* A submission that is served already goes on, without a booking of its own to
\* go to another step for, or to look for the token of a replay.
LEMMA GoesOnMints ==
  ASSUME IndInv, MintsAreCounted, NEW s \in Submission, task[s].pc \in Serving,
         NEW t \in Tasks, task' = [task EXCEPT ![s] = t], t.phone = task[s].phone,
         t.pc \in {"fresh", "conflict"} \/ (t.pc \in {"verify", "peek"} /\ ~t.creator),
         tokens' = tokens, rows' = rows
  PROVE  MintsAreCounted'
<1>1. MintsNoMore(t, s)
  BY DEF MintsNoMore
<1> QED
  BY <1>1, OneMints

\* What a replay becomes.
LEMMA ReplayTask ==
  ASSUME IndInv, NEW s \in Submission, task[s].pc # "free", NEW r \in Found(s), Books(s, r, FALSE)
  PROVE  \E t \in Tasks : /\ task' = [task EXCEPT ![s] = t] /\ t.phone = task[s].phone
                          /\ t.pc \in {"verify", "peek"} /\ t.creator = FALSE
<1> DEFINE pc == IF task[s].carried = NoToken THEN WithoutToken(FALSE) ELSE "verify"
           t == [task[s] EXCEPT !.ref = r.ref, !.creator = FALSE, !.pc = pc]
<1>1. pc \in {"verify", "peek"}
  BY DEF WithoutToken
<1>2. r \in Row /\ r.ref \in Nat /\ task[s] \in Tasks
  BY IsTask DEF Row, Found, IndInv, TypeOK
<1>3. task' = [task EXCEPT ![s] = t]
  <2>1. task' = [task EXCEPT ![s].ref = r.ref, ![s].creator = FALSE, ![s].pc = pc]
    BY DEF Books
  <2> HIDE DEF pc
  <2> QED
    BY <2>1 DEF IndInv, TypeOK
<1> HIDE DEF pc
<1>4. t \in Tasks /\ t.phone = task[s].phone /\ t.creator = FALSE /\ t.pc = pc
  BY <1>1, <1>2 DEF Tasks, Serving
<1> HIDE DEF t
<1> QED
  BY <1>1, <1>3, <1>4

\* The lookup that starts the serving waits for a process that is free.
LEMMA LookupMints ==
  ASSUME IndInv, MintsAreCounted, NEW s \in Submission, Lookup(s)
  PROVE  MintsAreCounted'
<1>1. /\ task[s].pc = "sent" /\ tokens' = tokens /\ rows' = rows
      /\ Cardinality(ServedNow) < Servers
  BY DEF Lookup, At, dbVars, ServedNow
<1>2. PICK t \in Tasks : /\ task' = [task EXCEPT ![s] = t]
                         /\ \/ t.pc \in {"verify", "peek"} /\ t.creator = FALSE
                            \/ t.pc = "fresh"
  <2>1. CASE \E r \in Found(s) : Books(s, r, FALSE)
    BY <1>1, <2>1, ReplayTask
  <2>2. CASE Goes(s, "fresh")
    <3> DEFINE t == [task[s] EXCEPT !.pc = "fresh"]
    <3>1. task[s] \in Tasks
      BY <1>1, IsTask DEF IndInv
    <3>2. t \in Tasks /\ t.pc = "fresh"
      BY <3>1 DEF Tasks, Serving
    <3>3. task' = [task EXCEPT ![s] = t]
      BY <2>2 DEF Goes
    <3> HIDE DEF t
    <3> QED
      BY <3>2, <3>3
  <2> QED
    BY <2>1, <2>2 DEF Lookup
<1>3. task'[s] = t /\ \A u \in Submission \ {s} : task'[u] = task[u]
  BY <1>2 DEF IndInv, TypeOK
<1>4. ServedNow' \in SUBSET (ServedNow \cup {s}) /\ s \notin ServedNow
  BY <1>1, <1>3 DEF ServedNow, Serving
<1>5. IsFiniteSet(ServedNow) /\ Cardinality(ServedNow) \in Nat
  BY FS_CardinalityType DEF MintsAreCounted
<1>6. IsFiniteSet(ServedNow \cup {s}) /\ Cardinality(ServedNow \cup {s}) = Cardinality(ServedNow) + 1
  BY <1>4, <1>5, FS_AddElement
<1>7. /\ IsFiniteSet(ServedNow') /\ Cardinality(ServedNow') \in Nat
      /\ Cardinality(ServedNow') <= Cardinality(ServedNow) + 1
  BY <1>4, <1>6, FS_Subset, FS_CardinalityType
<1>8. Cardinality(ServedNow') <= Servers
  BY <1>1, <1>5, <1>7, ApiConstants
<1>9. ASSUME NEW p \in Phone
      PROVE  Cardinality(TokensOf(p)') + Cardinality(Minting(p)')
               <= Cardinality(RowsOf(p)') + Servers - 1
  <2>1. Minting(p)' \in SUBSET Minting(p)
    BY <1>2, <1>3 DEF Minting, ServedNow, At, Creating
  <2>2. IsFiniteSet(Minting(p)) /\ Cardinality(Minting(p)) \in Nat
    BY <1>5, MintingFinite
  <2>3. Cardinality(Minting(p)') <= Cardinality(Minting(p)) /\ Cardinality(Minting(p)') \in Nat
    BY <2>1, <2>2, FS_Subset, FS_CardinalityType
  <2>4. TokensOf(p)' = TokensOf(p) /\ RowsOf(p)' = RowsOf(p)
    BY <1>1 DEF TokensOf, RowsOf
  <2>5. Cardinality(TokensOf(p)) + Cardinality(Minting(p)) <= Cardinality(RowsOf(p)) + Servers - 1
    BY DEF MintsAreCounted
  <2>6. Cardinality(TokensOf(p)) \in Nat /\ Cardinality(RowsOf(p)) \in Nat /\ Servers \in Nat
    BY ApiConstants, CountsAreNat DEF MintsAreCounted
  <2> QED
    BY <2>2, <2>3, <2>4, <2>5, <2>6
<1>10. IsFiniteSet(tokens')
  BY <1>1 DEF MintsAreCounted
<1> QED
  BY <1>7, <1>8, <1>9, <1>10 DEF MintsAreCounted

\* A new row is what its creator's token is counted against.
LEMMA CreateMints ==
  ASSUME IndInv, MintsAreCounted, NEW s \in Submission, Create(s)
  PROVE  MintsAreCounted'
<1> DEFINE row == [ref |-> Cardinality(rows) + 1, key |-> task[s].key,
                   phone |-> task[s].phone, attempt |-> task[s].attempt]
<1>1. task[s].pc = "fresh" /\ task[s] \in Tasks /\ tokens' = tokens
  BY IsTask DEF Create, At, IndInv
<1>2. CASE KeyTaken(s)
  <2> DEFINE t == [task[s] EXCEPT !.pc = "conflict"]
  <2>1. t \in Tasks /\ t.pc = "conflict" /\ t.phone = task[s].phone
    BY <1>1 DEF Tasks, Serving
  <2>2. task' = [task EXCEPT ![s] = t] /\ rows' = rows
    BY <1>2 DEF Create, Goes
  <2> HIDE DEF t
  <2> QED
    BY <1>1, <2>1, <2>2, GoesOnMints DEF Serving
<1>3. CASE ~KeyTaken(s)
  <2>1. Books(s, row, TRUE) /\ rows' = rows \cup {row}
    BY <1>3 DEF Create
  <2>2. /\ IsFiniteSet(rows) /\ Cardinality(rows) \in Nat /\ \A q \in rows : q.key # task[s].key
    BY <1>3, FS_CardinalityType DEF IndInv, CreatorsAlert, KeyTaken
  <2>3. row \in Row /\ row.phone = task[s].phone /\ row.key = task[s].key
    BY <1>1, <2>2 DEF Row, Tasks
  <2> HIDE DEF row
  <2>4. PICK t \in Tasks : task' = [task EXCEPT ![s] = t] /\ t.phone = task[s].phone
    BY <1>1, <2>1, <2>3, BooksTask DEF IndInv
  <2>5. task'[s] = t /\ \A u \in Submission \ {s} : task'[u] = task[u]
    BY <2>4 DEF IndInv, TypeOK
  <2>6. ServedNow' \in SUBSET ServedNow /\ s \in ServedNow
    BY <1>1, <2>5 DEF ServedNow, Serving
  <2>7. IsFiniteSet(ServedNow) /\ Cardinality(ServedNow) \in Nat /\ Cardinality(ServedNow) <= Servers
    BY FS_CardinalityType DEF MintsAreCounted
  <2>8. /\ IsFiniteSet(ServedNow') /\ Cardinality(ServedNow') \in Nat
        /\ Cardinality(ServedNow') <= Servers
    BY <2>6, <2>7, FS_Subset, FS_CardinalityType, ApiConstants
  <2>9. ASSUME NEW p \in Phone
        PROVE  Cardinality(TokensOf(p)') + Cardinality(Minting(p)')
                 <= Cardinality(RowsOf(p)') + Servers - 1
    <3>1. TokensOf(p)' = TokensOf(p)
      BY <1>1 DEF TokensOf
    <3>2. Cardinality(TokensOf(p)) + Cardinality(Minting(p)) <= Cardinality(RowsOf(p)) + Servers - 1
      BY DEF MintsAreCounted
    <3>3. /\ Cardinality(TokensOf(p)) \in Nat /\ Cardinality(RowsOf(p)) \in Nat /\ Servers \in Nat
          /\ IsFiniteSet(RowsOf(p))
      BY ApiConstants, CountsAreNat DEF MintsAreCounted
    <3>4. IsFiniteSet(Minting(p)) /\ Cardinality(Minting(p)) \in Nat
      BY <2>7, MintingFinite
    <3>5. CASE p = task[s].phone
      <4>1. RowsOf(p)' = RowsOf(p) \cup {row} /\ row \notin RowsOf(p)
        BY <2>1, <2>2, <2>3, <3>5 DEF RowsOf
      <4>2. Cardinality(RowsOf(p)') = Cardinality(RowsOf(p)) + 1
        BY <3>3, <4>1, FS_AddElement
      <4>3. Minting(p)' \in SUBSET (Minting(p) \cup {s})
        BY <2>5 DEF Minting, ServedNow, At, Creating
      <4>4. /\ IsFiniteSet(Minting(p) \cup {s})
            /\ Cardinality(Minting(p) \cup {s}) <= Cardinality(Minting(p)) + 1
            /\ Cardinality(Minting(p) \cup {s}) \in Nat
        <5>1. /\ IsFiniteSet(Minting(p) \cup {s})
              /\ Cardinality(Minting(p) \cup {s})
                   = IF s \in Minting(p) THEN Cardinality(Minting(p)) ELSE Cardinality(Minting(p)) + 1
          BY <3>4, FS_AddElement
        <5> QED
          BY <3>4, <5>1
      <4>5. Cardinality(Minting(p)') <= Cardinality(Minting(p)) + 1 /\ Cardinality(Minting(p)') \in Nat
        <5>1. /\ Cardinality(Minting(p)') <= Cardinality(Minting(p) \cup {s})
              /\ Cardinality(Minting(p)') \in Nat
          BY <4>3, <4>4, FS_Subset, FS_CardinalityType
        <5> QED
          BY <3>4, <4>4, <5>1
      <4> QED
        BY <3>1, <3>2, <3>3, <3>4, <4>2, <4>5
    <3>6. CASE p # task[s].phone
      <4>1. RowsOf(p)' = RowsOf(p)
        BY <2>1, <2>3, <3>6 DEF RowsOf
      <4>2. Minting(p)' \in SUBSET Minting(p)
        BY <2>4, <2>5, <3>6 DEF Minting, ServedNow, At, Creating
      <4>3. Cardinality(Minting(p)') <= Cardinality(Minting(p)) /\ Cardinality(Minting(p)') \in Nat
        BY <3>4, <4>2, FS_Subset, FS_CardinalityType
      <4> QED
        BY <3>1, <3>2, <3>3, <3>4, <4>1, <4>3
    <3> QED
      BY <3>5, <3>6
  <2>10. IsFiniteSet(tokens')
    BY <1>1 DEF MintsAreCounted
  <2> QED
    BY <2>8, <2>9, <2>10 DEF MintsAreCounted
<1> QED
  BY <1>2, <1>3

LEMMA LookupAgainMints ==
  ASSUME IndInv, MintsAreCounted, NEW s \in Submission, LookupAgain(s)
  PROVE  MintsAreCounted'
<1>1. task[s].pc = "conflict" /\ tokens' = tokens /\ rows' = rows
  BY DEF LookupAgain, At, dbVars
<1>2. CASE \E r \in Found(s) : Books(s, r, FALSE)
  <2>1. PICK t \in Tasks : /\ task' = [task EXCEPT ![s] = t] /\ t.phone = task[s].phone
                           /\ t.pc \in {"verify", "peek"} /\ t.creator = FALSE
    BY <1>1, <1>2, ReplayTask
  <2> QED
    BY <1>1, <2>1, GoesOnMints DEF Serving
<1>3. CASE Ends(s)
  BY <1>1, <1>3, EndsMints
<1> QED
  BY <1>2, <1>3 DEF LookupAgain

\* A submission that has responded is not served any more.
LEMMA RespondedTask ==
  ASSUME IndInv, NEW s \in Submission, task[s].pc \in Serving, NEW token, Responds(s, token)
  PROVE  \E t : task' = [task EXCEPT ![s] = t] /\ t.pc \notin Serving
<1>1. CASE Ends(s)
  <2>1. task' = [task EXCEPT ![s] = NoTask]
    BY <1>1 DEF Ends
  <2>2. NoTask.pc \notin Serving
    BY DEF NoTask, Serving
  <2> QED
    BY <2>1, <2>2
<1>2. CASE task' = [task EXCEPT ![s].pc = "answered", ![s].answer = token,
                                ![s].carried = NoToken, ![s].creator = FALSE]
  <2> DEFINE t == [task[s] EXCEPT !.pc = "answered", !.answer = token,
                                  !.carried = NoToken, !.creator = FALSE]
  <2>1. task[s] \in Tasks
    BY IsTask DEF IndInv, Serving
  <2>2. t.pc = "answered"
    BY <2>1 DEF Tasks
  <2>3. task' = [task EXCEPT ![s] = t]
    BY <1>2 DEF IndInv, TypeOK
  <2> HIDE DEF t
  <2> QED
    BY <2>2, <2>3 DEF Serving
<1> QED
  BY <1>1, <1>2 DEF Responds

LEMMA VerifyMints ==
  ASSUME IndInv, MintsAreCounted, NEW s \in Submission, Verify(s)
  PROVE  MintsAreCounted'
<1> DEFINE good == task[s].carried \in tokens /\ task[s].carried.phone = task[s].phone
<1>1. task[s].pc = "verify" /\ task[s] \in Tasks /\ tokens' = tokens /\ rows' = rows
  BY IsTask DEF Verify, At, IndInv, dbVars
<1>2. CASE good
  <2>1. PICK t : task' = [task EXCEPT ![s] = t] /\ t.pc \notin Serving
    BY <1>1, <1>2, RespondedTask DEF Verify, Serving
  <2>2. MintsNoMore(t, s)
    BY <2>1 DEF MintsNoMore
  <2> QED
    BY <1>1, <2>1, <2>2, OneMints
<1>3. CASE ~good
  <2> DEFINE pc == WithoutToken(task[s].creator)
             t == [task[s] EXCEPT !.pc = pc, !.carried = NoToken]
  <2>1. task' = [task EXCEPT ![s].pc = pc, ![s].carried = NoToken]
    BY <1>3 DEF Verify
  <2>2. pc = (IF task[s].creator THEN "mint" ELSE "peek")
    BY DEF WithoutToken
  <2> HIDE DEF pc
  <2>3. task' = [task EXCEPT ![s] = t]
    BY <2>1 DEF IndInv, TypeOK
  <2>4. t.pc = pc /\ t.phone = task[s].phone /\ t.creator = task[s].creator
    BY <1>1 DEF Tasks
  <2> HIDE DEF t
  <2>5. MintsNoMore(t, s)
    BY <1>1, <2>2, <2>4 DEF MintsNoMore, Creating, Serving
  <2> QED
    BY <1>1, <2>3, <2>5, OneMints
<1> QED
  BY <1>2, <1>3

\* A replay sets out to mint when its phone has no token: then only submissions
\* that are served now are going to mint for it, and the phone has a booking.
LEMMA PeekMints ==
  ASSUME IndInv, MintsAreCounted, NEW s \in Submission, Peek(s)
  PROVE  MintsAreCounted'
<1> DEFINE q == task[s].phone
<1>1. task[s].pc = "peek" /\ task[s] \in Tasks /\ tokens' = tokens /\ rows' = rows
  BY IsTask DEF Peek, At, IndInv, dbVars
<1>2. CASE HasToken(q)
  <2>1. PICK t : task' = [task EXCEPT ![s] = t] /\ t.pc \notin Serving
    BY <1>1, <1>2, RespondedTask DEF Peek, Serving
  <2>2. MintsNoMore(t, s)
    BY <2>1 DEF MintsNoMore
  <2> QED
    BY <1>1, <2>1, <2>2, OneMints
<1>3. CASE ~HasToken(q)
  <2> DEFINE t == [task[s] EXCEPT !.pc = "mint"]
  <2>1. task' = [task EXCEPT ![s] = t]
    BY <1>3 DEF Peek, Goes
  <2>2. t.pc = "mint" /\ t.phone = q /\ t.creator = task[s].creator
    BY <1>1 DEF Tasks
  <2> HIDE DEF t
  <2>3. task'[s] = t /\ \A u \in Submission \ {s} : task'[u] = task[u]
    BY <2>1 DEF IndInv, TypeOK
  <2>4. ServedNow' = ServedNow
    BY <1>1, <2>2, <2>3 DEF ServedNow, Serving
  <2>5. IsFiniteSet(ServedNow) /\ Cardinality(ServedNow) \in Nat /\ Cardinality(ServedNow) <= Servers
    BY FS_CardinalityType DEF MintsAreCounted
  <2>6. ASSUME NEW p \in Phone
        PROVE  Cardinality(TokensOf(p)') + Cardinality(Minting(p)')
                 <= Cardinality(RowsOf(p)') + Servers - 1
    <3>1. TokensOf(p)' = TokensOf(p) /\ RowsOf(p)' = RowsOf(p)
      BY <1>1 DEF TokensOf, RowsOf
    <3>2. Cardinality(TokensOf(p)) + Cardinality(Minting(p)) <= Cardinality(RowsOf(p)) + Servers - 1
      BY DEF MintsAreCounted
    <3>3. /\ Cardinality(TokensOf(p)) \in Nat /\ Cardinality(RowsOf(p)) \in Nat /\ Servers \in Nat
          /\ IsFiniteSet(RowsOf(p))
      BY ApiConstants, CountsAreNat DEF MintsAreCounted
    <3>4. IsFiniteSet(Minting(p)) /\ Cardinality(Minting(p)) \in Nat
      BY <2>5, MintingFinite
    <3>5. CASE p = q
      <4>1. TokensOf(p) = {}
        BY <1>3, <3>5 DEF HasToken, TokensOf
      <4>2. Cardinality(TokensOf(p)) = 0
        BY <4>1, FS_EmptySet
      <4>3. RowsOf(p) # {}
        BY <1>1, <3>5 DEF RowsOf, IndInv, AnswersAreStored, Booked
      <4>4. Cardinality(RowsOf(p)) # 0
        BY <3>3, <4>3, FS_EmptySet
      <4>5. Minting(p)' \in SUBSET ServedNow
        BY <2>4 DEF Minting
      <4>6. Cardinality(Minting(p)') <= Cardinality(ServedNow) /\ Cardinality(Minting(p)') \in Nat
        BY <2>5, <4>5, FS_Subset, FS_CardinalityType
      <4> QED
        BY <2>5, <3>1, <3>3, <4>2, <4>4, <4>6
    <3>6. CASE p # q
      <4>1. Minting(p)' \in SUBSET Minting(p)
        BY <2>2, <2>3, <3>6 DEF Minting, ServedNow, At, Creating
      <4>2. Cardinality(Minting(p)') <= Cardinality(Minting(p)) /\ Cardinality(Minting(p)') \in Nat
        BY <3>4, <4>1, FS_Subset, FS_CardinalityType
      <4> QED
        BY <3>1, <3>2, <3>3, <3>4, <4>2
    <3> QED
      BY <3>5, <3>6
  <2>7. IsFiniteSet(tokens') /\ IsFiniteSet(ServedNow') /\ Cardinality(ServedNow') <= Servers
    BY <1>1, <2>4, <2>5 DEF MintsAreCounted
  <2> QED
    BY <2>6, <2>7 DEF MintsAreCounted
<1> QED
  BY <1>2, <1>3

\* The token that is minted was counted.
LEMMA MintMints ==
  ASSUME IndInv, MintsAreCounted, NEW s \in Submission, Mint(s)
  PROVE  MintsAreCounted'
<1> DEFINE q == task[s].phone
           token == NewToken(task[s].phone)
<1>1. /\ task[s].pc = "mint" /\ task[s] \in Tasks /\ rows' = rows
      /\ tokens' = tokens \cup {token} /\ token.phone = q
  BY IsTask DEF Mint, At, IndInv, NewToken
<1>2. PICK t : task' = [task EXCEPT ![s] = t] /\ t.pc \notin Serving
  BY <1>1, RespondedTask DEF Mint, Serving
<1> HIDE DEF token
<1>3. task'[s] = t /\ \A u \in Submission \ {s} : task'[u] = task[u]
  BY <1>2 DEF IndInv, TypeOK
<1>4. ServedNow' \in SUBSET ServedNow /\ s \in ServedNow
  BY <1>1, <1>2, <1>3 DEF ServedNow, Serving
<1>5. IsFiniteSet(ServedNow) /\ Cardinality(ServedNow) \in Nat /\ Cardinality(ServedNow) <= Servers
  BY FS_CardinalityType DEF MintsAreCounted
<1>6. /\ IsFiniteSet(ServedNow') /\ Cardinality(ServedNow') \in Nat
      /\ Cardinality(ServedNow') <= Servers
  BY <1>4, <1>5, FS_Subset, FS_CardinalityType, ApiConstants
<1>7. ASSUME NEW p \in Phone
      PROVE  Cardinality(TokensOf(p)') + Cardinality(Minting(p)')
               <= Cardinality(RowsOf(p)') + Servers - 1
  <2>1. RowsOf(p)' = RowsOf(p)
    BY <1>1 DEF RowsOf
  <2>2. Cardinality(TokensOf(p)) + Cardinality(Minting(p)) <= Cardinality(RowsOf(p)) + Servers - 1
    BY DEF MintsAreCounted
  <2>3. /\ Cardinality(TokensOf(p)) \in Nat /\ Cardinality(RowsOf(p)) \in Nat /\ Servers \in Nat
        /\ IsFiniteSet(TokensOf(p))
    BY ApiConstants, CountsAreNat DEF MintsAreCounted
  <2>4. IsFiniteSet(Minting(p)) /\ Cardinality(Minting(p)) \in Nat
    BY <1>5, MintingFinite
  <2>5. CASE p = q
    <3>1. TokensOf(p)' = TokensOf(p) \cup {token}
      BY <1>1, <2>5 DEF TokensOf
    <3>2. /\ Cardinality(TokensOf(p)') \in Nat
          /\ Cardinality(TokensOf(p)') <= Cardinality(TokensOf(p)) + 1
      <4>1. Cardinality(TokensOf(p) \cup {token})
              = IF token \in TokensOf(p) THEN Cardinality(TokensOf(p)) ELSE Cardinality(TokensOf(p)) + 1
        BY <2>3, FS_AddElement
      <4> QED
        BY <2>3, <3>1, <4>1
    <3>3. s \in Minting(p)
      BY <1>1, <1>4, <2>5 DEF Minting, At
    <3>4. Minting(p)' \in SUBSET (Minting(p) \ {s})
      BY <1>2, <1>3 DEF Minting, ServedNow, At, Creating
    <3>5. /\ IsFiniteSet(Minting(p) \ {s})
          /\ Cardinality(Minting(p) \ {s}) = Cardinality(Minting(p)) - 1
      BY <2>4, <3>3, FS_RemoveElement
    <3>6. /\ Cardinality(Minting(p)') <= Cardinality(Minting(p)) - 1
          /\ Cardinality(Minting(p)') \in Nat
      BY <3>4, <3>5, FS_Subset, FS_CardinalityType
    <3> QED
      BY <2>1, <2>2, <2>3, <2>4, <3>2, <3>6
  <2>6. CASE p # q
    <3>1. TokensOf(p)' = TokensOf(p)
      BY <1>1, <2>6 DEF TokensOf
    <3>2. Minting(p)' \in SUBSET Minting(p)
      BY <1>2, <1>3 DEF Minting, ServedNow, At, Creating
    <3>3. Cardinality(Minting(p)') <= Cardinality(Minting(p)) /\ Cardinality(Minting(p)') \in Nat
      BY <2>4, <3>2, FS_Subset, FS_CardinalityType
    <3> QED
      BY <2>1, <2>2, <2>3, <2>4, <3>1, <3>3
  <2> QED
    BY <2>5, <2>6
<1>8. IsFiniteSet(tokens')
  BY <1>1, FS_AddElement DEF MintsAreCounted
<1> QED
  BY <1>6, <1>7, <1>8 DEF MintsAreCounted

\* A phone has at most a token per booking, and one less than processes overlap
\* ("don't mint on every replay").
THEOREM ReplaysMintFew == Spec => []TokensStayFew
<1>1. Init => MintsAreCounted
  <2> SUFFICES ASSUME Init PROVE MintsAreCounted
    OBVIOUS
  <2>1. tokens = {} /\ rows = {} /\ ServedNow = {}
    BY DEF Init, ServedNow, NoTask, Serving
  <2>2. \A p \in Phone : TokensOf(p) = {} /\ RowsOf(p) = {} /\ Minting(p) = {}
    BY <2>1 DEF TokensOf, RowsOf, Minting
  <2>3. IsFiniteSet({}) /\ Cardinality({}) = 0
    BY FS_EmptySet
  <2>4. Servers \in Nat /\ 0 <= Servers /\ 0 + 0 <= 0 + Servers - 1
    BY ApiConstants
  <2>5. \A p \in Phone : /\ Cardinality(TokensOf(p)) = 0 /\ Cardinality(RowsOf(p)) = 0
                         /\ Cardinality(Minting(p)) = 0
    BY <2>2, <2>3
  <2>6. /\ IsFiniteSet(tokens) /\ IsFiniteSet(ServedNow)
        /\ Cardinality(ServedNow) <= Servers
    BY <2>1, <2>3, <2>4
  <2>7. \A p \in Phone : Cardinality(TokensOf(p)) + Cardinality(Minting(p))
                           <= Cardinality(RowsOf(p)) + Servers - 1
    BY <2>4, <2>5
  <2> QED
    BY <2>6, <2>7 DEF MintsAreCounted
<1>2. IndInv /\ MintsAreCounted /\ [Next]_vars => MintsAreCounted'
  <2> SUFFICES ASSUME IndInv, MintsAreCounted, [Next]_vars PROVE MintsAreCounted'
    OBVIOUS
  <2>1. ASSUME NEW s \in Submission, Served(s) PROVE MintsAreCounted'
    <3>1. CASE Reject(s)
      BY <3>1, EndsMints DEF Reject, dbVars
    <3> QED
      BY <2>1, <3>1, LookupMints, CreateMints, LookupAgainMints, VerifyMints, PeekMints, MintMints
         DEF Served
  <2>2. ASSUME NEW s \in Submission, Fails(s) PROVE MintsAreCounted'
    BY <2>2, EndsMints DEF Fails, dbVars
  <2>3. CASE UNCHANGED vars
    <3>1. tokens' = tokens /\ rows' = rows /\ task' = task
      BY <2>3 DEF vars, dbVars
    <3> QED
      BY <3>1, FreeMintsNothing, QuietMints
  <2> QED
    BY <2>1, <2>2, <2>3, DeviceMints, SubmitMints, DeliverMints, TimeoutMints DEF Next
<1>3. IndInv /\ MintsAreCounted => TokensStayFew
  <2> SUFFICES ASSUME IndInv, MintsAreCounted, NEW p \in Phone
               PROVE  Cardinality(TokensOf(p)) <= Cardinality(RowsOf(p)) + Servers - 1
    BY DEF TokensStayFew, TokensOf, RowsOf
  <2>1. /\ Cardinality(TokensOf(p)) \in Nat /\ Cardinality(RowsOf(p)) \in Nat
        /\ Cardinality(Minting(p)) \in Nat /\ Servers \in Nat
    BY ApiConstants, CountsAreNat, MintingFinite DEF MintsAreCounted
  <2> QED
    BY <2>1 DEF MintsAreCounted
<1> QED
  BY <1>1, <1>2, <1>3, InductiveInvariant, PTL DEF Spec
=============================================================================
