--------------------------- MODULE Reminders_proofs ---------------------------
(***************************************************************************)
(* What Reminders guarantees for every set of bookings and dispatchers and *)
(* every value of the rule's limits.  The argument: a claim in hand is     *)
(* younger than the lease (ClaimsAreFresh), so no second dispatcher can    *)
(* claim its row (SingleSender), so every message is paid for by its own   *)
(* counted attempt (DeliveriesPaidFor).                                    *)
(***************************************************************************)
EXTENDS Reminders, TLAPS

\* What the constants give every proof below.
LEMMA ConstantFacts ==
  /\ MaxAge \in Nat /\ Lease \in Nat /\ Lease <= MaxAge
  /\ SendTimeout \in Nat /\ SendTimeout < Lease
  /\ MaxSends \in Nat /\ NoJob \notin Booking
  /\ StaffStatuses \in [Booking -> SUBSET BookingStatuses]
  /\ Lead \in [Booking -> Nat]
BY ReminderConstants, LeaseOutlivesCall DEF MaxAge, NoJob

\* A row that a dispatcher holds is not eligible for another claim.
LEMMA HeldIsNotEligible ==
  ASSUME TypeOK, ClaimsAreFresh, NEW d \in Dispatcher, InFlight(d)
  PROVE  ~Eligible(job[d])
<1>1. job[d] \in Booking /\ held[d] \in 0..SendTimeout
  BY DEF TypeOK
<1>2. age[job[d]] = held[d] /\ row[job[d]] # "failed"
  BY DEF ClaimsAreFresh
<1>3. ~LeaseOver(job[d])
  BY <1>1, <1>2, ConstantFacts DEF LeaseOver, Never
<1> QED
  BY <1>2, <1>3 DEF Eligible

LEMMA InitInv == Init => IndInv
<1> SUFFICES ASSUME Init PROVE IndInv
  OBVIOUS
<1> USE ConstantFacts DEF Init
<1>1. TypeOK
  <2>1. NoTx \in Txs
    BY DEF NoTx, Txs, BookingStatuses
  <2> QED
    BY <2>1 DEF TypeOK, BookingStatuses, RowStatuses, Pcs, Never, InFlight,
                InFlightPcs
<1>2. ClaimsAreFresh /\ AnswersAreReal /\ SingleSender
  BY DEF ClaimsAreFresh, AnswersAreReal, SingleSender, InFlight, InFlightPcs
<1>3. DeliveriesPaidFor
  BY DEF DeliveriesPaidFor
<1>4. SentWasDelivered /\ TransactionsAreOfRows
  BY DEF SentWasDelivered, TransactionsAreOfRows, NoTx
<1>5. AtMostOneLateMessage
  BY DEF AtMostOneLateMessage, FinalStatuses
<1> QED
  BY <1>1, <1>2, <1>3, <1>4, <1>5 DEF IndInv

\* A step that leaves the bookings alone and puts no dispatcher before a call
\* keeps the count of late messages.
LEMMA LateKept ==
  ASSUME IndInv, UNCHANGED <<status, late>>,
         \A e \in Dispatcher :
           pc'[e] \in {"claimed", "sending"}
             => pc[e] \in {"claimed", "sending"} /\ job'[e] = job[e]
  PROVE  AtMostOneLateMessage'
<1> SUFFICES ASSUME NEW b \in Booking
             PROVE  (IF status[b] \in FinalStatuses
                     THEN late[b] + (IF \E e \in Dispatcher :
                            job[e] = b /\ pc[e] \in {"claimed", "sending"}
                          THEN 1 ELSE 0) <= 1
                     ELSE late[b] = 0)'
  BY DEF AtMostOneLateMessage
<1>1. late[b] \in Nat
  BY DEF IndInv, TypeOK
<1>2. (\E e \in Dispatcher :
         job'[e] = b /\ pc'[e] \in {"claimed", "sending"})
        => \E e \in Dispatcher : job[e] = b /\ pc[e] \in {"claimed", "sending"}
  OBVIOUS
<1> QED
  BY <1>1, <1>2 DEF IndInv, AtMostOneLateMessage

\* A row never goes back to being absent, so transactions keep their row.
LEMMA TransactionsKept ==
  ASSUME IndInv, UNCHANGED tx,
         \A b \in Booking : row[b] # "absent" => row'[b] # "absent"
  PROVE  TransactionsAreOfRows'
<1>1. \A c \in Clerk : tx[c].booking \in Booking \/ tx[c] = NoTx
  BY DEF IndInv, TypeOK, Txs, TransactionsAreOfRows
<1>2. NoTx.pending = "unread"
  BY DEF NoTx
<1> QED
  BY <1>1, <1>2 DEF IndInv, TransactionsAreOfRows
-----------------------------------------------------------------------------
(* Staff steps: they touch status, row and the open transactions only. *)

LEMMA ConfirmInv ==
  ASSUME IndInv, NEW b \in Booking, Confirm(b)
  PROVE  IndInv'
<1> USE DEF IndInv, Confirm, history
<1>1. TypeOK'
  BY DEF TypeOK, BookingStatuses, RowStatuses, InFlight
<1>2. \A c \in Booking : row'[c] = row[c] \/ (row[c] = "absent" /\ row'[c] = "pending")
  BY DEF TypeOK
<1>3. ClaimsAreFresh' /\ AnswersAreReal'
  BY <1>2 DEF ClaimsAreFresh, AnswersAreReal, InFlight, TypeOK
<1>4. SingleSender' /\ DeliveriesPaidFor'
  BY DEF SingleSender, DeliveriesPaidFor, InFlight
<1>5. SentWasDelivered'
  BY <1>2 DEF SentWasDelivered, TypeOK
<1>6. TransactionsAreOfRows'
  BY <1>2, TransactionsKept
<1>7. AtMostOneLateMessage'
  BY DEF AtMostOneLateMessage, TypeOK, FinalStatuses
<1> QED
  BY <1>1, <1>3, <1>4, <1>5, <1>6, <1>7

LEMMA TransitionReadsInv ==
  ASSUME IndInv, NEW c \in Clerk,
         \/ \E b \in Booking : \E s \in StaffStatuses[b] : TransitionBegins(c, b, s)
         \/ ReadsReminders(c) \/ TransitionRollsBack(c)
  PROVE  IndInv'
<1> USE DEF IndInv, history, dbVars
<1>1. /\ UNCHANGED <<status, row, attempts, age, wait, pc, job, seen, held,
                     accepted, late>>
      /\ \E t \in Txs :
           /\ tx' = [tx EXCEPT ![c] = t]
           /\ t.booking = NoJob => t = NoTx
           /\ t.pending = "yes" => row[t.booking] # "absent"
  <2>1. CASE TransitionRollsBack(c)
    <3>1. NoTx \in Txs /\ NoTx.pending = "unread"
      BY DEF NoTx, Txs, BookingStatuses
    <3> QED
      BY <2>1, <3>1 DEF TransitionRollsBack
  <2>2. CASE ReadsReminders(c)
    <3> DEFINE t == [tx[c] EXCEPT !.pending =
                       IF row[tx[c].booking] = "pending" THEN "yes" ELSE "no"]
    <3>1. tx[c] \in Txs /\ tx[c].booking # NoJob
      BY <2>2 DEF ReadsReminders, TypeOK, TransactionsAreOfRows
    <3>2. t \in Txs /\ t.booking # NoJob
      BY <3>1 DEF Txs
    <3>3. t.pending = "yes" => row[t.booking] # "absent"
      BY <3>1 DEF Txs
    <3>4. tx' = [tx EXCEPT ![c] = t]
      BY <2>2 DEF ReadsReminders
    <3> HIDE DEF t
    <3> QED
      BY <2>2, <3>2, <3>3, <3>4 DEF ReadsReminders
  <2>3. ASSUME NEW b \in Booking, NEW s \in StaffStatuses[b],
               TransitionBegins(c, b, s)
        PROVE  /\ UNCHANGED <<status, row, attempts, age, wait, pc, job, seen,
                              held, accepted, late>>
               /\ \E t \in Txs :
                    /\ tx' = [tx EXCEPT ![c] = t]
                    /\ t.booking = NoJob => t = NoTx
                    /\ t.pending = "yes" => row[t.booking] # "absent"
    <3>1. s \in BookingStatuses /\ b # NoJob
      BY ConstantFacts
    <3> DEFINE t == [booking |-> b, to |-> s,
                     pending |-> IF s \in FinalStatuses THEN "unread" ELSE "no"]
    <3>2. t \in Txs /\ t.booking # NoJob /\ t.pending # "yes"
      BY <3>1 DEF Txs
    <3>3. tx' = [tx EXCEPT ![c] = t]
      BY <2>3 DEF TransitionBegins
    <3> HIDE DEF t
    <3> QED
      BY <2>3, <3>2, <3>3 DEF TransitionBegins
  <2> QED
    BY <2>1, <2>2, <2>3
<1>2. TypeOK'
  BY <1>1 DEF TypeOK, InFlight
<1>3. TransactionsAreOfRows'
  BY <1>1 DEF TransactionsAreOfRows, TypeOK
<1>4. ClaimsAreFresh' /\ AnswersAreReal' /\ SingleSender' /\ DeliveriesPaidFor'
  BY <1>1 DEF ClaimsAreFresh, AnswersAreReal, SingleSender, DeliveriesPaidFor,
              InFlight
<1>5. SentWasDelivered' /\ AtMostOneLateMessage'
  BY <1>1 DEF SentWasDelivered, AtMostOneLateMessage
<1> QED
  BY <1>2, <1>3, <1>4, <1>5

LEMMA TransitionCommitsInv ==
  ASSUME IndInv, NEW c \in Clerk, TransitionCommits(c)
  PROVE  IndInv'
<1> USE DEF IndInv
<1> DEFINE b == tx[c].booking
           s == tx[c].to
<1>1. /\ b \in Booking /\ s \in BookingStatuses
      /\ row[b] # "absent" \/ tx[c].pending # "yes"
  BY DEF TransitionCommits, TypeOK, Txs, TransactionsAreOfRows
<1>2. /\ status' = [status EXCEPT ![b] = s]
      /\ row' = row \/ (row[b] # "absent" /\ row' = [row EXCEPT ![b] = "cancelled"])
      /\ late' = IF s \in FinalStatuses THEN late ELSE [late EXCEPT ![b] = 0]
      /\ tx' = [tx EXCEPT ![c] = NoTx]
      /\ UNCHANGED <<attempts, age, wait, pc, job, seen, held, accepted>>
  BY <1>1 DEF TransitionCommits
<1> HIDE DEF b, s
<1>3. TypeOK'
  <2>1. NoTx \in Txs
    BY DEF NoTx, Txs, BookingStatuses
  <2>2. tx' \in [Clerk -> Txs]
    BY <1>2, <2>1 DEF TypeOK
  <2>3. late' \in [Booking -> Nat]
    BY <1>1, <1>2 DEF TypeOK
  <2> QED
    BY <1>1, <1>2, <2>2, <2>3 DEF TypeOK, RowStatuses, InFlight
<1>4. \A a \in Booking : row'[a] = row[a] \/ (row[a] # "absent" /\ row'[a] = "cancelled")
  BY <1>1, <1>2 DEF TypeOK
<1>5. ClaimsAreFresh' /\ AnswersAreReal'
  BY <1>2, <1>4 DEF ClaimsAreFresh, AnswersAreReal, InFlight, TypeOK
<1>6. SingleSender' /\ DeliveriesPaidFor'
  BY <1>2 DEF SingleSender, DeliveriesPaidFor, InFlight
<1>7. SentWasDelivered'
  BY <1>2, <1>4 DEF SentWasDelivered
<1>8. TransactionsAreOfRows'
  <2>1. NoTx.pending = "unread"
    BY DEF NoTx
  <2>2. \A e \in Clerk : tx[e].booking \in Booking \/ tx[e] = NoTx
    BY DEF TypeOK, Txs, TransactionsAreOfRows
  <2>3. \A e \in Clerk : tx'[e] = tx[e] \/ tx'[e] = NoTx
    BY <1>2 DEF TypeOK
  <2> QED
    BY <1>4, <2>1, <2>2, <2>3 DEF TransactionsAreOfRows
<1>9. AtMostOneLateMessage'
  <2> SUFFICES ASSUME NEW a \in Booking
               PROVE  (IF status[a] \in FinalStatuses
                       THEN late[a] + (IF \E e \in Dispatcher :
                              job[e] = a /\ pc[e] \in {"claimed", "sending"}
                            THEN 1 ELSE 0) <= 1
                       ELSE late[a] = 0)'
    BY DEF AtMostOneLateMessage
  <2>1. late[a] \in Nat /\ late[a] <= 1
    BY DEF TypeOK, AtMostOneLateMessage
  <2>2. CASE a # b
    BY <2>1, <2>2, <1>1, <1>2 DEF AtMostOneLateMessage, TypeOK
  <2>3. CASE a = b /\ s \in FinalStatuses
    <3>1. status'[a] = s /\ late' = late
      BY <2>3, <1>1, <1>2 DEF TypeOK
    <3>2. CASE status[a] \in FinalStatuses
      BY <2>3, <3>1, <3>2, <1>2 DEF AtMostOneLateMessage
    <3>3. CASE status[a] \notin FinalStatuses
      BY <2>3, <3>1, <3>3, <1>2 DEF AtMostOneLateMessage
    <3> QED
      BY <3>2, <3>3
  <2>4. CASE a = b /\ s \notin FinalStatuses
    BY <2>4, <1>1, <1>2 DEF TypeOK
  <2> QED
    BY <2>2, <2>3, <2>4
<1> QED
  BY <1>3, <1>5, <1>6, <1>7, <1>8, <1>9

-----------------------------------------------------------------------------
(* Steps between two transactions of one sweep: row, age and attempts stay. *)

LEMMA SweepInv ==
  ASSUME IndInv, NEW d \in Dispatcher,
         StartSweep(d) \/ BatchDone(d) \/ ClaimRaises(d)
  PROVE  IndInv'
<1> USE DEF IndInv, StartSweep, BatchDone, ClaimRaises, dbVars, history
<1>1. TypeOK'
  BY DEF TypeOK, Pcs, InFlight, InFlightPcs
<1>2. \A e \in Dispatcher : pc'[e] = pc[e] \/ (e = d /\ pc'[e] \in {"idle", "sweeping"})
  BY DEF TypeOK
<1>3. ClaimsAreFresh' /\ AnswersAreReal' /\ SingleSender'
  BY <1>2 DEF ClaimsAreFresh, AnswersAreReal, SingleSender, InFlight,
              InFlightPcs
<1>4. DeliveriesPaidFor'
  BY <1>2 DEF DeliveriesPaidFor, TypeOK
<1>5. SentWasDelivered' /\ TransactionsAreOfRows'
  BY TransactionsKept DEF SentWasDelivered
<1>6. AtMostOneLateMessage'
  BY <1>2, LateKept
<1> QED
  BY <1>1, <1>3, <1>4, <1>5, <1>6

\* The rows a claim fails on its way are eligible and exhausted, hence pending
\* and out of every dispatcher's hands.
LEMMA WornOutIsPending ==
  ASSUME TypeOK, NEW d \in Dispatcher, NEW walked \in [Booking -> BOOLEAN],
         NEW c \in WornOut(d, walked)
  PROVE  c \in Booking /\ row[c] = "pending" /\ Eligible(c)
<1>1. c \in Booking /\ Eligible(c) /\ attempts[c] >= MaxSends
  BY DEF WornOut, Candidates, Exhausted
<1>2. attempts[c] \in Nat
  BY <1>1, ConstantFacts DEF TypeOK
<1>3. row[c] = "pending"
  BY <1>1, <1>2, ConstantFacts DEF Eligible
<1> QED
  BY <1>1, <1>3

LEMMA ClaimNothingInv ==
  ASSUME IndInv, NEW d \in Dispatcher, ClaimNothing(d)
  PROVE  IndInv'
<1> USE DEF IndInv, ClaimNothing, history
<1> DEFINE worn == WornOut(d, [a \in Booking |-> TRUE])
<1>1. \A c \in worn : c \in Booking /\ row[c] = "pending" /\ Eligible(c)
  BY WornOutIsPending
<1>2. \A c \in Booking : row'[c] = row[c]
                           \/ (row[c] = "pending" /\ row'[c] = "failed"
                                 /\ Eligible(c))
  BY <1>1
<1> HIDE DEF worn
<1>3. \A e \in Dispatcher : pc'[e] = pc[e] \/ (e = d /\ pc'[e] = "idle")
  BY DEF TypeOK
<1>4. row' \in [Booking -> RowStatuses]
  <2>1. \A c \in Booking : row'[c] \in RowStatuses
    BY <1>2 DEF TypeOK, RowStatuses
  <2> QED
    BY <2>1
<1>5. TypeOK'
  BY <1>4 DEF TypeOK, Pcs, InFlight, InFlightPcs
<1>6. \A e \in Dispatcher : InFlight(e)' => InFlight(e) /\ pc'[e] = pc[e]
  BY <1>3 DEF InFlight, InFlightPcs
<1>7. \A e \in Dispatcher : InFlight(e) => row'[job[e]] = row[job[e]]
  BY <1>2, HeldIsNotEligible DEF TypeOK
<1>8. ClaimsAreFresh' /\ AnswersAreReal'
  <2>1. ClaimsAreFresh'
    BY <1>6, <1>7 DEF ClaimsAreFresh, InFlight
  <2>2. AnswersAreReal'
    BY <1>3 DEF AnswersAreReal
  <2> QED
    BY <2>1, <2>2
<1>9. SingleSender'
  BY <1>6 DEF SingleSender
<1>10. DeliveriesPaidFor'
  BY <1>3 DEF DeliveriesPaidFor
<1>11. SentWasDelivered' /\ TransactionsAreOfRows'
  BY <1>2, TransactionsKept DEF SentWasDelivered
<1>12. AtMostOneLateMessage'
  BY <1>3, LateKept
<1> QED
  BY <1>5, <1>8, <1>9, <1>10, <1>11, <1>12

LEMMA ClaimInv ==
  ASSUME IndInv, NEW d \in Dispatcher, NEW b \in Booking, Claim(d, b)
  PROVE  IndInv'
<1> USE DEF IndInv
<1> DEFINE worn == WornOut(d, [c \in Booking |-> Before(c, b)])
<1>1. b \in Candidates(d) /\ Eligible(b) /\ ~Exhausted(b)
  BY DEF Claim, Claimable, Candidates
<1>2. /\ row' = [c \in Booking |-> IF c \in worn THEN "failed"
                                   ELSE IF c = b THEN "pending" ELSE row[c]]
      /\ attempts' = [attempts EXCEPT ![b] = @ + 1]
      /\ age' = [age EXCEPT ![b] = 0]
      /\ pc' = [pc EXCEPT ![d] = "claimed"]
      /\ job' = [job EXCEPT ![d] = b]
      /\ seen' = [seen EXCEPT ![d] = @ \cup {b}]
      /\ held' = [held EXCEPT ![d] = 0]
      /\ UNCHANGED <<status, wait, tx, accepted, late>>
      /\ pc[d] = "sweeping"
  BY DEF Claim, CountAttempt, history
<1>3. \A c \in worn : /\ c \in Booking /\ row[c] = "pending" /\ Eligible(c)
                      /\ Exhausted(c)
  <2> SUFFICES ASSUME NEW c \in worn
               PROVE  /\ c \in Booking /\ row[c] = "pending" /\ Eligible(c)
                      /\ Exhausted(c)
    OBVIOUS
  <2>1. c \in Booking /\ Eligible(c) /\ Exhausted(c)
    BY DEF WornOut, Candidates
  <2>2. attempts[c] \in Nat
    BY <2>1, ConstantFacts DEF TypeOK
  <2>3. row[c] = "pending"
    BY <2>1, <2>2, ConstantFacts DEF Eligible, Exhausted
  <2> QED
    BY <2>1, <2>3
<1>4. b \notin worn
  BY <1>1, <1>3
<1> HIDE DEF worn
<1>5. /\ row'[b] = "pending"
      /\ \A c \in Booking \ {b} :
           row'[c] = row[c]
             \/ (row[c] = "pending" /\ row'[c] = "failed" /\ Eligible(c))
  BY <1>2, <1>3, <1>4
<1>6. \A e \in Dispatcher : InFlight(e) =>
        e # d /\ job[e] # b /\ job[e] \in Booking
  <2> SUFFICES ASSUME NEW e \in Dispatcher, InFlight(e)
               PROVE  e # d /\ job[e] # b /\ job[e] \in Booking
    OBVIOUS
  <2>1. ~Eligible(job[e])
    BY HeldIsNotEligible
  <2>2. e # d
    BY <1>2 DEF InFlight, InFlightPcs
  <2> QED
    BY <2>1, <2>2, <1>1 DEF TypeOK
<1>7. \A e \in Dispatcher : InFlight(e) =>
        /\ row'[job[e]] = row[job[e]] /\ age'[job[e]] = age[job[e]]
        /\ pc'[e] = pc[e] /\ job'[e] = job[e] /\ held'[e] = held[e]
  BY <1>2, <1>5, <1>6, HeldIsNotEligible DEF TypeOK
<1>8. \A e \in Dispatcher : InFlight(e)' => e = d \/ InFlight(e)
  BY <1>2 DEF InFlight, TypeOK
<1>9. TypeOK'
  <2>1. row' \in [Booking -> RowStatuses]
    <3>1. \A c \in Booking : row'[c] \in RowStatuses
      BY <1>5 DEF TypeOK, RowStatuses
    <3> QED
      BY <3>1, <1>2
  <2>2. attempts' \in [Booking -> 0..MaxSends]
    <3>1. attempts[b] \in 0..MaxSends /\ attempts[b] < MaxSends
      BY <1>1, ConstantFacts DEF TypeOK, Exhausted
    <3> QED
      BY <3>1, <1>2, ConstantFacts DEF TypeOK
  <2>3. age' \in [Booking -> Never..MaxAge]
    BY <1>2, ConstantFacts DEF TypeOK, Never
  <2>4. held' \in [Dispatcher -> 0..SendTimeout]
    BY <1>2, ConstantFacts DEF TypeOK
  <2>5. seen' \in [Dispatcher -> SUBSET Booking]
    <3>1. seen[d] \cup {b} \in SUBSET Booking
      BY DEF TypeOK
    <3> QED
      BY <3>1, <1>2 DEF TypeOK
  <2>6. /\ status' \in [Booking -> BookingStatuses]
        /\ wait' \in [Booking -> Nat]
        /\ pc' \in [Dispatcher -> Pcs]
        /\ job' \in [Dispatcher -> Booking \cup {NoJob}]
        /\ tx' \in [Clerk -> Txs]
        /\ accepted' \in [Booking -> Nat]
        /\ late' \in [Booking -> Nat]
    BY <1>2 DEF TypeOK, Pcs
  <2>7. \A e \in Dispatcher : InFlight(e)' => job'[e] \in Booking
    BY <1>2, <1>6, <1>7, <1>8 DEF TypeOK
  <2> QED
    BY <2>1, <2>2, <2>3, <2>4, <2>5, <2>6, <2>7 DEF TypeOK, InFlight
<1>10. ClaimsAreFresh'
  <2> SUFFICES ASSUME NEW e \in Dispatcher, InFlight(e)'
               PROVE  /\ age'[job'[e]] = held'[e]
                      /\ row'[job'[e]] \in {"pending", "cancelled"}
                           \cup (IF pc'[e] = "refused" THEN {"skipped"}
                                 ELSE {})
    BY DEF ClaimsAreFresh
  <2>1. CASE e = d
    BY <2>1, <1>2, <1>5 DEF TypeOK
  <2>2. CASE InFlight(e)
    BY <2>2, <1>7 DEF ClaimsAreFresh
  <2> QED
    BY <2>1, <2>2, <1>8
<1>11. AnswersAreReal'
  BY <1>2, <1>7, <1>8 DEF AnswersAreReal, TypeOK, InFlight, InFlightPcs
<1>12. SingleSender'
  <2> SUFFICES ASSUME NEW e1 \in Dispatcher, NEW e2 \in Dispatcher,
                      InFlight(e1)', InFlight(e2)', job'[e1] = job'[e2]
               PROVE  e1 = e2
    BY DEF SingleSender
  <2>1. job'[d] = b
    BY <1>2 DEF TypeOK
  <2>2. \A e \in Dispatcher : InFlight(e) => job'[e] = job[e] /\ job[e] # b
    BY <1>6, <1>7
  <2> QED
    BY <2>1, <2>2, <1>8 DEF SingleSender
<1>13. DeliveriesPaidFor'
  <2> SUFFICES ASSUME NEW c \in Booking
               PROVE  (accepted[c] + (IF \E e \in Dispatcher :
                          job[e] = c /\ pc[e] \in {"claimed", "sending"}
                        THEN 1 ELSE 0) <= attempts[c])'
    BY DEF DeliveriesPaidFor
  <2>1. accepted[c] \in Nat /\ attempts[c] \in Nat
    BY ConstantFacts DEF TypeOK
  <2>2. CASE c = b
    <3>1. accepted[b] <= attempts[b]
      BY <2>1, <2>2 DEF DeliveriesPaidFor
    <3>2. attempts'[b] = attempts[b] + 1 /\ accepted'[b] = accepted[b]
      BY <1>2 DEF TypeOK
    <3> QED
      BY <2>1, <2>2, <3>1, <3>2
  <2>3. CASE c # b
    <3>1. \A e \in Dispatcher :
            job'[e] = c /\ pc'[e] \in {"claimed", "sending"}
              => job[e] = c /\ pc[e] \in {"claimed", "sending"}
      BY <1>2, <2>3 DEF TypeOK
    <3>2. attempts'[c] = attempts[c] /\ accepted'[c] = accepted[c]
      BY <1>2, <2>3 DEF TypeOK
    <3> QED
      BY <2>1, <3>1, <3>2 DEF DeliveriesPaidFor
  <2> QED
    BY <2>2, <2>3
<1>14. SentWasDelivered'
  BY <1>2, <1>5 DEF SentWasDelivered
<1>15. TransactionsAreOfRows'
  BY <1>2, <1>5, TransactionsKept
<1>16. AtMostOneLateMessage'
  <2> SUFFICES ASSUME NEW c \in Booking
               PROVE  (IF status[c] \in FinalStatuses
                       THEN late[c] + (IF \E e \in Dispatcher :
                              job[e] = c /\ pc[e] \in {"claimed", "sending"}
                            THEN 1 ELSE 0) <= 1
                       ELSE late[c] = 0)'
    BY DEF AtMostOneLateMessage
  <2>1. CASE c = b
    <3>1. status[b] \notin FinalStatuses
      BY <1>1 DEF Eligible, FinalStatuses
    <3> QED
      BY <2>1, <3>1, <1>2 DEF AtMostOneLateMessage
  <2>2. CASE c # b
    <3>1. \A e \in Dispatcher :
            job'[e] = c /\ pc'[e] \in {"claimed", "sending"}
              => job[e] = c /\ pc[e] \in {"claimed", "sending"}
      BY <1>2, <2>2 DEF TypeOK
    <3>2. late[c] \in Nat
      BY DEF TypeOK
    <3> QED
      BY <3>1, <3>2, <1>2 DEF AtMostOneLateMessage
  <2> QED
    BY <2>1, <2>2
<1> QED
  BY <1>9, <1>10, <1>11, <1>12, <1>13, <1>14, <1>15, <1>16

-----------------------------------------------------------------------------
(* The call to Meta and what follows it. *)

\* A step of a dispatcher that holds job b and keeps it, or gives it up: who
\* else is in flight, and with what, does not change.
LEMMA CheckInv ==
  ASSUME IndInv, NEW d \in Dispatcher, Check(d)
  PROVE  IndInv'
<1> USE DEF IndInv
<1> DEFINE b == job[d]
<1>1. /\ pc[d] = "claimed" /\ InFlight(d) /\ b \in Booking
      /\ UNCHANGED <<status, attempts, age, wait, job, seen, held, tx, accepted,
                     late>>
  BY DEF Check, InFlight, InFlightPcs, TypeOK, history
<1>2. \/ /\ pc' = [pc EXCEPT ![d] = "sending"]
         /\ row' = row
      \/ /\ pc' = [pc EXCEPT ![d] = "refused"]
         /\ \/ row' = row
            \/ /\ row[b] = "pending" /\ status[b] # "confirmed"
               /\ \/ row' = [row EXCEPT ![b] = "cancelled"]
                  \/ row' = [row EXCEPT ![b] = "skipped"]
  BY DEF Check, Live
<1> HIDE DEF b
<1>3. \A e \in Dispatcher :
        /\ InFlight(e)' = InFlight(e)
        /\ e # d => pc'[e] = pc[e]
  BY <1>1, <1>2 DEF InFlight, InFlightPcs, TypeOK
<1>4. \A c \in Booking \ {b} : row'[c] = row[c]
  BY <1>1, <1>2 DEF TypeOK
<1>5. TypeOK'
  BY <1>1, <1>2, <1>3 DEF TypeOK, Pcs, RowStatuses
<1>6. ClaimsAreFresh'
  <2> SUFFICES ASSUME NEW e \in Dispatcher, InFlight(e)
               PROVE  /\ age[job[e]] = held[e]
                      /\ row'[job[e]] \in {"pending", "cancelled"}
                           \cup (IF pc'[e] = "refused" THEN {"skipped"}
                                 ELSE {})
    BY <1>1, <1>3 DEF ClaimsAreFresh
  <2>1. CASE e = d
    BY <2>1, <1>1, <1>2 DEF ClaimsAreFresh, TypeOK, b
  <2>2. CASE e # d
    <3>1. job[e] # b /\ job[e] \in Booking
      BY <2>2, <1>1 DEF SingleSender, TypeOK, b
    <3> QED
      BY <2>2, <3>1, <1>3, <1>4 DEF ClaimsAreFresh
  <2> QED
    BY <2>1, <2>2
<1>7. AnswersAreReal' /\ SingleSender'
  BY <1>1, <1>2, <1>3 DEF AnswersAreReal, SingleSender, TypeOK
<1>8. DeliveriesPaidFor'
  <2>1. \A e \in Dispatcher :
          pc'[e] \in {"claimed", "sending"} => pc[e] \in {"claimed", "sending"}
    BY <1>1, <1>2 DEF TypeOK
  <2> QED
    BY <1>1, <2>1, ConstantFacts DEF DeliveriesPaidFor, TypeOK
<1>9. SentWasDelivered'
  BY <1>1, <1>2 DEF SentWasDelivered, TypeOK
<1>10. TransactionsAreOfRows'
  BY <1>1, <1>2, TransactionsKept DEF TypeOK
<1>11. AtMostOneLateMessage'
  <2>1. \A e \in Dispatcher :
          pc'[e] \in {"claimed", "sending"} => pc[e] \in {"claimed", "sending"}
    BY <1>1, <1>2 DEF TypeOK
  <2> QED
    BY <1>1, <2>1, LateKept
<1> QED
  BY <1>5, <1>6, <1>7, <1>8, <1>9, <1>10, <1>11

LEMMA MetaInv ==
  ASSUME IndInv, NEW d \in Dispatcher, MetaAccepts(d) \/ MetaRefuses(d)
  PROVE  IndInv'
<1> USE DEF IndInv
<1> DEFINE b == job[d]
<1>1. /\ pc[d] = "sending" /\ InFlight(d) /\ b \in Booking
      /\ UNCHANGED <<status, row, attempts, age, wait, job, seen, held, tx>>
  BY DEF MetaAccepts, MetaRefuses, dbVars, InFlight, InFlightPcs, TypeOK
<1>2. \/ /\ accepted' = [accepted EXCEPT ![b] = @ + 1]
         /\ late' = IF status[b] \in FinalStatuses
                    THEN [late EXCEPT ![b] = @ + 1] ELSE late
         /\ \/ pc' = [pc EXCEPT ![d] = "accepted"]
            \/ pc' = [pc EXCEPT ![d] = "refused"]
      \/ /\ accepted' = accepted /\ late' = late
         /\ pc' = [pc EXCEPT ![d] = "refused"]
  BY DEF MetaAccepts, MetaRefuses, history
<1> HIDE DEF b
<1>3. \A e \in Dispatcher :
        /\ InFlight(e)' = InFlight(e)
        /\ e # d => pc'[e] = pc[e]
  BY <1>1, <1>2 DEF InFlight, InFlightPcs, TypeOK
<1>4. \A c \in Booking : accepted'[c] \in Nat /\ accepted'[c] >= accepted[c]
  BY <1>1, <1>2 DEF TypeOK
<1>5. TypeOK'
  <2>1. accepted' \in [Booking -> Nat] /\ late' \in [Booking -> Nat]
    BY <1>1, <1>2 DEF TypeOK
  <2> QED
    BY <1>1, <1>2, <1>3, <2>1 DEF TypeOK, Pcs
<1>6. ClaimsAreFresh' /\ SingleSender'
  BY <1>1, <1>2, <1>3 DEF ClaimsAreFresh, SingleSender, TypeOK
<1>7. AnswersAreReal'
  <2> SUFFICES ASSUME NEW e \in Dispatcher, pc'[e] = "accepted"
               PROVE  accepted'[job[e]] > 0
    BY <1>1 DEF AnswersAreReal
  <2>1. CASE e = d
    BY <2>1, <1>1, <1>2 DEF TypeOK, b
  <2>2. CASE e # d
    <3>1. pc[e] = "accepted" /\ job[e] \in Booking
      BY <2>2, <1>3 DEF TypeOK, InFlight, InFlightPcs
    <3> QED
      BY <3>1, <1>4 DEF AnswersAreReal, TypeOK
  <2> QED
    BY <2>1, <2>2
<1>0. \A e \in Dispatcher : ~(job[e] = b /\ pc'[e] \in {"claimed", "sending"})
  <2> SUFFICES ASSUME NEW e \in Dispatcher, job[e] = b,
                      pc'[e] \in {"claimed", "sending"}
               PROVE  FALSE
    OBVIOUS
  <2>1. e # d
    BY <1>1, <1>2 DEF TypeOK
  <2>2. InFlight(e)
    BY <2>1, <1>3 DEF InFlight, InFlightPcs
  <2> QED
    BY <2>1, <2>2, <1>1 DEF SingleSender, b
<1>8. DeliveriesPaidFor'
  <2> SUFFICES ASSUME NEW c \in Booking
               PROVE  (accepted[c] + (IF \E e \in Dispatcher :
                          job[e] = c /\ pc[e] \in {"claimed", "sending"}
                        THEN 1 ELSE 0) <= attempts[c])'
    BY DEF DeliveriesPaidFor
  <2>1. accepted[c] \in Nat /\ attempts[c] \in Nat /\ accepted'[c] \in Nat
    BY <1>4, ConstantFacts DEF TypeOK
  <2>2. CASE c = b
    <3>1. accepted[b] + 1 <= attempts[b]
      BY <1>1, <2>1, <2>2 DEF DeliveriesPaidFor, b
    <3>2. accepted'[b] <= accepted[b] + 1
      BY <1>1, <1>2 DEF TypeOK
    <3> QED
      BY <1>0, <1>1, <2>1, <2>2, <3>1, <3>2
  <2>3. CASE c # b
    <3>1. accepted'[c] = accepted[c]
      BY <1>2, <2>3 DEF TypeOK
    <3>2. \A e \in Dispatcher : job[e] = c => pc'[e] = pc[e]
      BY <1>3, <2>3 DEF b
    <3> QED
      BY <1>1, <2>1, <3>1, <3>2 DEF DeliveriesPaidFor
  <2> QED
    BY <2>2, <2>3
<1>9. SentWasDelivered' /\ TransactionsAreOfRows'
  BY <1>1, <1>4, TransactionsKept DEF SentWasDelivered, TypeOK
<1>10. AtMostOneLateMessage'
  <2> SUFFICES ASSUME NEW c \in Booking
               PROVE  (IF status[c] \in FinalStatuses
                       THEN late[c] + (IF \E e \in Dispatcher :
                              job[e] = c /\ pc[e] \in {"claimed", "sending"}
                            THEN 1 ELSE 0) <= 1
                       ELSE late[c] = 0)'
    BY DEF AtMostOneLateMessage
  <2>1. late[c] \in Nat /\ late'[c] \in Nat
    BY <1>5 DEF TypeOK
  <2>2. CASE c = b
    <3>1. \E e \in Dispatcher : job[e] = b /\ pc[e] \in {"claimed", "sending"}
      BY <1>1 DEF b
    <3>2. status[b] \in FinalStatuses => late[b] + 1 <= 1
      BY <1>1, <3>1 DEF AtMostOneLateMessage
    <3>3. status[b] \in FinalStatuses => late'[b] <= 1
      BY <2>1, <2>2, <3>2, <1>1, <1>2 DEF TypeOK
    <3>4. status[b] \notin FinalStatuses => late'[b] = 0
      BY <1>1, <1>2 DEF AtMostOneLateMessage
    <3> QED
      BY <2>1, <2>2, <3>3, <3>4, <1>0, <1>1
  <2>3. CASE c # b
    <3>1. late'[c] = late[c]
      BY <1>2, <2>3 DEF TypeOK
    <3>2. \A e \in Dispatcher : job[e] = c => pc'[e] = pc[e]
      BY <1>3, <2>3 DEF b
    <3> QED
      BY <1>1, <2>1, <3>1, <3>2 DEF AtMostOneLateMessage
  <2> QED
    BY <2>2, <2>3
<1> QED
  BY <1>5, <1>6, <1>7, <1>8, <1>9, <1>10

\* Both mark functions and a crash give up the job; a mark function may
\* also settle the row it held.
LEMMA ReleaseInv ==
  ASSUME IndInv, NEW d \in Dispatcher, MarkSent(d) \/ MarkFailed(d) \/ Crash(d)
  PROVE  IndInv'
<1> USE DEF IndInv
<1> DEFINE b == job[d]
<1>1. /\ pc' = [pc EXCEPT ![d] = "sweeping"] \/ pc' = [pc EXCEPT ![d] = "idle"]
      /\ job' = [job EXCEPT ![d] = NoJob]
      /\ held' = [held EXCEPT ![d] = 0]
      /\ seen' = seen \/ seen' = [seen EXCEPT ![d] = {}]
      /\ UNCHANGED <<status, attempts, wait, tx, accepted, late>>
  BY DEF MarkSent, MarkFailed, Crash, Release, dbVars, history
<1>2. \/ row' = row /\ age' = age
      \/ /\ InFlight(d) /\ row[b] = "pending"
         /\ \/ /\ row' = [row EXCEPT ![b] = "sent"]
               /\ age' = [age EXCEPT ![b] = 0]
               /\ pc[d] = "accepted"
            \/ /\ row' = [row EXCEPT ![b] = "failed"]
               /\ age' = age
  BY DEF MarkSent, MarkFailed, Crash, dbVars, Live, InFlight, InFlightPcs
<1>3. InFlight(d) => b \in Booking
  BY DEF TypeOK
<1> HIDE DEF b
<1>4. \A e \in Dispatcher :
        InFlight(e)' => /\ InFlight(e) /\ e # d
                        /\ pc'[e] = pc[e] /\ job'[e] = job[e]
                        /\ held'[e] = held[e]
  BY <1>1 DEF InFlight, InFlightPcs, TypeOK
<1>5. \A e \in Dispatcher :
        InFlight(e)' => row'[job[e]] = row[job[e]] /\ age'[job[e]] = age[job[e]]
  <2> SUFFICES ASSUME NEW e \in Dispatcher, InFlight(e)'
               PROVE  row'[job[e]] = row[job[e]] /\ age'[job[e]] = age[job[e]]
    OBVIOUS
  <2>1. job[e] \in Booking /\ e # d /\ InFlight(e)
    BY <1>4 DEF TypeOK
  <2>2. InFlight(d) => job[e] # b
    BY <2>1 DEF SingleSender, b
  <2> QED
    BY <1>2, <1>3, <2>1, <2>2 DEF TypeOK
<1>6. TypeOK'
  <2>1. row' \in [Booking -> RowStatuses]
    BY <1>2 DEF TypeOK, RowStatuses
  <2>2. age' \in [Booking -> Never..MaxAge]
    BY <1>2, ConstantFacts DEF TypeOK, Never
  <2>3. /\ pc' \in [Dispatcher -> Pcs]
        /\ job' \in [Dispatcher -> Booking \cup {NoJob}]
        /\ seen' \in [Dispatcher -> SUBSET Booking]
        /\ held' \in [Dispatcher -> 0..SendTimeout]
    BY <1>1, ConstantFacts DEF TypeOK, Pcs
  <2>4. \A e \in Dispatcher : InFlight(e)' => job'[e] \in Booking
    BY <1>4 DEF TypeOK
  <2> QED
    BY <1>1, <2>1, <2>2, <2>3, <2>4 DEF TypeOK
<1>7. ClaimsAreFresh'
  BY <1>4, <1>5 DEF ClaimsAreFresh, InFlight
<1>8. SingleSender'
  BY <1>4 DEF SingleSender
<1>9. AnswersAreReal'
  BY <1>1, <1>4 DEF AnswersAreReal, InFlight, InFlightPcs
<1>10. DeliveriesPaidFor'
  <2>1. \A e \in Dispatcher :
          pc'[e] \in {"claimed", "sending"}
            => pc[e] \in {"claimed", "sending"} /\ job'[e] = job[e]
    BY <1>4 DEF InFlight, InFlightPcs
  <2> QED
    BY <1>1, <2>1, ConstantFacts DEF DeliveriesPaidFor, TypeOK
<1>11. SentWasDelivered'
  BY <1>1, <1>2, <1>3 DEF SentWasDelivered, AnswersAreReal, TypeOK, b
<1>12. TransactionsAreOfRows'
  BY <1>1, <1>2, <1>3, TransactionsKept DEF TypeOK
<1>13. AtMostOneLateMessage'
  <2>1. \A e \in Dispatcher :
          pc'[e] \in {"claimed", "sending"}
            => pc[e] \in {"claimed", "sending"} /\ job'[e] = job[e]
    BY <1>4 DEF InFlight, InFlightPcs
  <2> QED
    BY <1>1, <2>1, LateKept
<1> QED
  BY <1>6, <1>7, <1>8, <1>9, <1>10, <1>11, <1>12, <1>13

\* The clock moves the age of a row and the time its holder has had it
\* together: below the lease, the age is not saturated.
LEMMA TickInv ==
  ASSUME IndInv, Tick
  PROVE  IndInv'
<1> USE DEF IndInv, Tick, history
<1>1. TypeOK'
  <2>1. wait' \in [Booking -> Nat]
    BY DEF TypeOK
  <2>2. age' \in [Booking -> Never..MaxAge]
    BY ConstantFacts DEF TypeOK, Never
  <2>3. held' \in [Dispatcher -> 0..SendTimeout]
    BY ConstantFacts DEF TypeOK
  <2> QED
    BY <2>1, <2>2, <2>3 DEF TypeOK, InFlight
<1>2. ClaimsAreFresh'
  <2> SUFFICES ASSUME NEW e \in Dispatcher, InFlight(e)
               PROVE  age'[job[e]] = held'[e]
    BY DEF ClaimsAreFresh, InFlight
  <2>1. job[e] \in Booking /\ held[e] \in Nat /\ held[e] < MaxAge
    BY ConstantFacts DEF TypeOK
  <2>2. age[job[e]] = held[e]
    BY DEF ClaimsAreFresh
  <2>3. age'[job[e]] = age[job[e]] + 1
    BY <2>1, <2>2, ConstantFacts DEF Never
  <2> QED
    BY <2>2, <2>3
<1>3. AnswersAreReal' /\ SingleSender' /\ DeliveriesPaidFor'
  BY DEF AnswersAreReal, SingleSender, DeliveriesPaidFor, InFlight
<1>4. SentWasDelivered' /\ TransactionsAreOfRows' /\ AtMostOneLateMessage'
  BY DEF SentWasDelivered, TransactionsAreOfRows, AtMostOneLateMessage
<1> QED
  BY <1>1, <1>2, <1>3, <1>4

LEMMA StutterInv ==
  ASSUME IndInv, UNCHANGED vars
  PROVE  IndInv'
<1> USE DEF IndInv, vars
<1>1. TypeOK' /\ ClaimsAreFresh' /\ AnswersAreReal'
  BY DEF TypeOK, ClaimsAreFresh, AnswersAreReal, InFlight
<1>2. SingleSender' /\ DeliveriesPaidFor'
  BY DEF SingleSender, DeliveriesPaidFor, InFlight
<1>3. SentWasDelivered' /\ TransactionsAreOfRows' /\ AtMostOneLateMessage'
  BY DEF SentWasDelivered, TransactionsAreOfRows, AtMostOneLateMessage
<1> QED
  BY <1>1, <1>2, <1>3

-----------------------------------------------------------------------------
(* The invariants. *)

LEMMA NextInv == IndInv /\ [Next]_vars => IndInv'
<1> SUFFICES ASSUME IndInv, [Next]_vars PROVE IndInv'
  OBVIOUS
<1>0. ASSUME NEW b \in Booking, Confirm(b) PROVE IndInv'
  BY <1>0, ConfirmInv
<1>1. ASSUME NEW c \in Clerk, Staff(c) PROVE IndInv'
  BY <1>1, TransitionReadsInv, TransitionCommitsInv DEF Staff
<1>2. ASSUME NEW d \in Dispatcher, Dispatch(d) PROVE IndInv'
  <2>1. CASE StartSweep(d) \/ BatchDone(d) \/ ClaimRaises(d)
    BY <2>1, SweepInv
  <2>2. CASE ClaimNothing(d)
    BY <2>2, ClaimNothingInv
  <2>3. ASSUME NEW b \in Booking, Claim(d, b) PROVE IndInv'
    BY <2>3, ClaimInv
  <2>4. CASE Check(d)
    BY <2>4, CheckInv
  <2>5. CASE MetaAccepts(d) \/ MetaRefuses(d)
    BY <2>5, MetaInv
  <2>6. CASE MarkSent(d) \/ MarkFailed(d) \/ Crash(d)
    BY <2>6, ReleaseInv
  <2> QED
    BY <1>2, <2>1, <2>2, <2>3, <2>4, <2>5, <2>6 DEF Dispatch
<1>3. CASE Tick
  BY <1>3, TickInv
<1>4. CASE UNCHANGED vars
  BY <1>4, StutterInv
<1> QED
  BY <1>0, <1>1, <1>2, <1>3, <1>4 DEF Next

\* The inductive invariant holds throughout: claims in hand are younger than
\* the lease, for any lease longer than the longest call.
THEOREM InductiveInvariant == Spec => []IndInv
BY InitInv, NextInv, PTL DEF Spec

\* Every variable keeps its type; in particular no row is attempted more than
\* max_sends times.
THEOREM TypeCorrect == Spec => []TypeOK
BY InductiveInvariant, PTL DEF IndInv

\* Overlapping dispatch invocations never hold the same reminder.
THEOREM OneSenderPerReminder == Spec => []SingleSender
BY InductiveInvariant, PTL DEF IndInv

\* Every message Meta accepted was paid for by an attempt counted before it.
THEOREM EveryDeliveryIsPaidFor == Spec => []DeliveriesPaidFor
BY InductiveInvariant, PTL DEF IndInv

\* A row recorded as sent had a message accepted for it.
THEOREM SentMeansDelivered == Spec => []SentWasDelivered
BY InductiveInvariant, PTL DEF IndInv

\* A booking that is over gets one more message at most, although the
\* transition that ended it decided on reminders it had read without a lock.
THEOREM OneMessageAfterTheEnd == Spec => []AtMostOneLateMessage
BY InductiveInvariant, PTL DEF IndInv

\* The customer-facing consequence: at most max_sends messages per reminder.
THEOREM AtMostMaxSends == Spec => [](\A b \in Booking : accepted[b] <= MaxSends)
<1>1. IndInv => \A b \in Booking : accepted[b] <= MaxSends
  BY ConstantFacts DEF IndInv, TypeOK, DeliveriesPaidFor
<1> QED
  BY <1>1, InductiveInvariant, PTL
-----------------------------------------------------------------------------
(* What a step may never do. *)

\* The row changes of a step, one by one: what the action properties and the
\* refinement are read off from.
LEMMA RowSteps ==
  ASSUME IndInv, [Next]_vars, NEW b \in Booking, row'[b] # row[b]
  PROVE  \/ row[b] = "absent" /\ row'[b] = "pending"
         \/ row[b] = "pending" /\ row'[b] \in {"failed", "sent", "cancelled", "skipped"}
         \/ row[b] = "failed" /\ row'[b] = "pending"
         \/ row[b] # "absent" /\ row'[b] = "cancelled"
<1> DEFINE Goal ==
      \/ row[b] = "absent" /\ row'[b] = "pending"
      \/ row[b] = "pending" /\ row'[b] \in {"failed", "sent", "cancelled", "skipped"}
      \/ row[b] = "failed" /\ row'[b] = "pending"
      \/ row[b] # "absent" /\ row'[b] = "cancelled"
<1> SUFFICES Goal
  OBVIOUS
<1> USE DEF IndInv
<1>0. ASSUME NEW c \in Booking, Confirm(c) PROVE Goal
  BY <1>0 DEF Confirm, TypeOK
<1>1. ASSUME NEW c \in Clerk, Staff(c) PROVE Goal
  BY <1>1 DEF Staff, TransitionBegins, ReadsReminders, TransitionCommits,
              TransitionRollsBack, TransactionsAreOfRows, dbVars, TypeOK
<1>2. ASSUME NEW d \in Dispatcher, Dispatch(d) PROVE Goal
  <2>1. CASE StartSweep(d) \/ BatchDone(d) \/ MetaAccepts(d)
               \/ MetaRefuses(d) \/ Crash(d) \/ ClaimRaises(d)
    BY <2>1 DEF StartSweep, BatchDone, ClaimRaises, MetaAccepts, MetaRefuses, Crash, dbVars
  <2>2. CASE ClaimNothing(d)
    BY <2>2, WornOutIsPending DEF ClaimNothing
  <2>3. ASSUME NEW c \in Booking, Claim(d, c) PROVE Goal
    <3> DEFINE worn == WornOut(d, [a \in Booking |-> Before(a, c)])
    <3>1. \A a \in worn : row[a] = "pending"
      <4> SUFFICES ASSUME NEW a \in worn PROVE row[a] = "pending"
        OBVIOUS
      <4>1. a \in Booking /\ Eligible(a) /\ attempts[a] >= MaxSends
        BY DEF WornOut, Candidates, Exhausted
      <4>2. attempts[a] \in Nat
        BY <4>1, ConstantFacts DEF TypeOK
      <4> QED
        BY <4>1, <4>2, ConstantFacts DEF Eligible
    <3>2. row[c] \in {"pending", "failed"}
      BY <2>3 DEF Claim, Claimable, Candidates, Eligible
    <3> QED
      BY <2>3, <3>1, <3>2 DEF Claim
  <2>4. CASE Check(d) \/ MarkSent(d) \/ MarkFailed(d)
    BY <2>4 DEF Check, MarkSent, MarkFailed, Live, TypeOK
  <2> QED
    BY <1>2, <2>1, <2>2, <2>3, <2>4 DEF Dispatch
<1>3. CASE Tick \/ UNCHANGED vars
  BY <1>3 DEF Tick, vars
<1> QED
  BY <1>0, <1>1, <1>2, <1>3 DEF Next

\* Who may add to accepted: a dispatcher in its call, one at a time.
LEMMA AcceptedSteps ==
  ASSUME IndInv, [Next]_vars, NEW b \in Booking, accepted'[b] # accepted[b]
  PROVE  \E d \in Dispatcher :
           /\ pc[d] = "sending" /\ job[d] = b /\ MetaAccepts(d)
<1> USE DEF IndInv
<1>0. ASSUME NEW c \in Booking, Confirm(c) PROVE FALSE
  BY <1>0 DEF Confirm, history
<1>1. ASSUME NEW c \in Clerk, Staff(c) PROVE FALSE
  BY <1>1 DEF Staff, TransitionBegins, ReadsReminders, TransitionCommits,
              TransitionRollsBack, history
<1>2. ASSUME NEW d \in Dispatcher, Dispatch(d)
      PROVE  pc[d] = "sending" /\ job[d] = b /\ MetaAccepts(d)
  BY <1>2 DEF Dispatch, StartSweep, BatchDone, ClaimRaises, ClaimNothing,
              Claim, Check, MetaAccepts, MetaRefuses, MarkSent, MarkFailed,
              Crash, dbVars, history, TypeOK
<1>3. CASE Tick \/ UNCHANGED vars
  BY <1>3 DEF Tick, vars, history
<1> QED
  BY <1>0, <1>1, <1>2, <1>3 DEF Next

\* Meta is handed messages only for rows that are pending, or were cancelled
\* during the call.
THEOREM DeliveriesOnOpenRowsOnly == Spec => NoDeliveryOnSettledRow
<1>1. ASSUME IndInv, [Next]_vars, NEW b \in Booking, accepted'[b] # accepted[b]
      PROVE  row[b] \in {"pending", "cancelled"}
  <2>1. PICK d \in Dispatcher : pc[d] = "sending" /\ job[d] = b
    BY <1>1, AcceptedSteps
  <2> QED
    BY <1>1, <2>1 DEF IndInv, ClaimsAreFresh, InFlight, InFlightPcs
<1>2. IndInv /\ [Next]_vars
        => \A b \in Booking :
             accepted'[b] # accepted[b] => row[b] \in {"pending", "cancelled"}
  BY <1>1
<1> QED
  BY <1>2, InductiveInvariant, PTL DEF Spec, NoDeliveryOnSettledRow

-----------------------------------------------------------------------------
(* The subsystem implements ReminderContract. *)

\* How far each reminder is, as the contract sees it.
Phase == [b \in Booking |->
            IF row[b] = "absent" THEN "none"
            ELSE IF row[b] \in ClosedStatuses THEN "closed" ELSE "open"]

LEMMA InitRefines == Init => Contract!Init
BY DEF Init, Contract!Init

\* Where row changes, at most one reminder changes phase.
LEMMA RowChangeRefines ==
  ASSUME IndInv, [Next]_vars, NEW b \in Booking,
         row' \in [Booking -> RowStatuses],
         \A c \in Booking \ {b} : Phase'[c] = Phase[c],
         UNCHANGED <<attempts, accepted>>
  PROVE  [Contract!Next]_(Contract!contractVars)
<1> USE DEF IndInv
<1>1. row[b] # row'[b] =>
        \/ row[b] = "absent" /\ row'[b] = "pending"
        \/ row[b] = "pending" /\ row'[b] \in {"failed", "sent", "cancelled", "skipped"}
        \/ row[b] = "failed" /\ row'[b] = "pending"
        \/ row[b] # "absent" /\ row'[b] = "cancelled"
  BY RowSteps
<1>2. \/ Phase'[b] = Phase[b]
      \/ Phase[b] = "none" /\ Phase'[b] = "open"
      \/ Phase[b] = "open" /\ Phase'[b] = "closed"
  BY <1>1 DEF Phase, ClosedStatuses
<1>3. \/ Phase' = Phase
      \/ Phase[b] = "none" /\ Phase' = [Phase EXCEPT ![b] = "open"]
      \/ Phase[b] = "open" /\ Phase' = [Phase EXCEPT ![b] = "closed"]
  <2>1. Phase = [c \in Booking |-> Phase[c]] /\ Phase' = [c \in Booking |-> Phase'[c]]
    BY DEF Phase
  <2> HIDE DEF Phase
  <2> QED
    BY <1>2, <2>1
<1> QED
  BY <1>3 DEF Contract!Next, Contract!Open, Contract!Close,
              Contract!contractVars, Phase

LEMMA StepRefines ==
  IndInv /\ [Next]_vars => [Contract!Next]_(Contract!contractVars)
<1> SUFFICES ASSUME IndInv, [Next]_vars
             PROVE  [Contract!Next]_(Contract!contractVars)
  OBVIOUS
<1> USE DEF IndInv
<1>0. row' \in [Booking -> RowStatuses]
  BY NextInv DEF TypeOK
<1>c. ASSUME NEW b \in Booking, Confirm(b)
      PROVE  [Contract!Next]_(Contract!contractVars)
  <2>1. /\ UNCHANGED <<attempts, accepted>>
        /\ \A c \in Booking \ {b} : row'[c] = row[c]
    BY <1>c DEF Confirm, history, TypeOK
  <2> QED
    BY <1>0, <2>1, RowChangeRefines DEF Phase
<1>1. ASSUME NEW c \in Clerk, Staff(c)
      PROVE  [Contract!Next]_(Contract!contractVars)
  <2>1. CASE UNCHANGED <<row, attempts, accepted>>
    BY <2>1 DEF Contract!contractVars
  <2>2. CASE TransitionCommits(c)
    <3>1. /\ tx[c].booking \in Booking
          /\ UNCHANGED <<attempts, accepted>>
          /\ \A b \in Booking \ {tx[c].booking} : row'[b] = row[b]
      BY <2>2 DEF TransitionCommits, TypeOK, Txs, TransactionsAreOfRows
    <3> QED
      BY <1>0, <3>1, RowChangeRefines DEF Phase
  <2> QED
    BY <1>1, <2>1, <2>2 DEF Staff, TransitionBegins, ReadsReminders,
                            TransitionRollsBack, dbVars, history
<1>2. ASSUME NEW d \in Dispatcher, Dispatch(d)
      PROVE  [Contract!Next]_(Contract!contractVars)
  <2>1. CASE StartSweep(d) \/ BatchDone(d) \/ ClaimRaises(d) \/ MetaRefuses(d)
               \/ Crash(d)
    BY <2>1 DEF StartSweep, BatchDone, ClaimRaises, MetaRefuses, Crash, dbVars,
                history, Contract!contractVars
  <2>2. CASE ClaimNothing(d)
    <3>1. \A c \in Booking : Phase'[c] = Phase[c]
      BY <2>2, WornOutIsPending DEF ClaimNothing, Phase, ClosedStatuses
    <3>2. Phase' = Phase
      BY <3>1 DEF Phase
    <3> QED
      BY <2>2, <3>2 DEF ClaimNothing, history, Contract!contractVars, Phase
  <2>3. ASSUME NEW b \in Booking, Claim(d, b)
        PROVE  [Contract!Next]_(Contract!contractVars)
    <3>1. row[b] \in {"pending", "failed"} /\ attempts[b] < MaxSends
      <4>1. Eligible(b) /\ ~Exhausted(b)
        BY <2>3 DEF Claim, Claimable, Candidates
      <4> QED
        BY <4>1, ConstantFacts DEF Eligible, Exhausted, TypeOK
    <3>2. Phase[b] = "open"
      BY <3>1 DEF Phase, ClosedStatuses
    <3>3. \A c \in Booking : row'[c] # row[c] => {row[c], row'[c]} \subseteq {"pending", "failed"}
      <4> DEFINE worn == WornOut(d, [a \in Booking |-> Before(a, b)])
      <4>1. \A c \in worn : row[c] \in {"pending", "failed"}
        BY DEF WornOut, Candidates, Eligible
      <4> QED
        BY <2>3, <3>1, <4>1 DEF Claim
    <3>4. \A c \in Booking : Phase'[c] = Phase[c]
      BY <3>3 DEF Phase, ClosedStatuses
    <3>5. Phase' = Phase
      BY <3>4 DEF Phase
    <3>6. attempts' = [attempts EXCEPT ![b] = @ + 1] /\ accepted' = accepted
      BY <2>3 DEF Claim, CountAttempt, history
    <3> QED
      BY <3>1, <3>2, <3>5, <3>6
         DEF Contract!Next, Contract!Try, Contract!contractVars, Phase
  <2>4. CASE MetaAccepts(d)
    <3>1. /\ job[d] \in Booking /\ pc[d] = "sending"
          /\ UNCHANGED <<row, attempts>>
          /\ accepted' = [accepted EXCEPT ![job[d]] = @ + 1]
      BY <2>4 DEF MetaAccepts, dbVars, TypeOK, InFlight, InFlightPcs
    <3>2. accepted[job[d]] < attempts[job[d]]
      BY <3>1, ConstantFacts DEF DeliveriesPaidFor, TypeOK
    <3> QED
      BY <3>1, <3>2
         DEF Contract!Next, Contract!Deliver, Contract!contractVars
  <2>5. CASE Check(d) \/ MarkSent(d) \/ MarkFailed(d)
    <3>1. /\ job[d] \in Booking
          /\ UNCHANGED <<attempts, accepted>>
          /\ \A c \in Booking \ {job[d]} : row'[c] = row[c]
      BY <2>5 DEF Check, MarkSent, MarkFailed, history, TypeOK, InFlight,
                  InFlightPcs
    <3> QED
      BY <1>0, <3>1, RowChangeRefines DEF Phase
  <2> QED
    BY <1>2, <2>1, <2>2, <2>3, <2>4, <2>5 DEF Dispatch
<1>3. CASE Tick \/ UNCHANGED vars
  BY <1>3 DEF Tick, vars, history, Contract!contractVars
<1> QED
  BY <1>c, <1>1, <1>2, <1>3 DEF Next

\* Dispatchers, staff, clock and crashes together keep the contract.
THEOREM RemindersImplementContract == Spec => ImplementsContract
BY InitRefines, StepRefines, InductiveInvariant, PTL
   DEF Spec, ImplementsContract, Contract!Spec

=============================================================================
