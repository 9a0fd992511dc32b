------------------------------ MODULE Reminders ------------------------------
(***************************************************************************)
(* The H-2 reminder subsystem: staff confirmation writes one reminder row  *)
(* per booking (persistence.confirm_booking_by_ewash), cron firings of     *)
(* POST /internal/reminders/dispatch claim due rows, call Meta and record  *)
(* the outcome (reminders.py, persistence.claim_next_due_reminder and the  *)
(* mark_*/skip_* functions), and models.transition_booking_status moves    *)
(* bookings meanwhile.                                                     *)
(*                                                                         *)
(* A session_scope block that locks the rows it decides on is one action.  *)
(* What a dispatcher keeps between two transactions (the claimed           *)
(* candidate, the seen ids, the fate of the HTTP call) is its local state. *)
(* transition_booking_status locks nothing, so its two reads and the       *)
(* commit of its caller's transaction are three steps.                     *)
(*                                                                         *)
(* Time is relative.  wait[b] counts the ticks left until scheduled_for,   *)
(* age[b] the ticks since the row's sent_at, held[d] the ticks since       *)
(* dispatcher d stamped the row it holds; the code compares nothing else   *)
(* to the clock.  age saturates at MaxAge, beyond which no comparison of   *)
(* the code changes its value.                                             *)
(***************************************************************************)
EXTENDS Integers, FiniteSets, BookingStatus

CONSTANTS
  Booking,        \* primary keys; b also names the H-2 reminder row of b
  Dispatcher,     \* concurrent invocations of the dispatch endpoint
  Clerk,          \* transactions that may move bookings at the same time
  Lead,           \* Lead[b]: ticks until appointment_start_at - 120 minutes,
                  \*   0 when that is past or the start is unknown
  NoPhone,        \* bookings whose customer_phone is empty
  MaxSends,       \* reminder_rules.max_sends
  Cooldown,       \* reminder_rules.min_minutes_between_sends, in ticks
  Lease,          \* REMINDER_CLAIM_LEASE_MINUTES, in ticks
  SendTimeout,    \* longest a live dispatcher holds a claim, in ticks
  BatchSize,      \* capped batch size of one invocation
  StaffStatuses,  \* StaffStatuses[b]: the statuses staff give booking b
  ClaimRuns       \* whether the database takes the claim's statement: SQLite
                  \*   does; PostgreSQL refuses its FOR UPDATE, which names no
                  \*   table and so covers the nullable side of an outer join

NoJob == 0
Never == -1

ASSUME ReminderConstants ==
  /\ Booking \subseteq Nat \ {NoJob}
  /\ Lead \in [Booking -> Nat]
  /\ NoPhone \subseteq Booking
  /\ MaxSends \in Nat \ {0}
  /\ Cooldown \in Nat
  /\ Lease \in Nat \ {0}
  /\ SendTimeout \in Nat
  /\ BatchSize \in Nat \ {0}
  /\ StaffStatuses \in [Booking -> SUBSET BookingStatuses]
  /\ ClaimRuns \in BOOLEAN

\* httpx gives a Meta call ten seconds; the lease is five minutes.  The model
\* keeps only the order of the two.
ASSUME LeaseOutlivesCall == SendTimeout < Lease

MaxAge == IF Lease > Cooldown THEN Lease ELSE Cooldown

RowStatuses == {"absent", "pending", "failed", "sent", "cancelled", "skipped"}
ClosedStatuses == {"sent", "cancelled", "skipped"}
Pcs == {"idle", "sweeping", "claimed", "sending", "accepted", "refused"}

VARIABLES
  status,     \* bookings.status
  row,        \* booking_reminders.status, "absent" before the row exists
  attempts,   \* booking_reminders.attempt_count
  age,        \* ticks since booking_reminders.sent_at, Never when it is NULL
  wait,       \* ticks until booking_reminders.scheduled_for
  pc,         \* where each dispatcher is in dispatch_pending_reminders
  job,        \* the reminder each dispatcher holds, or NoJob
  seen,       \* seen_ids of each dispatcher's current sweep
  held,       \* ticks since the dispatcher claimed its job
  tx,         \* what each clerk's open transaction has read and will write
  accepted,   \* messages Meta has accepted, per reminder (history)
  late        \* those it accepted since the booking became final (history)

vars == <<status, row, attempts, age, wait, pc, job, seen, held, tx, accepted,
          late>>

dbVars == <<status, row, attempts, age, wait>>
history == <<accepted, late>>

\* pending: whether the reminder was seen pending, "unread" until it is looked
\* at.
NoTx == [booking |-> NoJob, to |-> "draft", pending |-> "unread"]
Txs == [booking : Booking \cup {NoJob}, to : BookingStatuses,
        pending : {"unread", "yes", "no"}]

InFlightPcs == {"claimed", "sending", "accepted", "refused"}
InFlight(d) == pc[d] \in InFlightPcs

TypeOK ==
  /\ status \in [Booking -> BookingStatuses]
  /\ row \in [Booking -> RowStatuses]
  /\ attempts \in [Booking -> 0..MaxSends]
  /\ age \in [Booking -> Never..MaxAge]
  /\ wait \in [Booking -> Nat]
  /\ pc \in [Dispatcher -> Pcs]
  /\ job \in [Dispatcher -> Booking \cup {NoJob}]
  /\ seen \in [Dispatcher -> SUBSET Booking]
  /\ held \in [Dispatcher -> 0..SendTimeout]
  /\ tx \in [Clerk -> Txs]
  /\ accepted \in [Booking -> Nat]
  /\ late \in [Booking -> Nat]
  /\ \A d \in Dispatcher : InFlight(d) => job[d] \in Booking

Init ==
  /\ status = [b \in Booking |-> "pending_ewash_confirmation"]
  /\ row = [b \in Booking |-> "absent"]
  /\ attempts = [b \in Booking |-> 0]
  /\ age = [b \in Booking |-> Never]
  /\ wait = Lead
  /\ pc = [d \in Dispatcher |-> "idle"]
  /\ job = [d \in Dispatcher |-> NoJob]
  /\ seen = [d \in Dispatcher |-> {}]
  /\ held = [d \in Dispatcher |-> 0]
  /\ tx = [c \in Clerk |-> NoTx]
  /\ accepted = [b \in Booking |-> 0]
  /\ late = [b \in Booking |-> 0]

-----------------------------------------------------------------------------
(* Staff. *)

\* confirm_booking_by_ewash: promotes the booking, whose row it locks, and,
\* unless one exists or its time is past, adds the reminder row.
Confirm(b) ==
  /\ status[b] = "pending_ewash_confirmation"
  /\ status' = [status EXCEPT ![b] = "confirmed"]
  /\ row' = IF row[b] = "absent" /\ wait[b] > 0
            THEN [row EXCEPT ![b] = "pending"] ELSE row
  /\ UNCHANGED <<attempts, age, wait, pc, job, seen, held, tx, history>>

\* transition_booking_status, on a booking the caller has read without a lock.
TransitionBegins(c, b, s) ==
  /\ tx[c] = NoTx
  /\ CanTransition(status[b], s)
  /\ tx' = [tx EXCEPT ![c] = [booking |-> b, to |-> s,
                              pending |-> IF s \in FinalStatuses
                                          THEN "unread" ELSE "no"]]
  /\ UNCHANGED <<dbVars, pc, job, seen, held, history>>

\* cancel_pending_reminders, which reads the reminders without a lock too.
ReadsReminders(c) ==
  /\ tx[c] # NoTx
  /\ tx[c].pending = "unread"
  /\ tx' = [tx EXCEPT ![c].pending =
              IF row[tx[c].booking] = "pending" THEN "yes" ELSE "no"]
  /\ UNCHANGED <<dbVars, pc, job, seen, held, history>>

\* The caller's transaction writes what it decided, over whatever committed in
\* between.
TransitionCommits(c) ==
  LET b == tx[c].booking
  IN /\ tx[c] # NoTx
     /\ tx[c].pending # "unread"
     /\ status' = [status EXCEPT ![b] = tx[c].to]
     /\ row' = IF tx[c].pending = "yes"
               THEN [row EXCEPT ![b] = "cancelled"] ELSE row
     /\ late' = IF tx[c].to \in FinalStatuses THEN late
                ELSE [late EXCEPT ![b] = 0]
     /\ tx' = [tx EXCEPT ![c] = NoTx]
     /\ UNCHANGED <<attempts, age, wait, pc, job, seen, held, accepted>>

TransitionRollsBack(c) ==
  /\ tx[c] # NoTx
  /\ tx' = [tx EXCEPT ![c] = NoTx]
  /\ UNCHANGED <<dbVars, pc, job, seen, held, history>>

-----------------------------------------------------------------------------
(* claim_next_due_reminder. *)

\* Faults: the lease ends a tick early; a claim that was once stamped is never
\* taken over.
LeaseOverEarly(b) == age[b] = Never \/ age[b] >= Lease - 1
LeaseNeverOver(b) == age[b] = Never

\* No in-flight marker, or one older than the lease.
LeaseOver(b) == age[b] = Never \/ age[b] >= Lease

Exhausted(b) == attempts[b] >= MaxSends

\* The row is still the one that was claimed: the early return the three
\* functions after the claim share.
Live(b) == row[b] = "pending"

\* The WHERE clause.
Eligible(b) ==
  /\ wait[b] = 0
  /\ status[b] = "confirmed"
  /\ \/ row[b] = "pending" /\ LeaseOver(b)
     \/ row[b] = "failed" /\ attempts[b] < MaxSends

Cooling(b) ==
  row[b] = "failed" /\ age[b] # Never /\ Cooldown > 0 /\ age[b] < Cooldown

\* ORDER BY scheduled_for, id
Before(a, b) == Lead[a] < Lead[b] \/ (Lead[a] = Lead[b] /\ a < b)

\* Fault: taking over a stale claim is not counted as an attempt.
CountFreshAttempt(b) ==
  IF row[b] = "pending" /\ age[b] # Never THEN attempts
  ELSE [attempts EXCEPT ![b] = @ + 1]

CountAttempt(b) == [attempts EXCEPT ![b] = @ + 1]

Candidates(d) == {b \in Booking \ seen[d] : Eligible(b)}
Claimable(d) == {b \in Candidates(d) : ~Exhausted(b) /\ ~Cooling(b)}

\* The exhausted rows a claim walks over on its way to the rows it may take.
WornOut(d, walked) == {b \in Candidates(d) : Exhausted(b) /\ walked[b]}

StartSweep(d) ==
  /\ pc[d] = "idle"
  /\ pc' = [pc EXCEPT ![d] = "sweeping"]
  /\ seen' = [seen EXCEPT ![d] = {}]
  /\ UNCHANGED <<dbVars, job, held, tx, history>>

\* One claim transaction that returns a candidate: the first claimable row is
\* stamped, and every exhausted row before it is failed on the way.
Claim(d, b) ==
  LET passed == WornOut(d, [c \in Booking |-> Before(c, b)])
  IN /\ ClaimRuns
     /\ pc[d] = "sweeping"
     /\ Cardinality(seen[d]) < BatchSize
     /\ b \in Claimable(d)
     /\ \A c \in Claimable(d) \ {b} : Before(b, c)
     /\ row' = [c \in Booking |-> IF c \in passed THEN "failed"
                                  ELSE IF c = b THEN "pending" ELSE row[c]]
     /\ attempts' = CountAttempt(b)
     /\ age' = [age EXCEPT ![b] = 0]
     /\ pc' = [pc EXCEPT ![d] = "claimed"]
     /\ job' = [job EXCEPT ![d] = b]
     /\ seen' = [seen EXCEPT ![d] = @ \cup {b}]
     /\ held' = [held EXCEPT ![d] = 0]
     /\ UNCHANGED <<status, wait, tx, history>>

\* The claim that finds nothing still fails the exhausted rows it walked over.
ClaimNothing(d) ==
  /\ ClaimRuns
  /\ pc[d] = "sweeping"
  /\ Cardinality(seen[d]) < BatchSize
  /\ Claimable(d) = {}
  /\ row' = [c \in Booking |->
               IF c \in WornOut(d, [a \in Booking |-> TRUE]) THEN "failed"
               ELSE row[c]]
  /\ pc' = [pc EXCEPT ![d] = "idle"]
  /\ seen' = [seen EXCEPT ![d] = {}]
  /\ UNCHANGED <<status, attempts, age, wait, job, held, tx, history>>

\* The claim raises: nothing of it is kept, and the invocation ends with it.
ClaimRaises(d) ==
  /\ pc[d] = "sweeping"
  /\ Cardinality(seen[d]) < BatchSize
  /\ pc' = [pc EXCEPT ![d] = "idle"]
  /\ seen' = [seen EXCEPT ![d] = {}]
  /\ UNCHANGED <<dbVars, job, held, tx, history>>

BatchDone(d) ==
  /\ pc[d] = "sweeping"
  /\ Cardinality(seen[d]) >= BatchSize
  /\ pc' = [pc EXCEPT ![d] = "idle"]
  /\ seen' = [seen EXCEPT ![d] = {}]
  /\ UNCHANGED <<dbVars, job, held, tx, history>>

-----------------------------------------------------------------------------
(* _send_one and the two mark functions. *)

\* _send_one up to the Meta call: the phone check, then
\* skip_reminder_if_booking_not_sendable in its own transaction.
Check(d) ==
  LET b == job[d]
      sendable == b \notin NoPhone /\ Live(b) /\ status[b] = "confirmed"
      retired == b \notin NoPhone /\ Live(b) /\ status[b] # "confirmed"
  IN /\ pc[d] = "claimed"
     /\ pc' = [pc EXCEPT ![d] = IF sendable THEN "sending" ELSE "refused"]
     /\ row' = IF retired
               THEN [row EXCEPT ![b] =
                       IF status[b] \in CancelledStatuses
                       THEN "cancelled" ELSE "skipped"]
               ELSE row
     /\ UNCHANGED <<status, attempts, age, wait, job, seen, held, tx, history>>

\* Meta takes the message.  The answer comes back, or is lost and the call
\* raises.
MetaAccepts(d) ==
  /\ pc[d] = "sending"
  /\ accepted' = [accepted EXCEPT ![job[d]] = @ + 1]
  /\ late' = IF status[job[d]] \in FinalStatuses
             THEN [late EXCEPT ![job[d]] = @ + 1] ELSE late
  /\ \E answer \in {"accepted", "refused"} : pc' = [pc EXCEPT ![d] = answer]
  /\ UNCHANGED <<dbVars, job, seen, held, tx>>

\* Fault: an exception of the client counts as a delivery.
MetaErrorSwallowed(d) ==
  /\ pc[d] = "sending"
  /\ pc' = [pc EXCEPT ![d] = "accepted"]
  /\ UNCHANGED <<dbVars, job, seen, held, tx, history>>

\* An error answer, or a request that never reached Meta.
MetaRefuses(d) ==
  /\ pc[d] = "sending"
  /\ pc' = [pc EXCEPT ![d] = "refused"]
  /\ UNCHANGED <<dbVars, job, seen, held, tx, history>>

\* Where a dispatcher goes when it is done with its job.
Release(d, next) ==
  /\ pc' = [pc EXCEPT ![d] = next]
  /\ job' = [job EXCEPT ![d] = NoJob]
  /\ held' = [held EXCEPT ![d] = 0]

\* mark_reminder_sent
MarkSent(d) ==
  LET b == job[d]
  IN /\ pc[d] = "accepted"
     /\ row' = IF Live(b) THEN [row EXCEPT ![b] = "sent"] ELSE row
     /\ age' = IF Live(b) THEN [age EXCEPT ![b] = 0] ELSE age
     /\ Release(d, "sweeping")
     /\ UNCHANGED <<status, attempts, wait, seen, tx, history>>

\* Fault: "sets status='failed' unconditionally".
MarkFailedAnyway(d) ==
  /\ pc[d] = "refused"
  /\ row' = [row EXCEPT ![job[d]] = "failed"]
  /\ Release(d, "sweeping")
  /\ UNCHANGED <<status, attempts, age, wait, seen, tx, history>>

\* mark_reminder_failed
MarkFailed(d) ==
  LET b == job[d]
  IN /\ pc[d] = "refused"
     /\ row' = IF Live(b) /\ status[b] = "confirmed"
               THEN [row EXCEPT ![b] = "failed"] ELSE row
     /\ Release(d, "sweeping")
     /\ UNCHANGED <<status, attempts, age, wait, seen, tx, history>>

\* The process running the invocation dies; only the database survives.
Crash(d) ==
  /\ pc[d] # "idle"
  /\ Release(d, "idle")
  /\ seen' = [seen EXCEPT ![d] = {}]
  /\ UNCHANGED <<dbVars, tx, history>>

-----------------------------------------------------------------------------
(* Time. *)

\* A live dispatcher never holds a claim longer than SendTimeout: the HTTP
\* client gives up first.
Tick ==
  /\ \A d \in Dispatcher : InFlight(d) => held[d] < SendTimeout
  /\ wait' = [b \in Booking |-> IF wait[b] > 0 THEN wait[b] - 1 ELSE 0]
  /\ age' = [b \in Booking |->
               IF age[b] = Never \/ age[b] >= MaxAge THEN age[b]
               ELSE age[b] + 1]
  /\ held' = [d \in Dispatcher |->
                IF InFlight(d) THEN held[d] + 1 ELSE held[d]]
  /\ UNCHANGED <<status, row, attempts, pc, job, seen, tx, history>>

-----------------------------------------------------------------------------

Staff(c) ==
  \/ \E b \in Booking : \E s \in StaffStatuses[b] : TransitionBegins(c, b, s)
  \/ ReadsReminders(c) \/ TransitionCommits(c) \/ TransitionRollsBack(c)

Dispatch(d) ==
  \/ StartSweep(d) \/ BatchDone(d) \/ ClaimNothing(d) \/ ClaimRaises(d)
  \/ \E b \in Booking : Claim(d, b)
  \/ Check(d) \/ MetaAccepts(d) \/ MetaRefuses(d)
  \/ MarkSent(d) \/ MarkFailed(d) \/ Crash(d)

Next ==
  \/ \E b \in Booking : Confirm(b)
  \/ \E c \in Clerk : Staff(c)
  \/ \E d \in Dispatcher : Dispatch(d)
  \/ Tick

Spec == Init /\ [][Next]_vars

\* Cron keeps firing, the event loop keeps running what is ready, Meta calls
\* end (the client times out) and the clock advances.  A claim is asked for
\* strong fairness: a process may die before its claim commits, but not every
\* time; a database that refuses the statement refuses it every time.  Staff,
\* crashes and Meta's verdict are free.
Fairness ==
  /\ WF_vars(Tick)
  /\ \A d \in Dispatcher :
       /\ WF_vars(StartSweep(d))
       /\ SF_vars(BatchDone(d) \/ ClaimNothing(d)
                    \/ \E b \in Booking : Claim(d, b))
       /\ WF_vars(~ClaimRuns /\ ClaimRaises(d))
       /\ WF_vars(Check(d))
       /\ WF_vars(MetaAccepts(d) \/ MetaRefuses(d))
       /\ WF_vars(MarkSent(d) \/ MarkFailed(d))

FairSpec == Spec /\ Fairness

-----------------------------------------------------------------------------
(* Properties. *)

\* The customer never gets more messages for one reminder than max_sends,
\* whatever crashes, lost answers and overlapping cron firings do: every
\* message is paid for by an attempt counted before the call, and a dispatcher
\* that has not called Meta yet still owns one unspent attempt.
DeliveriesPaidFor ==
  \A b \in Booking :
    LET unspent == \E d \in Dispatcher :
                     job[d] = b /\ pc[d] \in {"claimed", "sending"}
    IN accepted[b] + (IF unspent THEN 1 ELSE 0) <= attempts[b]

\* Two overlapping dispatch invocations never work on the same reminder
\* ("multiple cron firings don't double-send", reminders.py).
SingleSender ==
  \A d1, d2 \in Dispatcher :
    InFlight(d1) /\ InFlight(d2) /\ job[d1] = job[d2] => d1 = d2

\* A row is recorded as sent only if Meta accepted a message for it.
SentWasDelivered ==
  \A b \in Booking : row[b] = "sent" => accepted[b] > 0

\* Once a booking has become final its customer gets at most one more message:
\* the one already on its way.  Neither a reminder that a retry turns pending
\* while the cancellation is about to commit, nor a second dispatcher, nor a
\* transaction that moves the booking from one final status to another adds a
\* second.
AtMostOneLateMessage ==
  \A b \in Booking :
    LET onItsWay == \E d \in Dispatcher :
                      job[d] = b /\ pc[d] \in {"claimed", "sending"}
    IN IF status[b] \in FinalStatuses
       THEN late[b] + (IF onItsWay THEN 1 ELSE 0) <= 1
       ELSE late[b] = 0

\* A claim under way is younger than the lease: the in-flight marker of its row
\* is the one the dispatcher stamped, and until the dispatcher knows that it
\* was refused, the row is pending or was cancelled under it.
ClaimsAreFresh ==
  \A d \in Dispatcher :
    InFlight(d) =>
      /\ age[job[d]] = held[d]
      /\ row[job[d]] \in {"pending", "cancelled"}
           \cup (IF pc[d] = "refused" THEN {"skipped"} ELSE {})

\* A dispatcher that is about to stamp "sent" has had a message accepted.
AnswersAreReal ==
  \A d \in Dispatcher : pc[d] = "accepted" => accepted[job[d]] > 0

\* An open transaction moves a booking of the table, and it found a reminder
\* pending only if there is a row.
TransactionsAreOfRows ==
  \A c \in Clerk :
    /\ tx[c].booking = NoJob => tx[c] = NoTx
    /\ tx[c].pending = "yes" => row[tx[c].booking] # "absent"

\* The inductive invariant of Reminders_proofs: the properties above and the
\* three facts they rest on.
IndInv ==
  /\ TypeOK
  /\ ClaimsAreFresh
  /\ AnswersAreReal
  /\ TransactionsAreOfRows
  /\ SingleSender
  /\ DeliveriesPaidFor
  /\ SentWasDelivered
  /\ AtMostOneLateMessage

\* Meta is never handed a message for a row that another dispatcher has
\* already settled; only a cancellation may overtake a call under way.
NoDeliveryOnSettledRow ==
  [][\A b \in Booking :
       accepted'[b] # accepted[b] => row[b] \in {"pending", "cancelled"}]_vars

Settled(b) ==
  row[b] \in ClosedStatuses \/ (row[b] = "failed" /\ Exhausted(b))

\* A due reminder of a booking that stays confirmed is eventually sent, or
\* recorded as failed with its attempts used up: no crash, lost answer or
\* exhausted neighbour leaves it pending for ever.
DueReminderSettles ==
  \A b \in Booking :
    (row[b] \in {"pending", "failed"} /\ wait[b] = 0 /\ status[b] = "confirmed")
      ~> (Settled(b) \/ status[b] # "confirmed")

(* The promise of ReminderContract, which the subsystem implements. *)
Contract ==
  INSTANCE ReminderContract WITH
    phase <- [b \in Booking |->
                IF row[b] = "absent" THEN "none"
                ELSE IF row[b] \in ClosedStatuses THEN "closed" ELSE "open"],
    tries <- attempts,
    delivered <- accepted

\* Every behaviour of the dispatchers, the staff and the clock is a behaviour
\* of the contract.
ImplementsContract == Contract!Spec

=============================================================================
