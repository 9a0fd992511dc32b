# Ewash in TLA+

Formal models of the Ewash booking service: a FastAPI process (`app/`) that
takes car-wash bookings over WhatsApp and from a PWA (`mobile-app/`), stores
them in PostgreSQL, alerts staff, and reminds customers before the appointment.
TLC checks the models on small instances; TLAPS proves the theorems of the
`*_proofs` modules for every value of the constants.

    tlc -workers 2 -config Reminders_queue.cfg MCReminders
    tlapm Reminders_proofs.tla

The other runs are in the table of section 3. Every component has a proof
module, `<component>_proofs`.

`PROJECT.json` lists the runs, the definitions with the source lines they
translate, the hazards of the code with the properties that watch them, one
mutation of the code per property that the property catches, and the findings.

## 1. The system

### How it runs

* One `uvicorn app.main:app` process (`Procfile`), one event loop. Handlers are
  `async`, database access is synchronous: between two `await`s nothing else of
  the process runs. The only awaits that matter are calls of the Meta API.
* Processes overlap all the same: the old and the new one during a redeploy, two
  firings of the cron that posts to `/internal/reminders/dispatch`.
* `session_scope` is one transaction (READ COMMITTED): commit at the end,
  rollback on an exception. What is not in it is lost in a crash; what the
  process remembers between two of them may be stale.
* A Meta call ends after at most ten seconds, with an answer, an error, or an
  answer that is lost. A webhook is always answered 200, so nothing is retried
  by Meta; the PWA retries nothing by itself, its customer does.

### The parts

| Part | State | Operations | Hard behaviour | What makes it correct | Model |
|---|---|---|---|---|---|
| Booking lifecycle (`models.py`) | `bookings.status` | `transition_booking_status`, `confirm_booking_by_ewash` | a final status reached while a reminder is out, or turned pending again | only listed transitions; at most one message after the end | `BookingStatus`, `Reminders` |
| Reminders (`reminders.py`, `persistence.py`) | reminder row: status, attempts, stamp | claim, check, send, mark | overlapping invocations, crash between send and mark, lost answers, cooldown, exhausted rows in the queue | nobody double-sends; every message is paid for; nothing settled is reopened; everything due settles | `Reminders`, `ReminderContract` |
| References (`persistence.py`, `booking.py`, `db.py`) | yearly counter row, process counter | `assign_booking_ref`, boot backfill, insert | overlapping processes, locks held over statements, failing database, New Year | a reference given to a customer is that customer's booking | `BookingRefs` |
| Conversation (`handlers.py`, `state.py`) | in-memory Session, bookings, bot stage | 22 states, one handler each | other messages while a handler awaits Meta; failing calls and writes; restart, expiry | stored bookings are complete and priced by their code; a reference that is told has a row | `Conversation` |
| PWA booking (`booking.jsx`, `api.js`, `api.py`) | draft, client_request_id, token; rows | submit, replay, create, mint, edit, resume | timeouts while the server goes on, resubmission, crash between transactions, two processes | one booking per attempt; nobody sees somebody else's; retry gets the answer | `ApiBooking` |
| Staff alerts (`notifications.py`) | none | `notify_booking_confirmation` | written from an object that may have changed | the PWA's alerts are of stored bookings, once | in `Conversation`, `ApiBooking` |
| Customer tokens (`security.py`, `persistence.py`) | `customer_tokens` | mint, verify, revoke one, revoke all | revocation and mint in two transactions, an erasure under way | an erased phone's tokens open nothing; tokens stay few | `CustomerData`, `ApiBooking` |
| Erasure (`persistence.anonymize_customer`) | all rows of a phone, the tombstone | delete, scrub, rename or merge | rows inserted between the deletion and the commit; a second erasure of the same phone | nothing old is found under the phone; what the tombstone keeps has no details | `CustomerData` |
| Booking list (`persistence.py`, `api.py`) | none (cursor at the client) | pages, newest first | equal creation times, bookings and erasures during the walk | no booking skipped or repeated | `CustomerData` |
| Funnel (`persistence.py`, `main.py`) | session rows, bot stage, abandonment | track, sweep | sweep against a new message | the stage shown is the current one | stage in `Conversation`, session rows in `CustomerData`; sweep not modelled |
| Cash ledger (`cash_ledger.py`, `handlers.py`, `admin.py`) | entries, audit events | read a text, note, tell, review | Meta call inside the transaction, overlapping notes, redelivery | kept entries were told, once; the audit trail is complete; the balance told is the ledger's | `CashLedger` |
| Webhook, Meta client (`main.py`, `meta.py`) | seen message ids | receive, dedupe, send | recorded as seen before it is handled | no message handled twice | call outcomes in the models; dedupe in `CashLedger` |
| Catalog (`catalog.py`, `admin.py`, `api.py`) | price and promo rows over a static catalogue; the PWA's copy | price form, promo form, bootstrap with ETag | overlapping edits, edits between two readings, failing readings, an ETag that need not move | what the booking screen shows settles on what the database says | `Catalog` |
| Dates and slots (`api_validation.py`, `api.py`, `handlers.py`) | closed dates, active slots | offer, list, check | time and staff move on between choice and submission; closed days inside a lead time; failing readings | a booking of the PWA is in time; list and check agree | `Appointments` |
| Add-ons (`persistence.py`) | line items, totals | add, accumulate | -- | re-picked add-ons count once | upsell in `Conversation`; totals not modelled |
| Rate limits, tracking, payroll import, website, the portal's pages | -- | -- | request/response rendering, libraries, single inserts | -- | not modelled |

The parts meet in the database (all of them), in the `Booking` object a handler
shares with the alert it writes, and in the two counters of the references.

## 2. The modules

### BookingStatus

`BOOKING_STATUSES`, `FINAL_BOOKING_STATUSES` and `ALLOWED_STATUS_TRANSITIONS` as
sets and a relation.

### Reminders, ReminderContract, Reminders_proofs

`Reminders` is `confirm_booking_by_ewash` (a booking gets one reminder, two
hours before the appointment), `transition_booking_status`, and the loop of
`dispatch_pending_reminders`. A status change is a transaction of a `Clerk`:
`TransitionBegins` reads the booking without a lock, `ReadsReminders` the
reminders (`cancel_pending_reminders`), `TransitionCommits` writes what was
decided, over whatever committed in between. Of the loop, `Claim` stamps and counts the first eligible row
and fails the exhausted rows it walks over; `Check` is the phone test and
`skip_reminder_if_booking_not_sendable`; `MetaAccepts` and `MetaRefuses` are the
call (an accepted message may come back as an exception); `MarkSent` and
`MarkFailed` record it; `ClaimRaises` is a claim that fails, `Crash` loses what
the invocation knows. The other transactions are one action each. Time is relative (ticks until due, ticks since the
stamp); a stamp's age stops growing where no comparison changes any more.

`ReminderContract` says the same without clock, lease or dispatcher: opened
once, at most `MaxSends` attempts while open, every message paid for by an
attempt, closed for good. `Reminders` implements it (`ImplementsContract`) under
the mapping of statuses to phases, attempts to tries, accepted messages to
deliveries.

The claim's query asks for `FOR UPDATE SKIP LOCKED` over an outer join of the
rule, which PostgreSQL refuses. `ClaimRuns` says whether the database runs it:
with FALSE every claim raises (the finding `reminders_postgres`), with TRUE the
model is what the code does on a database that runs the query, or once the lock
names its table. A claim is one action, so two claims never see each other
half-way. The rule named `H-2` is
looked up even when disabled; the model has one rule with its limits.
`transition_booking_status` is called by tests and meant for staff tools; all
of its table is allowed at any time, by any number of clerks. The three functions
that run after the claim read and write without a lock: each is one action here,
so a cancellation of another process between their read and their commit is not
covered.

### BookingRefs, BookingRefs_proofs

`assign_booking_ref` in the statements another process can come between:
`ReadFloor` (the highest stored reference), `Reserve` (upsert and update of the
counter row, which an API request keeps locked until its commit), `AssignRef`
(`Booking.assign_ref`, with its second reading of the clock and the process
counter), `Lookup` and `Insert`. `ReserveFails` is the except branch that leaves
a WhatsApp booking with the process counter. `Backfill*` is the counter
backfill of `init_db`, `Crash` a restart. A WhatsApp booking is reserved and
stored in two transactions, an API booking in one. `init_db` also runs when an
admin form cleared the catalogue's engine; that backfill in a process that is
serving is not modelled.

### Conversation, Conversation_proofs

One phone. An action is a message with its handler up to the first Meta call,
or the end of a call with the rest of the handler up to the next one. While a
handler waits, up to `MaxOvertakes` other messages of the phone are handled.
A handler keeps the Session object it started with: when `state.reset` gives the
phone a new one, the waiting handlers are `Detached` and their late assignments
go nowhere -- but a late `state.reset` removes whichever Session there is. Of a
Booking the model keeps which questions are answered, the lane, the promo code,
the grid its price came from, the add-on and the reference. `ConfirmYes` takes
any reference: a fresh one from the counter, or, after a failed reservation, one
that the process counter repeats. `AddRow` leaves a row that is there alone, the
customer's own or another's (`OtherRow`, which `AnotherBooks` stores), and the
handler goes on all the same. Reading failures,
changing promo tables and the owner's cash messages are left out. Duplicate
deliveries are dropped before dispatch and do not appear.

### ApiBooking, ApiBooking_proofs

A browser and the server processes behind it. The flow's data with its
`client_request_id` is `draft` (it survives a reload unless a confirmation is
shown), the confirmation is `screen`, the stored token `held`. `Submit` is
`submitBooking` of `booking.jsx` and `api.js`; then `create_booking`, one action
per `session_scope`: `Lookup` (replay by key and phone), `Create` (one
transaction, refused by the partial unique index when the key is taken, then
`LookupAgain`), `Verify`, `Peek`, `Mint`. A submission that timed out goes on
unheard. The submit button is blocked by the recap's own state, so leaving the
recap and coming back allows a second submission while the first is awaited,
and an error answer of either brings the recap back over a confirmation.
`attempt` is a history field: which booking the customer set out to make.

The unique index exists on PostgreSQL only (migration `20260514_0006`); a
database without it is not modelled. Limits and validation are one refusal.
References are just distinct here; `BookingRefs` is about them; revocation is in
`CustomerData`.

### CashLedger, CashLedger_proofs

A message goes from `new` to `seen` when its inbound row is committed
(`persist_whatsapp_inbound_message`, whose key drops a repeated delivery), then
either to the booking dialogue or through `_try_capture_cash_ledger_message`:
`Capture` inserts and flushes the entry and sums the balance in one transaction,
`MetaAccepts` is the moment the owner reads it, `Commit` the end of
`session_scope`, `RollBack` every way out of it by an exception. `NewEntry` is
the reading of a text: the first word list that matches gives the type, type and
keyword the category. A text is the word lists it hits, its amount and its
keyword. `Review` is the portal's filing under a category.

Any number of messages may be with Meta at once; each transaction sees the
committed entries and its own. Reviews are one action: the model has the one
process that serves them (two processes that review one entry in the same moment
would both start from the same snapshot). `correct_cash_ledger_entry`,
`parse_cash_ledger_intents` and the reconciliation table have no caller.

### CustomerData, CustomerData_proofs

One phone, its tombstone `DEL-<hash>`, and everything the database has about
them. A step is one transaction, except the erasure, which is `EraseBegins` (rows
deleted and scrubbed, not committed: `Cut`) and `EraseCommits` or
`EraseRollsBack`. Between them the other process works at READ COMMITTED: it
does not see uncommitted changes; an update of a row that is being deleted
waits, an insert does not. The commit is a rename of the customer (tokens and
bookings follow by foreign key, names, vehicles and sessions do not and make it
fail: `InTheWay`) or, when the tombstone exists, a merge, which deletes the
customer and what hangs on it. `born` counts the erasures begun and ended before
a row was written; it is what the properties compare with.

`details` of a booking are the fields the erasure clears: name, car, colour,
addresses, coordinates, note, raw booking. `bookings.geo`, the home pin as text,
is not among them and outlives every erasure. Left out is an erasure asked for
with a token of the tombstone, which renames the tombstone once more.

Identity rows are only there or not; profile fields, the vehicle list and
`booking_count` are left out. `ListBookings` and `NextPage` are
`GET /bookings` by a client that follows the cursor; `ReadPage` picks the newest
rows below the cursor as a set, which is what the ordered query with its limit
returns. A token that an erasure
moved to the tombstone goes on working for the tombstone, as in the code.

### Appointments, Appointments_proofs

Time in half hours. `BusinessLeadCutoff` is the walk of `_business_lead_cutoff`
as a recursive function of where the walk stands and what remains of the four
hours, `ValidateSlotAndDate` the checks of `create_booking` in
their order, `SlotsWithLeadFilter` the slot list. Staff close days and slots at
any moment. `list_closed_dates` and `list_time_slots` answer a failed reading with
the static catalogue, so a reading is one of `ListClosedDates` or
`ListTimeSlots`; a submission makes three (`Submit`: closed days, slots, and the
closed days again in the walk), each true or static on its own. A day or slot
that staff closed in the database can be booked when the reading of it fails; the
properties say what holds of the readings. The walk's error after 370 days is
excluded by `WalkEnds`: fewer days can be closed than that. The PWA's choice (`PickInApp`) uses the device's own copy of the
rules, with its clock on Casablanca's time; `Submit` repeats the check on the
server. The WhatsApp dialogue offers open days, then every active slot; its
confirmation checks nothing again, and no property claims that it does.

### Catalog, Catalog_proofs

One service in one car category, a code of the static catalogue and one that
staff create, one PWA, any number of processes with a portal. `PublicPrice`,
`NormalizePromoCode`, `PromoPrice` and `DiscountedPrice` are the functions of the
code, each with its own transaction that may fail and fall back to the static
catalogue (`down`).

An edit is a form in steps: the promo form reads the public price
(`SubmitPromoForm`, which may get the static one, so that an unchanged cell is
saved as a discount), begins its transaction and reads (`BeginPromoCode`,
`BeginPublicPrice`), and commits (`CommitPromoCode`, `CommitPublicPrice`). The
stamp of its rows is the order in which transactions began, as `now()` is, not
the order of the commits. A promo form that commits deletes the discounts it
found and inserts its own; one committed meanwhile may stay.

`EtagSeed` joins the newest stamps of the tables. A bootstrap request is `ReadCode`
and `ReadSeed` (the ETag), then, unless it matches, the readings of the body one by
one: `CollectServices`, `ReadDiscount`, `ReadPublic`, `ReadRegular`. `UseCopy` is the
304, `StoreCopy` the 200, `Lost` any failure in between. `Tick` lets requests and
copies age; a copy older than `Ttl` is deleted before the next request.

## 3. What is checked

| Run | Distinct states | Question | Properties |
|---|---|---|---|
| `reminders_queue` | 565 thousand | two reminders, one unsendable, two overlapping invocations, a staff transaction that reads before it writes, the whole lifecycle, cooldown longer than the lease, fairness | `DeliveriesPaidFor`, `SingleSender`, `AtMostOneLateMessage`, `SentWasDelivered`, `NoDeliveryOnSettledRow`, `ImplementsContract`, `DueReminderSettles` |
| `reminders_postgres` | finding | a database that refuses the claim's query | `DueReminderSettles` is violated |
| `refs_overlap` | 213 thousand | two processes, backfill over older rows, crashes, no constraint | `GivenRefIsOwn`, `RefsAreUnique`, `ApiLosesNoNumber`, `ReservedAboveStored` |
| `refs_degraded` | 901 thousand | failing reservations and New Year, one process, a backfill that has to catch up | `TypeOK`, `ApiRefIsOwn`, `CounterNeverFalls` |
| `refs_fallback` | finding | one failed reservation | `GivenRefIsOwn` is violated |
| `conversation_overlap` | 537 thousand | every state and failure, restarts, a second message while a handler waits, a reference that is taken already | `TypeOK`, `RowsAreComplete`, `PricesMatchPromo`, `ToldIsStored`, `StageIsCurrent` |
| `api_retry` | 1.7 million | resubmission with timeouts, crashes, edits, two processes | `OneRowPerAttempt`, `ConfirmedIsStored`, `TokensStayFew`, `AlertedOnce`, `RetryConfirms` |
| `api_stale_key` | finding | a changed booking after a confirmation | `ConfirmedIsOfThisAttempt` is violated |
| `cash_notes` | 654 thousand | overlapping notes, redelivery, lost answers, crashes, reviews | `KeptEntriesWereTold`, `AuditRebuildsLedger`, `LastBalanceToldIsCurrent` |
| `customer_erasure` | 4.4 million | two erasures of a phone that goes on booking, with a walk of its list | `TypeOK`, `ErasureIsComplete`, `DetailsAreCleared`, `PagesShowAll` |
| `appointments_notice` | 1.2 million | choice and submission with a moving clock, an edited catalogue and failing readings | `HomeLeadIsFourOpenHours`, `ListedSlotsAreAccepted`, `AppBookingsAreInTime` |
| `catalog_admin` | 1.9 million | overlapping edits and bootstrap requests with failing readings and an ageing copy | `SettlesWithinADay` |

### Bounds

* Reminders: dispatchers meet on a row, and two make every pair; the second row
  can stand in the way of the first, due later and never sendable. Two attempts
  with a lease of two ticks and a call of one let a takeover, a retry and
  exhaustion follow each other; the cooldown is longer than the lease so that
  both waiting periods occur. One clerk's transaction, over the first booking,
  overlaps the retry of its reminder. The proofs cover every other size.
* References: three requests (two WhatsApp, one API) on two processes are the
  smallest instance with a reservation, a second one overtaking it and a
  rollback; one older row above a hole makes the backfill and the floor matter.
  With the failing database the constraint is on and one process runs, which is
  the case the code claims to survive.
* Conversation: one reference, which is the customer's or somebody else's
  before, and for which two handlers compete. One message may overtake a call; the
  proofs cover up to four, with any number of handlers. Five is where it ends:
  with two promo codes waiting, the customer would have to choose a service,
  answer four questions and tap *Modifier* within one ten-second call for the
  late state `BOOK_SERVICE` to let an incomplete booking reach the database.
* PWA: two submissions under way, two processes, two phones, two attempts, two
  faults (a timeout and a crash, say, or a reload between two timeouts). More
  faults only repeat; the safety properties held with three as well.
* Cash: three notes are two that overlap and one that comes later, in one ledger;
  two deliveries of each; two audit events make one review per entry, for which
  the history property is about each consecutive pair. Five texts reach every
  branch of the reading. The messages are interchangeable (symmetry).
* Erasure: two erasures are a rename and a merge into its tombstone, each with
  all the phone does in the other process; three bookings with two creation times
  and pages of one give a tie across a page boundary and bookings made during the
  walk. Processes and tokens are interchangeable.
* Appointments: three days, any of them closed, the middle one in the static
  list, and a clock of two days from midnight, so a cutoff can start before, in
  and after opening hours and pass a closed day; a static slot two hours after
  opening, so that four hours of service before it begin on another day, and an
  id that names no hour. Two edits fit between a choice and its submission.
* Catalog: two edits are two that overlap, or one before and one under a request;
  two prices tell the static price and a discount apart; a copy and a request of
  one tick each, with `quiet` counted to their sum, let a copy be confirmed
  once and expire. Two processes are interchangeable (symmetry).

### Fairness

* `Reminders!Fairness`, on a database that runs the claim's query: cron keeps firing and the clock advances; a dispatcher
  goes on (the event loop runs what is ready, the HTTP client gives every call an
  end). Claims get strong fairness: a process may die before its claim commits,
  not each time for ever. Staff, crashes and Meta's verdicts are free. On a
  database that refuses the query the same fairness makes every claim raise.
* `ApiBooking!Fairness`: the customer goes on submitting, and a submission under
  way is served and answered. Failures are bounded by `MaxFaults`, which is the
  assumption that they end. Nothing forces the customer to stay on the recap.
* All other runs check safety only.

### Findings

1. `refs_fallback`: a failed WhatsApp reservation after a restart reuses a stored
   reference, and the booking is taken for already stored.
2. `api_stale_key`: the PWA keeps the key of a confirmed booking; a changed
   booking sent from there is answered with the old one.
3. `reminders_postgres`: the claim asks for `FOR UPDATE` over the nullable side of
   an outer join (`persistence.py:1301-1328`). PostgreSQL refuses such a statement,
   so every claim raises there and no reminder is sent; SQLite, which the tests
   use, gets no `FOR UPDATE`. `reminders.py:3-16` describes the claim as what keeps
   the dispatcher safe on PostgreSQL. `FOR UPDATE OF booking_reminders` would do.

Disagreements with a comment or docstring that no run is spent on:

* `mark_reminder_sent` (`persistence.py:1397-1400`) promises to stamp `sent` when
  the booking was cancelled under the call; the cancellation has already moved
  the row out of `pending` and the function returns early.
* The upsell is meant to be post-confirmation (`state.py:9-10`); *Modifier* tapped
  while a confirmation waits for Meta puts the restarted conversation into the
  upsell without a booking (`handlers.py:796-800`). The model has these
  behaviours, so no property says that the upsell follows a booking.
* "Any admin edit invalidates the seed" (`catalog.py:824-825`): a discount taken
  off one code after a discount of another was saved leaves the newest stamp where
  it was, and an edit that began before the newest and commits after it does not
  move it either. The server answers 304 to a copy that is wrong. `Catalog` has
  both; with the claim stated as an action property TLC finds either. What
  does hold is `SettlesWithinADay`: no 304 prolongs the copy's lifetime.
* "Only changed values are saved as discounts" (`admin_i18n.py:226`): when the
  public price changes between the loading of the form and its submission, or its
  reading fails and the static price is returned (`admin.py:1682`), unchanged
  cells become discounts (`SavedAsDiscount`).
* "No PII remains" (`api.py:1319-1322`): no erasure clears `bookings.geo`
  (`persistence.py:2124-2135`), which holds the name, address and coordinates of
  the home pin (`booking.py:39`, `persistence.py:895`). And a booking committed by
  another process under the second erasure of a phone is moved to the tombstone
  as it is (`persistence.py:2158`), which is `MovedByAMerge` in
  `DetailsAreCleared`.

Hazards that the code does not guard against and no document speaks of:

* Conversation: an alert written after *Modifier* tells of the new Booking; a
  second tap on *Confirmer* during the first one's acknowledgement, or after an
  acknowledgement that raised, stores a second row; an add-on is announced from
  the Booking the handler kept although its row may not have it; a reference told
  after a failed reservation may have another customer's row (`ToldIsStored`
  says that there is one, `refs_fallback` whose it may be).
* References: with two processes and a failed reservation the backfill of the
  one can write an older value over a counter that the other has moved on
  (`db.py:327-329`). `CounterNeverFalls` holds with one process.
* Appointments: the closed days and the slots of the database are not in force
  while their reading fails (`catalog.py:477-478`, `511-512`).

Observed and not counted as findings, as nothing in the repository promises
otherwise: the retry of a lost first answer gets an empty token, so the device
cannot list its booking (`api.py:495`; `api.js` and `plan.md:151` speak of a
canonical token in every answer); the alert of a booking is lost when the
process stops after the response; a draft whose phone is corrected after its
booking was stored gets an error for every submission; the total in the staff
alert counts the first add-on; a cash note whose accepted reply is not answered
is rolled back although the owner read it; two overlapping notes each tell a
balance without the other; messages and attached files of an erased customer
(`whatsapp_messages`) are not part of the erasure; a body built while a reading
fails is stored under the live ETag; a code switched off in the database
validates while the database fails; a slot id without an hour passes the
device's filter as midnight and is refused by the server; WhatsApp bookings are
not checked for lead time or a day closed since it was offered.

## 4. What is proved

### Reminders_proofs

`Reminders_proofs` (930 obligations) proves, for all sets of bookings,
dispatchers and clerks, whether or not the claim's query runs, all leads, limits, cooldowns, batch sizes and staff statuses:

* `TypeCorrect`, `InductiveInvariant`,
* `OneSenderPerReminder`, `EveryDeliveryIsPaidFor`, `AtMostMaxSends`,
  `SentMeansDelivered`, `OneMessageAfterTheEnd`,
* the action property `DeliveriesOnOpenRowsOnly`,
* `RemindersImplementContract`: every step is a step of the contract or leaves it
  alone.

Assumptions: `ReminderConstants` (the ranges of the constants) and
`LeaseOutlivesCall`. The second is what the design rests on: a claim is held for
the ten seconds of a Meta call at most, the lease is five minutes.

The argument: `SingleSender` alone is not inductive, since nothing in it keeps a
second dispatcher from claiming a row that is in somebody's hands.
`ClaimsAreFresh` does: the age of a held row's stamp is the time it has been
held, so less than the lease, and the row is not `failed`, so it is not eligible
(`HeldIsNotEligible`). With one sender per row, the attempt counted by its claim
is its own, and `DeliveriesPaidFor` is inductive with the term for the attempt
not yet spent. `SentWasDelivered` needs `AnswersAreReal`, the memory of a
dispatcher whose call succeeded. `AtMostOneLateMessage`
counts the message on its way with those accepted since the end. A booking may
end with a row that a retry has just turned pending, since the staff transaction
looked before; but a claim asks for a confirmed booking, so after the end no
reminder is claimed, and before it there is one sender at most. `IndInv` is the conjunction; one lemma per
group of actions shows that it is preserved. `IndInv` held on
small instances before it was proved.

### ApiBooking_proofs

`ApiBooking_proofs` (1424 obligations) proves, for all sets of devices and
phones, any number of overlapping submissions and server processes, of bookings
set out to and of faults: `TypeCorrect`, `InductiveInvariant`,
`OneBookingPerAttempt`, `NobodyElsesBooking`, `ReplaysMintFew` and the action
property `StaffAlertedOnce`. The only assumption is `ApiConstants`, the ranges of the
constants.

The argument: `OneRowPerAttempt` says nothing of what is still under way. `Keyed`
collects the attempt and the key wherever they are written down -- rows, drafts,
submissions -- and `KeysIdentifyAttempts` says that an attempt never has two
keys. Only `Start`, and `Edit` after a confirmation, put a new pair there, and
their attempt is new (`NewAttemptKeeps`); every other step copies pairs
(`KeyedShrinks`). With the unique index, equal attempts have equal keys and
equal keys equal rows. `ConfirmedIsStored` needs `AnswersAreStored`, the same
of a submission that has its booking and has not answered. `AlertedOnce`
needs `CreatorsAlert`: references grow with the rows, so the reference of a row
that its creator has not alerted of yet is neither among the alerts nor
another creator's. Steps that store, answer and alert nothing are one lemma
(`QuietInv`), the transaction and the replay another (`BooksInv`), the response
a third (`RespondsInv`).

`TokensStayFew` compares two cardinalities and is not inductive: a submission
that has read its booking and is about to mint adds a token later, whatever the
bound says now. `MintsAreCounted` lets it count from the moment it is let
through. A new row raises the bound by one and lets one submission through; a
replay is let through only when its reading saw no token of the phone, and then
the tokens to come are at most those of the other servers.

### CashLedger_proofs

`KeptNotesWereTold`, `BalanceToldIsCurrent` and the completeness of the audit trail (`AuditIsComplete`),
`TypeCorrect` and `InductiveInvariant`, for all messages, texts and keywords and
any number of deliveries and reviews, from the assumptions on the constants only
(`TextsAssumption`, `KeywordsAssumption`, `BoundsAssumption`,
`NoEntryAssumption`).

The argument: what a commit appends is the entry of a handler that is with Meta,
so `OpenWhileCalling` says that it is an entry at all; `AcceptedWereTold` that
the owner has read its reply; and `OneEntryPerMessage` identifies a message in
phase `noted` with its only entry, so that a handler that has not ended cannot
have one. The audit property is inductive as it stands: `CreationRebuilds` and
`ReviewRebuilds` are what appending to a history preserves, for the entry that is
appended, for the one reviewed, and for those before them.

The balance told with the newest entry is the ledger's for a note that overlapped
no other. `ReplyIsOwnBalance` says that such a note is the only one with Meta and
that what it computed is still the sum; `ToldIsReply` that this is what the owner
read. The sum is a recursive function over the ledger: that it exists, that it
grows by the entry that is appended, and that a review, which changes no amount,
leaves it alone are lemmas of the module.

### Appointments_proofs

`Appointments_proofs` (772 obligations): `TypeCorrect`;
`HomeNoticeIsFourOpenHours`, what the business-hours cutoff computes;
`ListAgreesWithCheck`, the agreement of the slot list with the check of a
submission; `AppBookingsInTime`, the action property that a booking of the PWA is
in time at the moment it is taken, by the three readings its submission made.
They hold for any days closed, any slots, any static catalogue, any failing
readings and any clock, from `SlotsAssumption`, `DaysAssumption` and
`NothingIsNoError`.

The argument: the walk has a closed form, `WalkEnd`, in terms of the next day
that is open. `WalkEndSolves` says that it satisfies the equation of the
recursive function, `SolutionIsWalkEnd` that nothing else does, so the `CHOOSE`
behind the function is it. `WalkEnd` then leaves exactly four hours of service
behind `now`, and not one moment sooner.

### CustomerData_proofs

`CustomerData_proofs` (997 obligations), for any number of processes, tokens,
bookings, erasures and creation times and pages of any size: `InductiveInvariant`,
`TypeCorrect`, `NothingOldIsFound`, `DetailsLeaveWithTheFirstErasure`, `WalksAreComplete`, and
the action property `ErasureIsFinal` (what an erasure has scrubbed or moved to
the tombstone never comes back to the phone).

The argument: every row knows the era it was written in. `ErasuresInOrder` ties
the eras of the erasures under way and done to each other, and `BornByNow` says
that no row is from the future; together they say that a row written since the
cut is `Fresh`, and only those survive a commit at the phone. A merge needs that
nothing but a session stands in its way; a rename needs `BookingsHaveNames`, that
a booking at the phone has its customer. The walk is about a different thing:
`WalkIsSorted` says that what is not yet shown of the bookings watched is below
the cursor and what is shown is not; the tie of equal creation times is broken by
the id on both sides.

### BookingRefs_proofs

`BookingRefs_proofs` (1626 obligations). `TypeCorrect` holds without more than the
ranges of the constants. The rest is in two halves, as the code is safe for two
different reasons:

* `OneProcess` (any two processes are the same; `refs_degraded` is an instance),
  with any number of failed reservations, crashes and years: `SerialInvariant`,
  `ApiCustomersOwnTheirRef`, `RisingInvariant`, `CountersOnlyRise`. Nothing is
  stored between the reading of the floor and the insert of a request
  (`OneByOne`). A failed reservation leaves a reference above the counter, and the
  next start's backfill raises it; no request runs meanwhile, so what it writes
  is above what it found (`Rising`).
* `NoFallback` (no reservation fails and the year does not turn; `refs_overlap` is
  an instance), with any number of overlapping processes, requests, older rows
  and crashes, with or without the unique constraint: `OverlapInvariant`,
  `CustomersOwnTheirRef`, `NoTwoShareARef`, `ApiGivesNumbersBack`, `ReservedIsAbove`.

Neither hypothesis can be dropped: `refs_fallback` violates `GivenRefIsOwn` with
one process and one failed reservation, and `refs_degraded` with a second process
violates `ApiRefIsOwn`, when a fallback of one process is inserted after the other
one has read its floor, and `CounterNeverFalls`, when a backfill that found the
counter behind writes after the other process has gone on.

The argument of the second half: a floor may be as old as one likes, but it
covers the older rows, which are all there is to cover before the counter row
exists (`ReadingsCoverLegacy`), and from then on the counter covers everything
(`CountersCoverRows`). A number above the counter belongs to an open transaction,
which holds the row's lock (`NumbersAreIssuedOnce`), so the next number is
nobody's. A stored row is an older one or the row of the request that was issued
its number (`RowsAreIssued`).

### Catalog_proofs

`Catalog_proofs` (666 obligations), for any processes, codes, prices, edits,
failures and lifetimes: `InductiveInvariant`, `TypeCorrect` and the action property
`PricesSettle`. `quiet` is the time since an edit committed or a reading of a body
failed. `FetchIsQuiet` says of each stage of a request sent since then that what it
has read is what the database says; `CopyIsQuiet` the same of a copy whose
request was sent since then, which is any copy young enough for the time that has
passed; `NamedInDate` that the copy a 304 confirms was in date when the request
named it. None of this needs the ETag to mean anything, and the ETag may well
not move.

### Conversation_proofs

`Conversation_proofs` (2044 obligations), for any number of handlers under way and
of references:

* without any hypothesis: `ConversationInvariant`, `TypeCorrect`,
  `AcknowledgedIsStored`, `StageFollows`. A handler that acknowledges a reference
  has found or made its row (`AcksHaveRows`), and a detached one has its own
  Booking (`BookingIsThere`).
* under `FewOvertakes`, at most four messages of the phone are handled while
  another one waits for a call: `PathInvariant`, `StoredIsComplete`,
  `StoredPriceIsMeant`. `Ready` says what a Booking has at each state of the path.
  It is not inductive because a promo handler sets the state when its call ends,
  wherever the conversation is by then; `LateStateIsNear` bounds how far that can
  be by the messages that overtook it. The hypothesis is exact: with five, TLC
  finds `RowsAreComplete` violated (section 3, bounds).

What holds only while the customer waits for each answer is not stated: nothing in
the code makes it so.

All the parts of these invariants held on the runs' instances before they were
proved.

### Recursion

The library's induction rules take an operator as a parameter and cannot be used
here. Where a recursive function is reasoned about (the walk, the balance), the
step is a least counterexample: a nonempty set of numbers has a least element
(`WFMin`), the definition is correct below it, so it is no counterexample. That
gives existence and uniqueness, and the value.

### Only model-checked

The liveness properties `DueReminderSettles` and `RetryConfirms`, as the prover has
no rule for fairness and `ENABLED`; and the three findings, which are
counterexamples. Everything else that a run checks is a theorem, the properties
of references and conversation under the hypotheses named above.

## 5. Plan

1. An abstract specification of the booking of the PWA (a customer sets out, gets
   one booking or none, and is told of it or not) that `ApiBooking` implements,
   with the step-by-step proof; the same of the references (an allocator that
   gives out numbers).
2. `Reminders`: the three marks as read and write, with cancellations of another
   process in between.
3. Totals over several add-ons, with and without the legacy columns.

## 6. Not modelled

* The abandonment sweep: it reads and writes without a lock, so an overlapping
  process can lose it an update; nothing reads the status it writes but staff.
* The three marks of a reminder are one action each (plan, 2); the totals of
  add-ons (plan, 3).
* The lock around the engine singletons (`persistence.py:137` and its two twins):
  double-checked locking around one assignment.
* The admin portal's pages, sessions and translations, static sites, settings:
  rendering. The rate-limiting library: third-party. The payroll import and the
  tracking inserts: one sequential upsert or insert per record.
* Centers, texts, notification settings and reminder rules: upserts nothing else
  modelled here depends on. `correct_cash_ledger_entry` and
  `parse_cash_ledger_intents`: no caller in the application.
