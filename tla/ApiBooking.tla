------------------------------ MODULE ApiBooking ------------------------------
(***************************************************************************)
(* A booking made in the PWA: the booking flow of mobile-app/booking.jsx   *)
(* with its draft and its client_request_id, the calls of                  *)
(* mobile-app/api.js, and the handler of api.py behind them                *)
(* (POST /api/v1/bookings) with the customer tokens of persistence.py.       *)
(*                                                                         *)
(* The handler of POST /bookings never awaits, so one server process       *)
(* serves one submission at a time; processes overlap during a redeploy.   *)
(* Each session_scope of it is one action, and the process may die or the  *)
(* database fail between two of them.  The PWA gives up after ten seconds  *)
(* while the server goes on, and never retries a submission by itself: the *)
(* customer does.                                                          *)
(*                                                                         *)
(* Of a booking only the phone is kept, and the attempt it belongs to.     *)
(* Where a reference comes from is module BookingRefs.                     *)
(***************************************************************************)
EXTENDS Integers, FiniteSets

CONSTANTS
  Device,       \* browsers with the PWA
  Slots,        \* bound: submissions of one device under way at once
  Phone,        \* phone numbers the customers enter
  OwnPhone,     \* the phone a device's booking flow starts with
  Servers,      \* server processes that overlap
  MaxAttempts,  \* bound: bookings the customers set out to make
  MaxFaults     \* bound: failed, lost and abandoned submissions

ASSUME ApiConstants ==
  /\ Slots \in Nat \ {0} /\ Servers \in Nat \ {0}
  /\ OwnPhone \in [Device -> Phone]
  /\ MaxAttempts \in Nat /\ MaxFaults \in Nat

Submission == Device \X (1..Slots)
Of(s) == s[1]

VARIABLES
  rows,        \* bookings: reference, client_request_id, phone, and the
               \*   attempt that was submitted (history)
  tokens,      \* customer_tokens
  task,        \* the submissions under way
  alerts,      \* references whose staff alert was left to a background task
  draft,       \* the booking flow's data, saved in ewash.booking_draft unless
               \*   a confirmation is shown
  screen,      \* the confirmation a device shows, with what was submitted
  held,        \* the device's ewash.bookings_token
  lastKey, lastAttempt, lastToken,  \* what was given out so far
  faults       \* submissions that failed, were lost or abandoned so far

dbVars == <<rows, tokens, lastToken>>
deviceVars == <<draft, screen, held, lastKey, lastAttempt>>
vars == <<dbVars, alerts, deviceVars, task, faults>>

Attempts == 1..MaxAttempts
NoToken == [none |-> TRUE]
NoDraft == [none |-> TRUE]
NoScreen == [none |-> TRUE]
Screen == [ref : Nat \ {0}, key : Nat \ {0}, phone : Phone, attempt : Attempts]
Token == [id : Nat \ {0}, phone : Phone]
Row == [ref : Nat \ {0}, key : Nat \ {0}, phone : Phone, attempt : Attempts]

\* again: the draft is of a booking whose confirmation was shown.
Draft == [key : Nat \ {0}, phone : Phone, attempt : Attempts, again : BOOLEAN]

Serving == {"fresh", "conflict", "verify", "peek", "mint"}
NoTask == [pc |-> "free"]

\* heard: the flow still awaits the answer; blocks: the recap's button does.
Tasks == [pc : {"sent", "answered"} \cup Serving,
          heard : BOOLEAN, blocks : BOOLEAN, key : Nat \ {0},
          phone : Phone, attempt : Attempts, carried : Token \cup {NoToken},
          ref : Nat, creator : BOOLEAN, answer : Token \cup {NoToken}]

TypeOK ==
  /\ rows \subseteq Row
  /\ tokens \subseteq Token
  /\ task \in [Submission -> Tasks \cup {NoTask}]
  /\ alerts \subseteq Nat
  /\ draft \in [Device -> Draft \cup {NoDraft}]
  /\ screen \in [Device -> Screen \cup {NoScreen}]
  /\ held \in [Device -> Token \cup {NoToken}]
  /\ lastKey \in Nat /\ lastAttempt \in 0..MaxAttempts /\ lastToken \in Nat
  /\ faults \in 0..MaxFaults

Init ==
  /\ rows = {}
  /\ tokens = {}
  /\ task = [s \in Submission |-> NoTask]
  /\ alerts = {}
  /\ draft = [d \in Device |-> NoDraft]
  /\ screen = [d \in Device |-> NoScreen]
  /\ held = [d \in Device |-> NoToken]
  /\ lastKey = 0 /\ lastAttempt = 0 /\ lastToken = 0
  /\ faults = 0

-----------------------------------------------------------------------------
(* The booking flow. *)

\* The recap mints the key; nothing is sent before.
Start(d) ==
  /\ draft[d] = NoDraft /\ screen[d] = NoScreen
  /\ lastAttempt < MaxAttempts
  /\ lastAttempt' = lastAttempt + 1
  /\ lastKey' = lastKey + 1
  /\ draft' = [draft EXCEPT ![d] =
                  [key |-> lastKey', phone |-> OwnPhone[d],
                   attempt |-> lastAttempt', again |-> FALSE]]
  /\ UNCHANGED <<dbVars, alerts, screen, held, task, faults>>

\* A recap that is shown anew waits for nothing.
Unblocked(d) ==
  [s \in Submission |->
     IF Of(s) = d /\ task[s] # NoTask THEN [task[s] EXCEPT !.blocks = FALSE] ELSE task[s]]

\* Another phone typed into the recap, or back to an earlier step, another
\* answer, and a new recap.  The key stays.  After a confirmation that is another booking to the customer.
Edit(d) ==
  LET b == draft[d]
  IN /\ b # NoDraft /\ screen[d] = NoScreen
     /\ b.again => lastAttempt < MaxAttempts
     /\ lastAttempt' = IF b.again THEN lastAttempt + 1 ELSE lastAttempt
     /\ \E p \in Phone :
          draft' = [draft EXCEPT ![d] =
            [b EXCEPT !.phone = p, !.again = FALSE,
                      !.attempt = IF b.again THEN lastAttempt' ELSE @]]
     /\ task' \in {task, Unblocked(d)}
     /\ UNCHANGED <<dbVars, alerts, screen, held, lastKey, faults>>

\* The confirmation goes, and the data is saved again.
Reopens(d) ==
  /\ screen[d] # NoScreen /\ draft[d] # NoDraft
  /\ draft' = [draft EXCEPT ![d].again = @ \/ draft[d].key = screen[d].key]
  /\ screen' = [screen EXCEPT ![d] = NoScreen]

\* Back, or "add-ons", on the confirmation.
Reopen(d) ==
  /\ Reopens(d)
  /\ UNCHANGED <<dbVars, alerts, held, lastKey, lastAttempt, task, faults>>

\* discardDraft, a draft that is an hour old, or a flow opened on an add-on.
Discard(d) ==
  /\ draft[d] # NoDraft /\ screen[d] = NoScreen
  /\ draft' = [draft EXCEPT ![d] = NoDraft]
  /\ task' = Unblocked(d)
  /\ UNCHANGED <<dbVars, alerts, screen, held, lastKey, lastAttempt, faults>>

\* _saveDraft and _loadDraft.
Restored(d) == IF screen[d] # NoScreen THEN NoDraft ELSE draft[d]

\* The submissions of d, when nobody waits for their answers any more.
Unheard(d) ==
  [s \in Submission |->
     IF Of(s) # d \/ task[s] = NoTask THEN task[s]
     ELSE IF task[s].pc = "answered" THEN NoTask
     ELSE [task[s] EXCEPT !.heard = FALSE, !.blocks = FALSE]]

Fault == faults < MaxFaults /\ faults' = faults + 1

\* The page is reloaded, or the booking flow closed and opened again.  (The
\* token of an answer that still comes after a closed flow is saved: the model
\* loses it.)
Leave(d) ==
  /\ draft' = [draft EXCEPT ![d] = Restored(d)]
  /\ screen' = [screen EXCEPT ![d] = NoScreen]
  /\ task' = Unheard(d)
  /\ IF task' = task THEN UNCHANGED faults ELSE Fault
  /\ UNCHANGED <<dbVars, alerts, held, lastKey, lastAttempt>>

\* The button is blocked while this recap waits for an answer.
Submit(s) ==
  LET d == Of(s)
  IN /\ task[s] = NoTask /\ \A i \in 1..(s[2] - 1) : task[<<d, i>>] # NoTask
     /\ draft[d] # NoDraft /\ screen[d] = NoScreen
     /\ \A u \in Submission : Of(u) = d /\ task[u] # NoTask => ~task[u].blocks
     /\ task' = [task EXCEPT ![s] =
                   [pc |-> "sent", heard |-> TRUE, blocks |-> TRUE, key |-> draft[d].key,
                    phone |-> draft[d].phone, attempt |-> draft[d].attempt,
                    carried |-> held[d], ref |-> 0, creator |-> FALSE,
                    answer |-> NoToken]]
     /\ UNCHANGED <<dbVars, alerts, deviceVars, faults>>

Ends(s) == task' = [task EXCEPT ![s] = NoTask]

\* An error brings the recap back, even over the confirmation that another
\* submission has brought.
Errs(s) ==
  IF task[s].heard /\ screen[Of(s)] # NoScreen /\ draft[Of(s)] # NoDraft
  THEN Reopens(Of(s)) ELSE UNCHANGED <<draft, screen>>

\* An answer of submitBooking.  An empty token is not saved.
Deliver(s) ==
  LET d == Of(s)
  IN /\ task[s].pc = "answered"
     /\ task' = [Unblocked(d) EXCEPT ![s] = NoTask]
     /\ held' = IF task[s].answer = NoToken THEN held
                ELSE [held EXCEPT ![d] = task[s].answer]
     /\ screen' = [screen EXCEPT ![d] =
                     [ref |-> task[s].ref, key |-> task[s].key,
                      phone |-> task[s].phone, attempt |-> task[s].attempt]]
     /\ UNCHANGED <<dbVars, alerts, draft, lastKey, lastAttempt, faults>>

\* The ten seconds are over, which leaves the step alone, or the connection
\* breaks.
Timeout(s) ==
  /\ task[s] # NoTask /\ task[s].heard
  /\ Fault
  /\ task' = [task EXCEPT ![s] = Unheard(Of(s))[s]]
  /\ UNCHANGED <<draft, screen>> \/ Errs(s)
  /\ UNCHANGED <<dbVars, alerts, held, lastKey, lastAttempt>>

-----------------------------------------------------------------------------
(* POST /api/v1/bookings. *)

\* Faults: no booking is ever found, or the caller's phone is not compared.
FoundNever(s) == {}
FoundByKey(s) == {r \in rows : r.key = task[s].key}

\* The row a replay answers with: same client_request_id, same phone.
Found(s) == {r \in rows : r.key = task[s].key /\ r.phone = task[s].phone}

\* Fault: no unique index.
KeyNeverTaken(s) == FALSE

\* The partial unique index on client_request_id.
KeyTaken(s) == \E r \in rows : r.key = task[s].key

At(s, pc) == task[s].pc = pc
Goes(s, pc) == task' = [task EXCEPT ![s].pc = pc]

\* A new booking mints a token, a replay looks for one first.
WithoutToken(creator) == IF creator THEN "mint" ELSE "peek"

Books(s, r, creator) ==
  task' = [task EXCEPT ![s].ref = r.ref, ![s].creator = creator,
             ![s].pc = IF task[s].carried = NoToken THEN WithoutToken(creator) ELSE "verify"]

\* The first lookup, before anything is validated.
Lookup(s) ==
  /\ At(s, "sent")
  /\ Cardinality({u \in Submission : task[u].pc \in Serving}) < Servers
  /\ \/ \E r \in Found(s) : Books(s, r, FALSE)
     \/ Found(s) = {} /\ Goes(s, "fresh")
  /\ UNCHANGED <<dbVars, alerts, deviceVars, faults>>

\* A limit or the validation refuses it: an error answer, nothing stored.
Reject(s) ==
  /\ At(s, "fresh")
  /\ Ends(s) /\ Errs(s)
  /\ UNCHANGED <<dbVars, alerts, held, lastKey, lastAttempt, faults>>

\* Reference, row, line items and name in one transaction, which the unique
\* index may refuse.
Create(s) ==
  LET row == [ref |-> Cardinality(rows) + 1, key |-> task[s].key,
              phone |-> task[s].phone, attempt |-> task[s].attempt]
  IN /\ At(s, "fresh")
     /\ IF KeyTaken(s)
        THEN Goes(s, "conflict") /\ UNCHANGED rows
        ELSE Books(s, row, TRUE) /\ rows' = rows \cup {row}
     /\ UNCHANGED <<tokens, lastToken, alerts, deviceVars, faults>>

\* The lookup after an IntegrityError, which is raised again when the row is
\* not the caller's.
LookupAgain(s) ==
  /\ At(s, "conflict")
  /\ \/ \E r \in Found(s) : Books(s, r, FALSE) /\ UNCHANGED <<draft, screen>>
     \/ Found(s) = {} /\ Ends(s) /\ Errs(s)
  /\ UNCHANGED <<dbVars, alerts, held, lastKey, lastAttempt, faults>>

\* Fault: a replay alerts the staff too.
AlertsAlways(s) == {task[s].ref}

\* The background task that only a new booking has.
AlertsOf(s) == IF task[s].creator THEN {task[s].ref} ELSE {}

\* The response, and the background task after it.
Responds(s, token) ==
  /\ alerts' = alerts \cup AlertsOf(s)
  /\ IF ~task[s].heard THEN Ends(s)
     ELSE task' = [task EXCEPT ![s].pc = "answered", ![s].answer = token,
                               ![s].carried = NoToken, ![s].creator = FALSE]

\* verify_customer_token with expected_phone: a token that is good is echoed.
Verify(s) ==
  LET good == task[s].carried \in tokens /\ task[s].carried.phone = task[s].phone
  IN /\ At(s, "verify")
     /\ IF good THEN Responds(s, task[s].carried)
        ELSE /\ task' = [task EXCEPT ![s].pc = WithoutToken(task[s].creator),
                                     ![s].carried = NoToken]
             /\ UNCHANGED alerts
     /\ UNCHANGED <<dbVars, deviceVars, faults>>

\* Fault: a replay does not look for a token of the phone.
HasTokenNever(p) == FALSE

HasToken(p) == \E t \in tokens : t.phone = p

\* "Don't mint on every replay": an empty token when the phone has one.
Peek(s) ==
  /\ At(s, "peek")
  /\ IF HasToken(task[s].phone) THEN Responds(s, NoToken)
     ELSE Goes(s, "mint") /\ UNCHANGED alerts
  /\ UNCHANGED <<dbVars, deviceVars, faults>>

NewToken(p) == [id |-> lastToken + 1, phone |-> p]

Mint(s) ==
  LET token == NewToken(task[s].phone)
  IN /\ At(s, "mint")
     /\ lastToken' = lastToken + 1
     /\ tokens' = tokens \cup {token}
     /\ Responds(s, token)
     /\ UNCHANGED <<rows, deviceVars, faults>>

\* The request does not arrive, the process dies or the database fails: an
\* open transaction is rolled back, what was committed stays.
Fails(s) ==
  /\ task[s].pc \in {"sent"} \cup Serving
  /\ Fault
  /\ Ends(s) /\ Errs(s)
  /\ UNCHANGED <<dbVars, alerts, held, lastKey, lastAttempt>>

-----------------------------------------------------------------------------

Customer(d) ==
  Start(d) \/ Edit(d) \/ Reopen(d) \/ Discard(d) \/ Leave(d)

Served(s) ==
  \/ Lookup(s) \/ Reject(s) \/ Create(s) \/ LookupAgain(s)
  \/ Verify(s) \/ Peek(s) \/ Mint(s)

Next ==
  \/ \E d \in Device : Customer(d)
  \/ \E s \in Submission : Submit(s) \/ Served(s) \/ Deliver(s) \/ Timeout(s) \/ Fails(s)

Spec == Init /\ [][Next]_vars

\* A customer who goes on submitting, and a server and a network that at some
\* time fail no more: a submission under way is then served and answered.
Fairness ==
  /\ \A d \in Device : WF_vars(\E s \in Submission : Of(s) = d /\ Submit(s))
  /\ \A s \in Submission : WF_vars(Served(s) \/ Deliver(s))

FairSpec == Spec /\ Fairness

-----------------------------------------------------------------------------
(* Properties. *)

\* However often a submission is repeated, after timeouts, reloads and crashes,
\* by overlapping processes, it makes one booking ("the client_request_id
\* idempotency guard prevents double-charges on resubmit", runbooks/pwa-api.md).
OneRowPerAttempt ==
  \A q, r \in rows : q.attempt = r.attempt => q = r

\* The reference a device shows is a stored booking, with the phone and the key
\* that were submitted: nobody is shown somebody else's booking.
ConfirmedIsStored ==
  \A d \in Device : screen[d] # NoScreen =>
    \E r \in rows : /\ r.ref = screen[d].ref /\ r.key = screen[d].key
                    /\ r.phone = screen[d].phone

\* What the next invariants are about: submissions that have their booking, and
\* which key each attempt goes by, wherever it is written down.
Booked(s) == task[s].pc \in {"verify", "peek", "mint", "answered"}
Keyed ==
  {<<r.attempt, r.key>> : r \in rows}
    \cup {<<draft[d].attempt, draft[d].key>> : d \in {e \in Device : draft[e] # NoDraft}}
    \cup {<<task[s].attempt, task[s].key>> : s \in {u \in Submission : task[u] # NoTask}}

\* Resubmitting, editing and resuming never give an attempt a second key, and
\* the unique index keeps rows apart by it.
KeysIdentifyAttempts ==
  /\ \A x, y \in Keyed : x[1] = y[1] => x[2] = y[2]
  /\ \A x \in Keyed : x[1] <= lastAttempt
  /\ \A q, r \in rows : q.key = r.key => q = r

\* What a submission answers with is stored under its own key and phone.
AnswersAreStored ==
  \A s \in Submission : Booked(s) =>
    \E r \in rows : /\ r.ref = task[s].ref /\ r.key = task[s].key
                    /\ r.phone = task[s].phone

\* References are given out in order, and only the creator of a row, which has
\* not responded yet, is going to alert the staff of it.
Creating(s) == task[s].pc \in {"verify", "peek", "mint"} /\ task[s].creator
CreatorsAlert ==
  /\ IsFiniteSet(rows)
  /\ \A r \in rows : r.ref <= Cardinality(rows)
  /\ \A a \in alerts : a <= Cardinality(rows)
  /\ \A s \in Submission : Creating(s) =>
       /\ task[s].ref \notin alerts
       /\ \A u \in Submission \ {s} : Creating(u) => task[u].ref # task[s].ref

\* The inductive invariant of ApiBooking_proofs.
IndInv ==
  /\ TypeOK
  /\ KeysIdentifyAttempts
  /\ AnswersAreStored
  /\ CreatorsAlert
  /\ ConfirmedIsStored

\* Staff are alerted of a booking at most once.
AlertedOnce ==
  [][\A s \in Submission :
       (Verify(s) \/ Peek(s) \/ Mint(s)) => AlertsOf(s) \cap alerts = {}]_vars

\* Replays mint no "orphan customer_tokens rows": a phone has no more tokens
\* than bookings gave it, but for replays that overlap.
TokensStayFew ==
  \A p \in Phone :
    Cardinality({t \in tokens : t.phone = p})
      <= Cardinality({r \in rows : r.phone = p}) + Servers - 1

\* What it rests on: a submission that is going to mint a token counts as if it
\* had.  Creators have a row each; replays mint only if the phone had no token
\* when they looked, and then no more of them than processes are under way.
TokensOf(p) == {t \in tokens : t.phone = p}
RowsOf(p) == {r \in rows : r.phone = p}
ServedNow == {u \in Submission : task[u].pc \in Serving}
Minting(p) == {s \in ServedNow : task[s].phone = p /\ (At(s, "mint") \/ Creating(s))}
MintsAreCounted ==
  /\ IsFiniteSet(tokens) /\ IsFiniteSet(ServedNow)
  /\ Cardinality(ServedNow) <= Servers
  /\ \A p \in Phone :
       Cardinality(TokensOf(p)) + Cardinality(Minting(p))
         <= Cardinality(RowsOf(p)) + Servers - 1

\* A booking that is stored without its customer knowing is confirmed to the
\* customer who keeps trying ("the server returns the original response if the
\* first call did commit").
Stored(d) ==
  /\ draft[d] # NoDraft /\ screen[d] = NoScreen
  /\ \E r \in rows : r.key = draft[d].key /\ r.phone = draft[d].phone
RetryConfirms == \A d \in Device : Stored(d) ~> ~Stored(d)

\* plan.md: "client_request_id (UUID v4 minted by the PWA per booking attempt)
\* lets the API dedupe accidental double-submits": what is confirmed to a
\* customer is the booking the customer just submitted.
ConfirmedIsOfThisAttempt ==
  \A d \in Device : screen[d] # NoScreen =>
    \E r \in rows : r.ref = screen[d].ref /\ r.attempt = screen[d].attempt

=============================================================================
