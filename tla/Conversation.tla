----------------------------- MODULE Conversation -----------------------------
(***************************************************************************)
(* The WhatsApp conversation of one phone number: handlers.handle_message, *)
(* the handlers of its dispatch table and the in-memory Session of         *)
(* state.py.                                                               *)
(*                                                                         *)
(* The server is one event loop.  A handler runs without interruption up   *)
(* to a Meta call; there it waits, and other messages of the same phone    *)
(* (other webhook requests) are handled before it goes on.  An action is   *)
(* therefore a message with the handler up to its first call, or the       *)
(* answer of a call with the rest of the handler up to the next call.      *)
(* A handler keeps the Session object it was dispatched on, also when      *)
(* state.reset has given the phone a new one.                              *)
(*                                                                         *)
(* A message Meta delivers twice is dropped before dispatch                *)
(* (persist_whatsapp_inbound_message) and does not appear here.  Staff     *)
(* alerts are configured and the database is, too.  Which number a booking *)
(* gets is BookingRefs' subject: here any reference may be given, also one *)
(* that a failed reservation repeats and that has a row already.           *)
(***************************************************************************)
EXTENDS Integers, FiniteSets

CONSTANTS
  Task,         \* webhook requests that can be in progress at once
  MaxOvertakes, \* bound: messages handled while a handler waits for one call
  MaxRefs       \* bound: references there are

ASSUME ConversationConstants == MaxRefs \in Nat /\ MaxOvertakes \in Nat

States ==
  {"IDLE", "RETURNING_CUSTOMER", "MENU", "HANDOFF", "BOOK_NAME",
   "BOOK_VEHICLE", "BOOK_MODEL", "BOOK_COLOR", "BOOK_WHERE", "BOOK_CENTER",
   "BOOK_GEO", "BOOK_ADDRESS", "BOOK_PROMO_ASK", "BOOK_PROMO_CODE",
   "BOOK_SERVICE", "BOOK_WHEN", "BOOK_SLOT", "BOOK_NOTE", "BOOK_NOTE_TEXT",
   "BOOK_CONFIRM", "UPSELL_DETAILING", "UPSELL_DETAILING_PICK"}

\* What the customer has answered.  The place is "center", or "geo" and
\* "address".
Answers == {"name", "model", "color", "center", "geo", "address", "service",
            "when", "slot"}
Identity == {"name", "model", "color"}

\* A Booking object: ref 0 before assign_ref; price is the grid price_dh was
\* taken from.
Bookings ==
  [lane : {"", "car", "moto"}, got : SUBSET Answers, promo : BOOLEAN,
   price : {"", "public", "partner"}, addon : BOOLEAN, ref : 0..MaxRefs]

NewBooking == [lane |-> "", got |-> {}, promo |-> FALSE, price |-> "",
               addon |-> FALSE, ref |-> 0]
NoBooking == [none |-> TRUE]
OtherRow == [other |-> TRUE]     \* the row of another customer
NewSession == [state |-> "IDLE", booking |-> NoBooking]

\* What a handler does after the call it waits for.
Nexts == {"end", "menu", "reset", "promoAsk", "askService",
          "ack", "alert", "addonAck", "addonAlert"}
NoTask == [next |-> "none", mine |-> FALSE, booking |-> NoBooking, ref |-> 0]

VARIABLES
  session,   \* _sessions[phone]
  task,      \* the handlers waiting for Meta: mine while their Session is still
             \*   the phone's, then with the booking of the one they kept
  overtaken, \* messages handled since the handler's call went out
  rows,      \* the bookings stored, by reference
  profile,   \* latest active vehicle of the phone and the name known with it
  stage,     \* customers.last_bot_stage
  missed,    \* has the conversation moved without _track_bot_stage (history)
  told       \* references the customer was told are registered (history)

dbVars == <<rows, profile>>
vars == <<session, task, overtaken, dbVars, stage, missed, told>>

NoProfile == [none |-> TRUE]
Profiles == [lane : {"", "car", "moto"}, got : SUBSET Identity]

TypeOK ==
  /\ session \in [state : States, booking : Bookings \cup {NoBooking}]
  /\ task \in [Task -> {NoTask} \cup
                 [next : Nexts, mine : BOOLEAN,
                  booking : Bookings \cup {NoBooking}, ref : 0..MaxRefs]]
  /\ overtaken \in [Task -> 0..MaxOvertakes]
  /\ rows \in [1..MaxRefs -> Bookings \cup {NoBooking, OtherRow}]
  /\ profile \in Profiles \cup {NoProfile}
  /\ stage \in States
  /\ missed \in BOOLEAN
  /\ told \subseteq 0..MaxRefs

Init ==
  /\ session = NewSession
  /\ task = [t \in Task |-> NoTask]
  /\ overtaken = [t \in Task |-> 0]
  /\ rows = [r \in 1..MaxRefs |-> NoBooking]
  /\ profile = NoProfile
  /\ stage = "IDLE"
  /\ missed = FALSE
  /\ told = {}

-----------------------------------------------------------------------------
(* Sessions and waiting handlers. *)

\* What the handlers that keep the phone's Session are left with when the
\* phone gets a new one (state.reset).
Detached ==
  [t \in Task |->
     IF task[t].mine
     THEN [task[t] EXCEPT !.mine = FALSE, !.booking = session.booking]
     ELSE task[t]]

\* t waits for Meta; the last two keep the Session for what comes after.
Waiting(tasks, t, next) ==
  task' = [tasks EXCEPT ![t] = [NoTask EXCEPT !.next = next]]
WaitingWith(t, next, ref) ==
  task' = [task EXCEPT ![t] = [NoTask EXCEPT !.next = next, !.mine = TRUE,
                                             !.ref = ref]]

\* The Booking that sess.booking is for a waiting handler.
BookingOf(t) == IF task[t].mine THEN session.booking ELSE task[t].booking

\* sess.state = st, which nobody sees on a Session the phone has lost.
SetState(t, st) ==
  session' = IF task[t].mine THEN [session EXCEPT !.state = st] ELSE session

\* t takes a message while the others wait.  A call lasts ten seconds at most,
\* time for few messages of one customer.
Receives(t) ==
  LET others == {u \in Task \ {t} : task[u] # NoTask}
  IN /\ task[t] = NoTask
     /\ \A u \in others : overtaken[u] < MaxOvertakes
     /\ overtaken' = [u \in Task |-> IF u \in others THEN overtaken[u] + 1 ELSE 0]

On(t, st) == Receives(t) /\ session.state = st

\* The call of t is over.
Returns(t, nexts) ==
  /\ task[t].next \in nexts
  /\ overtaken' = [overtaken EXCEPT ![t] = 0]

\* Fault: the state tracked is the one before the handler's last step.
TrackBehind(current) == stage' = session.state /\ missed' = FALSE

\* _track_bot_stage(phone, state.get(phone)): best effort.
Track(current) ==
  \/ stage' = current /\ missed' = FALSE
  \/ UNCHANGED stage /\ missed' = TRUE

\* The handler ends.
End(t, tasks, current) ==
  /\ task' = [tasks EXCEPT ![t] = NoTask]
  /\ Track(current)

\* An answer is taken: the booking and the state change, the next prompt goes
\* out.
Advance(t, from, booking, to) ==
  /\ On(t, from)
  /\ session' = [state |-> to, booking |-> booking]
  /\ Waiting(task, t, "end")
  /\ UNCHANGED <<dbVars, stage, missed, told>>

Got(answer) == [session.booking EXCEPT !.got = @ \cup {answer}]

\* Fault: the color of the vehicle is not read back.
KnownWithoutColor(b) == [lane |-> b.lane, got |-> b.got \cap {"name", "model"}]

\* persist_booking_identity and the vehicle upsert of the confirmation, as
\* get_returning_customer_profile reads them back.
Known(b) ==
  [lane |-> b.lane,
   got |-> (b.got \cap Identity)
             \cup (IF profile = NoProfile THEN {} ELSE profile.got \cap {"name"})]

\* _send_menu, in a message or after a call.
SendMenu(t) ==
  /\ session' = [NewSession EXCEPT !.state = "MENU"]
  /\ Waiting(Detached, t, "end")
  /\ Track("MENU")

-----------------------------------------------------------------------------
(* Messages outside the booking path. *)

\* _send_returning_customer_prompt
SendReturningPrompt(t) ==
  /\ profile # NoProfile
  /\ session' = [state |-> "RETURNING_CUSTOMER",
                 booking |-> [NewBooking EXCEPT !.lane = profile.lane,
                                                !.got = profile.got]]
  /\ Waiting(Detached, t, "end")
  /\ Track("RETURNING_CUSTOMER")

\* reset, menu and their like in any state, returning_menu, and what MENU does
\* not understand.  A greeting in IDLE is an IdleMessage.
ToMenu(t) ==
  /\ Receives(t)
  /\ SendMenu(t)
  /\ UNCHANGED <<dbVars, told>>

IdleMessage(t) ==
  /\ On(t, "IDLE")
  /\ SendReturningPrompt(t) \/ (profile = NoProfile /\ SendMenu(t))
  /\ UNCHANGED <<dbVars, told>>

\* start_booking keeps the Session and gives it a new Booking.
StartBooking(t) ==
  \/ Advance(t, "MENU", NewBooking, "BOOK_NAME")
  \/ Advance(t, "RETURNING_CUSTOMER", NewBooking, "BOOK_NAME")
  \/ Advance(t, "BOOK_CONFIRM", NewBooking, "BOOK_NAME")

AskHuman(t) == Advance(t, "MENU", session.booking, "HANDOFF")

\* The two price images, then the menu.
ShowServices(t) ==
  /\ On(t, "MENU")
  /\ Waiting(task, t, "menu")
  /\ UNCHANGED <<session, dbVars, stage, missed, told>>

\* Answers after which the handler thanks the customer and then resets: the
\* handoff text, the two refusals of the upsell.
Farewell(t) ==
  /\ Receives(t)
  /\ session.state \in {"HANDOFF", "UPSELL_DETAILING", "UPSELL_DETAILING_PICK"}
  /\ Waiting(task, t, "reset")
  /\ UNCHANGED <<session, dbVars, stage, missed, told>>

\* confirm_no resets first.
Abandon(t) ==
  /\ On(t, "BOOK_CONFIRM")
  /\ session' = NewSession
  /\ Waiting(Detached, t, "end")
  /\ UNCHANGED <<dbVars, stage, missed, told>>

\* "On any unexpected input we gracefully re-prompt the current step."
Reprompt(t) ==
  /\ Receives(t)
  /\ session.state \notin {"IDLE", "MENU"}
  /\ Waiting(task, t, "end")
  /\ UNCHANGED <<session, dbVars, stage, missed, told>>

-----------------------------------------------------------------------------
(* The booking path. *)

\* _handle_returning_customer
ReturningYes(t) ==
  /\ On(t, "RETURNING_CUSTOMER")
  /\ session' = [session EXCEPT !.state = "BOOK_WHERE"]
  /\ profile' = Known(session.booking)
  /\ Waiting(task, t, "end")
  /\ UNCHANGED <<rows, stage, missed, told>>

\* A customer who is asked for a name and has a profile already has one in it:
\* persist_customer_name changes nothing that is kept here.
BookName(t) == Advance(t, "BOOK_NAME", Got("name"), "BOOK_VEHICLE")

\* Motorcycles skip model and color.
BookVehicle(t) ==
  \/ Advance(t, "BOOK_VEHICLE", [session.booking EXCEPT !.lane = "car"],
             "BOOK_MODEL")
  \/ LET b == [session.booking EXCEPT !.lane = "moto"]
     IN /\ On(t, "BOOK_VEHICLE")
        /\ session' = [state |-> "BOOK_WHERE", booking |-> b]
        /\ profile' = Known(b)
        /\ Waiting(task, t, "end")
        /\ UNCHANGED <<rows, stage, missed, told>>

BookModel(t) == Advance(t, "BOOK_MODEL", Got("model"), "BOOK_COLOR")

BookColor(t) ==
  /\ On(t, "BOOK_COLOR")
  /\ session' = [state |-> "BOOK_WHERE", booking |-> Got("color")]
  /\ profile' = IF session.booking.lane = "car"
                THEN Known(Got("color")) ELSE profile
  /\ Waiting(task, t, "end")
  /\ UNCHANGED <<rows, stage, missed, told>>

\* Fault: a state that no handler is registered for.
AfterLocationUnknown(b) == IF b.lane = "moto" THEN "BOOK_SERVICE" ELSE "BOOK_PROMO"

\* _after_location
AfterLocation(b) == IF b.lane = "moto" THEN "BOOK_SERVICE" ELSE "BOOK_PROMO_ASK"

\* A single active center is taken without asking.
BookWhere(t) ==
  \/ Advance(t, "BOOK_WHERE", session.booking, "BOOK_CENTER")
  \/ Advance(t, "BOOK_WHERE", Got("center"), AfterLocation(session.booking))
  \/ Advance(t, "BOOK_WHERE", session.booking, "BOOK_GEO")

BookCenter(t) ==
  Advance(t, "BOOK_CENTER", Got("center"), AfterLocation(session.booking))

BookGeo(t) == Advance(t, "BOOK_GEO", Got("geo"), "BOOK_ADDRESS")

BookAddress(t) ==
  Advance(t, "BOOK_ADDRESS", Got("address"), AfterLocation(session.booking))

BookPromoAsk(t) ==
  \/ Advance(t, "BOOK_PROMO_ASK", session.booking, "BOOK_SERVICE")
  \/ Advance(t, "BOOK_PROMO_ASK", session.booking, "BOOK_PROMO_CODE")

\* A code that is good is kept before the call and the service menu follows it;
\* one that is not sends the customer back, also after the call.
BookPromoCode(t) ==
  \/ Advance(t, "BOOK_PROMO_CODE", session.booking, "BOOK_SERVICE")
  \/ /\ On(t, "BOOK_PROMO_CODE")
     /\ session' = [session EXCEPT !.booking.promo = TRUE]
     /\ WaitingWith(t, "askService", 0)
     /\ UNCHANGED <<dbVars, stage, missed, told>>
  \/ /\ On(t, "BOOK_PROMO_CODE")
     /\ WaitingWith(t, "promoAsk", 0)
     /\ UNCHANGED <<session, dbVars, stage, missed, told>>

\* Fault: the price shown without a code is kept.
PublicGrid(b) == "public"

\* service_price: the partner grid, never for motorcycles.
Grid(b) == IF b.promo /\ b.lane # "moto" THEN "partner" ELSE "public"

BookService(t) ==
  Advance(t, "BOOK_SERVICE",
          [Got("service") EXCEPT !.price = Grid(session.booking)], "BOOK_WHEN")

BookWhen(t) == Advance(t, "BOOK_WHEN", Got("when"), "BOOK_SLOT")

BookSlot(t) == Advance(t, "BOOK_SLOT", Got("slot"), "BOOK_NOTE")

BookNote(t) ==
  \/ Advance(t, "BOOK_NOTE", session.booking, "BOOK_CONFIRM")
  \/ Advance(t, "BOOK_NOTE", session.booking, "BOOK_NOTE_TEXT")
  \/ Advance(t, "BOOK_NOTE_TEXT", session.booking, "BOOK_CONFIRM")

-----------------------------------------------------------------------------
(* Confirmation and upsell. *)

Referenced(ref) == [session.booking EXCEPT !.ref = ref]

\* Fault: the insert fails and nobody is told.
AddRowQuietly(b) == rows

\* persist_confirmed_booking copies the Booking into its row; a row that has
\* the reference already is left as it is, whosever it is.
AddRow(b) == IF rows[b.ref] = NoBooking THEN [rows EXCEPT ![b.ref] = b] ELSE rows

\* confirm_yes up to the acknowledgement: the reference, the row and with a new
\* row the vehicle are stored first.  assign_booking_ref reserves a number or,
\* when that fails, takes what the process counter has.  The state stays
\* BOOK_CONFIRM meanwhile.
ConfirmYes(t) ==
  /\ On(t, "BOOK_CONFIRM")
  /\ \E ref \in 1..MaxRefs :
       /\ session' = [session EXCEPT !.booking = Referenced(ref)]
       /\ rows' = AddRow(Referenced(ref))
       /\ profile' = IF rows[ref] = NoBooking THEN Known(Referenced(ref)) ELSE profile
       /\ WaitingWith(t, "ack", ref)
  /\ UNCHANGED <<stage, missed, told>>

\* The app, an administrator or another phone's conversation stores a booking.
AnotherBooks ==
  /\ \E ref \in 1..MaxRefs :
       rows[ref] = NoBooking /\ rows' = [rows EXCEPT ![ref] = OtherRow]
  /\ UNCHANGED <<session, task, overtaken, profile, stage, missed, told>>

UpsellYes(t) ==
  Advance(t, "UPSELL_DETAILING", session.booking, "UPSELL_DETAILING_PICK")

WithAddon == [session.booking EXCEPT !.addon = TRUE]

\* persist_booking_addon: nothing to do without a reference or a row.  (What is
\* in another customer's row is not kept here.)
AddAddon(ref) ==
  IF ref \in DOMAIN rows /\ rows[ref] \notin {NoBooking, OtherRow}
  THEN [rows EXCEPT ![ref].addon = TRUE] ELSE rows

UpsellPick(t) ==
  LET b == WithAddon
  IN /\ On(t, "UPSELL_DETAILING_PICK")
     /\ session' = [session EXCEPT !.booking = b]
     /\ rows' = AddAddon(b.ref)
     /\ WaitingWith(t, "addonAck", b.ref)
     /\ UNCHANGED <<profile, stage, missed, told>>

\* The database fails a write of a handler: the handler ends there, with the
\* answer in the Booking and the state as it was.
StoreFails(t) ==
  /\ Receives(t)
  /\ \/ session.state = "RETURNING_CUSTOMER" /\ UNCHANGED session
     \/ /\ session.state = "BOOK_NAME"
        /\ session' = [session EXCEPT !.booking = Got("name")]
     \/ /\ session.state = "BOOK_VEHICLE"
        /\ session' = [session EXCEPT !.booking.lane = "moto"]
     \/ /\ session.state = "BOOK_COLOR"
        /\ session' = [session EXCEPT !.booking = Got("color")]
     \/ /\ session.state = "BOOK_CONFIRM"
        /\ \E ref \in 1..MaxRefs :
             session' = [session EXCEPT !.booking = Referenced(ref)]
     \/ /\ session.state = "UPSELL_DETAILING_PICK"
        /\ session' = [session EXCEPT !.booking = WithAddon]
  /\ missed' = TRUE
  /\ UNCHANGED <<task, rows, profile, stage, told>>

-----------------------------------------------------------------------------
(* The answer of a call, and the rest of the handler. *)

\* Nothing left but the bot stage; or a last assignment to the Session it kept.
Finish(t) ==
  /\ \/ Returns(t, {"end"}) /\ UNCHANGED session
     \/ Returns(t, {"promoAsk"}) /\ SetState(t, "BOOK_PROMO_ASK")
  /\ End(t, task, session'.state)
  /\ UNCHANGED <<dbVars, told>>

MenuAfterServices(t) ==
  /\ Returns(t, {"menu"})
  /\ SendMenu(t)
  /\ UNCHANGED <<dbVars, told>>

AskService(t) ==
  /\ Returns(t, {"askService"})
  /\ SetState(t, "BOOK_SERVICE")
  /\ Waiting(task, t, "end")
  /\ UNCHANGED <<dbVars, stage, missed, told>>

\* state.reset after a call: the phone's Session goes, whichever it is by now.
ResetAtEnd(t) ==
  /\ \/ Returns(t, {"reset", "addonAlert"})
     \/ Returns(t, {"alert"}) /\ BookingOf(t).lane = "moto"
  /\ session' = NewSession
  /\ End(t, Detached, "IDLE")
  /\ UNCHANGED <<dbVars, told>>

\* The acknowledgement is out; the staff alert goes out.
Alert(t) ==
  /\ Returns(t, {"ack", "addonAck"})
  /\ task' = [task EXCEPT ![t].next = IF @ = "ack" THEN "alert" ELSE "addonAlert"]
  /\ told' = IF task[t].next = "ack" THEN told \cup {task[t].ref} ELSE told
  /\ UNCHANGED <<session, dbVars, stage, missed>>

\* notify_booking_confirmation swallows what the alert raises.
OfferUpsell(t) ==
  /\ Returns(t, {"alert"})
  /\ BookingOf(t).lane # "moto"
  /\ SetState(t, "UPSELL_DETAILING")
  /\ Waiting(task, t, "end")
  /\ UNCHANGED <<dbVars, stage, missed, told>>

\* Meta refuses the call or its answer is lost: the handler ends there, before
\* the bot stage is tracked.
CallFails(t) ==
  /\ Returns(t, Nexts \ {"alert", "addonAlert"})
  /\ task' = [task EXCEPT ![t] = NoTask]
  /\ missed' = TRUE
  /\ told' \in {told, IF task[t].next = "ack" THEN told \cup {task[t].ref} ELSE told}
  /\ UNCHANGED <<session, dbVars, stage>>

\* The process restarts, or the conversation is older than STATE_TTL when
\* state.get looks at it.
Forget ==
  /\ session' = NewSession
  /\ task' = [t \in Task |-> NoTask]
  /\ overtaken' = [t \in Task |-> 0]
  /\ missed' = TRUE
  /\ UNCHANGED <<dbVars, stage, told>>

-----------------------------------------------------------------------------

Message(t) ==
  \/ ToMenu(t) \/ IdleMessage(t) \/ StartBooking(t) \/ AskHuman(t)
  \/ ShowServices(t) \/ Farewell(t) \/ Abandon(t) \/ Reprompt(t)
  \/ ReturningYes(t) \/ BookName(t) \/ BookVehicle(t) \/ BookModel(t)
  \/ BookColor(t) \/ BookWhere(t) \/ BookCenter(t) \/ BookGeo(t)
  \/ BookAddress(t) \/ BookPromoAsk(t) \/ BookPromoCode(t) \/ BookService(t)
  \/ BookWhen(t) \/ BookSlot(t) \/ BookNote(t)
  \/ ConfirmYes(t) \/ UpsellYes(t) \/ UpsellPick(t) \/ StoreFails(t)

Answer(t) ==
  \/ Finish(t) \/ MenuAfterServices(t) \/ AskService(t) \/ ResetAtEnd(t)
  \/ Alert(t) \/ OfferUpsell(t) \/ CallFails(t)

Next ==
  \/ Forget \/ AnotherBooks
  \/ \E t \in Task : Message(t) \/ Answer(t)

Spec == Init /\ [][Next]_vars

-----------------------------------------------------------------------------
(* Properties. *)

CarAnswers == {"name", "model", "color", "service", "when", "slot"}
MotoAnswers == {"name", "service", "when", "slot"}

Stored == {r \in 1..MaxRefs : rows[r] # NoBooking}
Own == {r \in Stored : rows[r] # OtherRow}

\* Whatever buttons are pressed late, whichever calls fail, a booking stored
\* went through every question of its lane ("Moto lane skips model and color")
\* and has a place: a center, or a pin with an address.
RowsAreComplete ==
  \A r \in Own :
    LET b == rows[r]
    IN /\ \/ b.lane = "car" /\ CarAnswers \subseteq b.got
          \/ b.lane = "moto" /\ MotoAnswers \subseteq b.got
       /\ ("center" \in b.got \/ {"geo", "address"} \subseteq b.got)

\* The stored price was taken from the grid that the stored promo code selects.
PricesMatchPromo ==
  \A r \in Own :
    rows[r].price = IF rows[r].promo /\ rows[r].lane = "car"
                    THEN "partner" ELSE "public"

\* A reference the customer was told is registered has a row, whatever fails,
\* is repeated or restarts: it is stored before the message goes out.  (After
\* a failed reservation the row may be another customer's: BookingRefs.)
ToldIsStored == told \subseteq Stored

\* The admin portal's bot stage is the state of the conversation whenever
\* nothing is in progress, unless the last handler raised.
StageIsCurrent ==
  (\A t \in Task : task[t] = NoTask) /\ ~missed => stage = session.state

-----------------------------------------------------------------------------
(* What the proofs need to know besides (Conversation_proofs). *)

Bare == {"IDLE", "MENU", "HANDOFF"}
Upselling == {"UPSELL_DETAILING", "UPSELL_DETAILING_PICK"}

\* A handler that uses the Booking of its Session finds one.
BookingIsThere ==
  /\ session.state \notin Bare => session.booking \in Bookings
  /\ \A t \in Task :
       /\ task[t].mine => session.booking \in Bookings
       /\ task[t].next \in {"ack", "addonAck", "alert"} /\ ~task[t].mine =>
            task[t].booking \in Bookings

\* What is acknowledged has a row.
AcksHaveRows ==
  \A t \in Task : task[t].next \in {"ack", "alert"} => task[t].ref \in Stored

ConversationInv ==
  TypeOK /\ BookingIsThere /\ AcksHaveRows /\ ToldIsStored

\* What a Booking, or a profile, has at each step of the path.
Identified(b) ==
  \/ b.lane = "car" /\ Identity \subseteq b.got
  \/ b.lane = "moto" /\ "name" \in b.got
Located(b) ==
  Identified(b) /\ ("center" \in b.got \/ {"geo", "address"} \subseteq b.got)
Priced(b) == Located(b) /\ "service" \in b.got /\ b.price = Grid(b)

Ready(st, b) ==
  /\ st = "BOOK_VEHICLE" => "name" \in b.got
  /\ st = "BOOK_MODEL" => b.lane = "car" /\ "name" \in b.got
  /\ st = "BOOK_COLOR" => b.lane = "car" /\ {"name", "model"} \subseteq b.got
  /\ st \in {"RETURNING_CUSTOMER", "BOOK_WHERE", "BOOK_CENTER", "BOOK_GEO",
             "BOOK_ADDRESS"} => Identified(b)
  /\ st = "BOOK_ADDRESS" => "geo" \in b.got
  /\ st \in {"BOOK_PROMO_ASK", "BOOK_PROMO_CODE", "BOOK_SERVICE"} => Located(b)
  /\ st = "BOOK_WHEN" => Priced(b)
  /\ st = "BOOK_SLOT" => Priced(b) /\ "when" \in b.got
  /\ st \in {"BOOK_NOTE", "BOOK_NOTE_TEXT", "BOOK_CONFIRM"} =>
       Priced(b) /\ {"when", "slot"} \subseteq b.got

\* The answers of a customer since the service was asked.
Past(st) == CASE st = "BOOK_WHEN" -> 1
              [] st = "BOOK_SLOT" -> 2
              [] st = "BOOK_NOTE" -> 3
              [] st \in {"BOOK_NOTE_TEXT", "BOOK_CONFIRM"} -> 4
              [] OTHER -> 0
Placed == {"BOOK_PROMO_ASK", "BOOK_PROMO_CODE", "BOOK_SERVICE", "BOOK_WHEN",
           "BOOK_SLOT", "BOOK_NOTE", "BOOK_NOTE_TEXT", "BOOK_CONFIRM"} \cup Upselling

\* A handler of the promo code will still set the state of the Session: the
\* conversation has not gone further than the messages handled meanwhile.
SetsStateLate(t) == task[t].mine /\ task[t].next \in {"promoAsk", "askService"}
LateStateIsNear ==
  \A t \in Task : SetsStateLate(t) =>
    /\ session.state \in Placed /\ Located(session.booking)
    /\ Past(session.state) <= overtaken[t]

\* Fewer messages overtake a call than it takes from the service to the next
\* booking: BOOK_SERVICE, _WHEN, _SLOT, _NOTE and start_booking.
FewOvertakes == MaxOvertakes <= 4

PathInv ==
  /\ Ready(session.state, session.booking)
  /\ profile # NoProfile => Identified(profile)
  /\ LateStateIsNear
  /\ \A r \in Own : Priced(rows[r]) /\ {"when", "slot"} \subseteq rows[r].got

=============================================================================
