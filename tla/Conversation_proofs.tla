------------------------- MODULE Conversation_proofs -------------------------
(* The WhatsApp conversation of a phone, for any number of requests in     *)
(* progress and of references: a reference that was told has a row, what   *)
(* is stored is complete and priced as the promo code says, and the bot    *)
(* stage follows.                                                          *)
EXTENDS Conversation, TLAPS

-----------------------------------------------------------------------------
(* Bookings, sessions and waiting handlers.                                *)

(* The record of a handler that waits without its Session, and with it.    *)
Plain(next) == [NoTask EXCEPT !.next = next]
Keeping(next, ref) == [NoTask EXCEPT !.next = next, !.mine = TRUE, !.ref = ref]
TaskRecord == [next : Nexts, mine : BOOLEAN,
               booking : Bookings \cup {NoBooking}, ref : 0..MaxRefs]
Sessions == [state : States, booking : Bookings \cup {NoBooking}]
RowValues == Bookings \cup {NoBooking, OtherRow}

LEMMA NoneApart == /\ NoBooking \notin Bookings /\ NoProfile \notin Profiles
                   /\ NoTask \notin TaskRecord
                   /\ OtherRow \notin Bookings /\ OtherRow # NoBooking
<1>1. ASSUME NoBooking \in Bookings PROVE FALSE
  <2>1. "lane" \in DOMAIN NoBooking /\ "lane" \notin DOMAIN NoBooking
    BY <1>1 DEF Bookings, NoBooking
  <2> QED BY <2>1
<1>2. ASSUME NoProfile \in Profiles PROVE FALSE
  <2>1. "lane" \in DOMAIN NoProfile /\ "lane" \notin DOMAIN NoProfile
    BY <1>2 DEF Profiles, NoProfile
  <2> QED BY <2>1
<1>3. NoTask \notin TaskRecord
  BY DEF NoTask, TaskRecord, Nexts
<1>4. ASSUME OtherRow \in Bookings PROVE FALSE
  <2>1. "lane" \in DOMAIN OtherRow /\ "lane" \notin DOMAIN OtherRow
    BY <1>4 DEF Bookings, OtherRow
  <2> QED BY <2>1
<1>5. ASSUME OtherRow = NoBooking PROVE FALSE
  <2>1. "other" \in DOMAIN OtherRow /\ "other" \notin DOMAIN NoBooking
    BY DEF OtherRow, NoBooking
  <2> QED BY <1>5, <2>1
<1> QED BY <1>1, <1>2, <1>3, <1>4, <1>5

LEMMA PlainTask ==
  ASSUME NEW n \in Nexts
  PROVE  /\ Plain(n) \in TaskRecord /\ Plain(n).next = n /\ ~Plain(n).mine
         /\ Plain(n) # NoTask /\ Plain(n).booking = NoBooking
<1>1. Plain(n) \in TaskRecord
  <2>1. NoTask \in [next : Nexts \cup {"none"}, mine : BOOLEAN,
                   booking : Bookings \cup {NoBooking}, ref : 0..MaxRefs]
    BY ConversationConstants DEF NoTask
  <2> QED
    BY <2>1 DEF Plain, TaskRecord
<1>2. Plain(n).next = n /\ Plain(n).booking = NoBooking
  BY DEF Plain, NoTask
<1>3. ~Plain(n).mine
  BY DEF Plain, NoTask
<1>4. Plain(n) # NoTask
  BY <1>1, NoneApart
<1> QED
  BY <1>1, <1>2, <1>3, <1>4

LEMMA KeepingTask ==
  ASSUME NEW n \in Nexts, NEW r \in 0..MaxRefs
  PROVE  /\ Keeping(n, r) \in TaskRecord /\ Keeping(n, r).next = n /\ Keeping(n, r).mine
         /\ Keeping(n, r) # NoTask /\ Keeping(n, r).ref = r
  BY ConversationConstants DEF Keeping, NoTask, TaskRecord, Nexts

LEMMA NoTaskIs == NoTask.next = "none" /\ ~NoTask.mine /\ NoTask.next \notin Nexts
  BY DEF NoTask, Nexts

LEMMA NewBookingTyped ==
  /\ NewBooking \in Bookings /\ NewBooking.ref = 0 /\ NewBooking.got = {}
  /\ NewBooking.lane = "" /\ ~NewBooking.promo
  BY ConversationConstants DEF NewBooking, Bookings

LEMMA NewSessionTyped ==
  /\ NewSession \in Sessions /\ NewSession.state = "IDLE" /\ NewSession.booking = NoBooking
  /\ [NewSession EXCEPT !.state = "MENU"] = [state |-> "MENU", booking |-> NoBooking]
  BY DEF NewSession, Sessions, States

LEMMA GotTyped ==
  ASSUME session.booking \in Bookings, NEW a \in Answers
  PROVE  /\ Got(a) \in Bookings /\ Got(a).ref = session.booking.ref
         /\ Got(a).got = session.booking.got \cup {a}
         /\ Got(a).lane = session.booking.lane /\ Got(a).promo = session.booking.promo
         /\ Got(a).price = session.booking.price
  BY DEF Got, Bookings

LEMMA KnownTyped ==
  ASSUME profile \in Profiles \cup {NoProfile}, NEW b \in Bookings
  PROVE  /\ Known(b) \in Profiles /\ Known(b).lane = b.lane
         /\ b.got \cap Identity \subseteq Known(b).got
<1>1. b.got \in SUBSET Answers /\ b.lane \in {"", "car", "moto"}
  BY DEF Bookings
<1>2. profile # NoProfile => profile.got \in SUBSET Identity
  BY DEF Profiles
<1> QED
  BY <1>1, <1>2 DEF Known, Profiles, Identity

(* What TypeOK says, in the terms used here.                               *)
LEMMA Typed ==
  ASSUME TypeOK
  PROVE  /\ session \in Sessions /\ task \in [Task -> {NoTask} \cup TaskRecord]
         /\ overtaken \in [Task -> 0..MaxOvertakes]
         /\ rows \in [1..MaxRefs -> RowValues]
         /\ profile \in Profiles \cup {NoProfile}
         /\ stage \in States /\ missed \in BOOLEAN /\ told \subseteq 0..MaxRefs
  BY DEF TypeOK, Sessions, TaskRecord, RowValues

LEMMA TypedNext ==
  ASSUME session' \in Sessions, task' \in [Task -> {NoTask} \cup TaskRecord],
         overtaken' \in [Task -> 0..MaxOvertakes],
         rows' \in [1..MaxRefs -> RowValues],
         profile' \in Profiles \cup {NoProfile},
         stage' \in States, missed' \in BOOLEAN, told' \subseteq 0..MaxRefs
  PROVE  TypeOK'
  BY DEF TypeOK, Sessions, TaskRecord, RowValues

LEMMA TaskFields ==
  ASSUME TypeOK, NEW t \in Task
  PROVE  /\ task[t] = NoTask \/ task[t] \in TaskRecord
         /\ task[t].mine \in BOOLEAN /\ task[t].booking \in Bookings \cup {NoBooking}
         /\ task[t].ref \in 0..MaxRefs /\ task[t].next \in Nexts \cup {"none"}
         /\ task[t] = NoTask <=> task[t].next = "none"
<1>1. task[t] \in {NoTask} \cup TaskRecord
  BY Typed
<1>2. /\ NoTask.mine \in BOOLEAN /\ NoTask.booking \in Bookings \cup {NoBooking}
      /\ NoTask.ref \in 0..MaxRefs /\ NoTask.next = "none"
  BY ConversationConstants DEF NoTask
<1>3. \A x \in TaskRecord :
        /\ x.mine \in BOOLEAN /\ x.booking \in Bookings \cup {NoBooking}
        /\ x.ref \in 0..MaxRefs /\ x.next \in Nexts
  BY DEF TaskRecord
<1>4. "none" \notin Nexts
  BY DEF Nexts
<1> QED
  BY <1>1, <1>2, <1>3, <1>4

LEMMA SessionFields ==
  ASSUME TypeOK
  PROVE  /\ session.state \in States /\ session.booking \in Bookings \cup {NoBooking}
         /\ session = [state |-> session.state, booking |-> session.booking]
  BY Typed DEF Sessions

LEMMA DetachedTyped ==
  ASSUME TypeOK, BookingIsThere
  PROVE  /\ Detached \in [Task -> {NoTask} \cup TaskRecord]
         /\ \A t \in Task :
              /\ ~Detached[t].mine /\ Detached[t].next = task[t].next
              /\ Detached[t].ref = task[t].ref
              /\ Detached[t] = NoTask <=> task[t] = NoTask
              /\ task[t].next \in {"ack", "addonAck", "alert"} =>
                   Detached[t].booking \in Bookings
<1> SUFFICES ASSUME NEW t \in Task
             PROVE  /\ Detached[t] \in {NoTask} \cup TaskRecord
                    /\ ~Detached[t].mine /\ Detached[t].next = task[t].next
                    /\ Detached[t].ref = task[t].ref
                    /\ Detached[t] = NoTask <=> task[t] = NoTask
                    /\ task[t].next \in {"ack", "addonAck", "alert"} =>
                         Detached[t].booking \in Bookings
  BY DEF Detached
<1>1. CASE task[t].mine
  <2>1. task[t] \in TaskRecord
    BY <1>1, TaskFields, NoTaskIs
  <2>2. Detached[t] = [task[t] EXCEPT !.mine = FALSE, !.booking = session.booking]
    BY <1>1 DEF Detached
  <2>3. session.booking \in Bookings
    BY <1>1 DEF BookingIsThere
  <2>4. /\ Detached[t] \in TaskRecord /\ ~Detached[t].mine /\ Detached[t].next = task[t].next
        /\ Detached[t].ref = task[t].ref /\ Detached[t].booking = session.booking
    BY <2>1, <2>2, <2>3 DEF TaskRecord
  <2> QED
    BY <2>1, <2>3, <2>4, NoneApart
<1>2. CASE ~task[t].mine
  <2>1. Detached[t] = task[t]
    BY <1>2 DEF Detached
  <2> QED
    BY <1>2, <2>1, TaskFields DEF BookingIsThere
<1> QED
  BY <1>1, <1>2, TaskFields

LEMMA ReceivesOvertaken ==
  ASSUME TypeOK, NEW t \in Task, Receives(t)
  PROVE  /\ overtaken' \in [Task -> 0..MaxOvertakes] /\ task[t] = NoTask
         /\ \A u \in Task : u # t /\ task[u] # NoTask =>
              overtaken[u] < MaxOvertakes /\ overtaken'[u] = overtaken[u] + 1
  BY Typed, ConversationConstants DEF Receives

LEMMA ReturnsOvertaken ==
  ASSUME TypeOK, NEW t \in Task, NEW nexts, Returns(t, nexts)
  PROVE  /\ overtaken' \in [Task -> 0..MaxOvertakes] /\ task[t].next \in nexts
         /\ \A u \in Task : u # t => overtaken'[u] = overtaken[u]
  BY Typed, ConversationConstants DEF Returns

-----------------------------------------------------------------------------
(* The shapes of a step.                                                   *)

(* A message whose handler keeps the Session and stores no booking.        *)
Moved(t) ==
  /\ Receives(t)
  /\ session' \in Sessions
  /\ session'.state \notin Bare => session'.booking \in Bookings
  /\ session.booking \in Bookings => session'.booking \in Bookings
  /\ \/ session'.booking = NoBooking
     \/ session'.booking.ref = 0
     \/ session.booking \in Bookings /\ session'.booking.ref = session.booking.ref
  /\ session'.state \in Upselling =>
       session.state \in Upselling /\ session'.booking = session.booking
  /\ session.state \in Upselling => session'.state \in Upselling
  /\ \E x \in TaskRecord :
       /\ task' = [task EXCEPT ![t] = x]
       /\ \/ ~x.mine /\ x.next \in {"end", "menu", "reset"}
          \/ /\ x.mine /\ x.next \in {"promoAsk", "askService"}
             /\ session.state = "BOOK_PROMO_CODE" /\ session'.state = "BOOK_PROMO_CODE"
             /\ session'.booking.got = session.booking.got
             /\ session'.booking.lane = session.booking.lane
  /\ profile' \in Profiles \cup {NoProfile}
  /\ UNCHANGED <<rows, stage, missed, told>>

(* The messages that are of this shape.                                    *)
PathMessage(t) ==
  \/ StartBooking(t) \/ AskHuman(t) \/ ShowServices(t) \/ Farewell(t) \/ Reprompt(t)
  \/ ReturningYes(t) \/ BookName(t) \/ BookVehicle(t) \/ BookModel(t)
  \/ BookColor(t) \/ BookWhere(t) \/ BookCenter(t) \/ BookGeo(t)
  \/ BookAddress(t) \/ BookPromoAsk(t) \/ BookPromoCode(t) \/ BookService(t)
  \/ BookWhen(t) \/ BookSlot(t) \/ BookNote(t) \/ UpsellYes(t)

(* The phone gets a new Session.                                           *)
Renewed(t) ==
  /\ session' \in Sessions
  /\ \/ session'.state \in {"IDLE", "MENU"} /\ session'.booking = NoBooking
     \/ /\ session'.state = "RETURNING_CUSTOMER" /\ session'.booking \in Bookings
        /\ session'.booking.ref = 0
        /\ profile # NoProfile /\ session'.booking.lane = profile.lane
        /\ session'.booking.got = profile.got
  /\ overtaken' \in [Task -> 0..MaxOvertakes]
  /\ \/ /\ task' = [Detached EXCEPT ![t] = Plain("end")]
        /\ stage' \in States /\ missed' \in BOOLEAN
     \/ task' = [Detached EXCEPT ![t] = NoTask] /\ Track(session'.state)
  /\ UNCHANGED <<dbVars, told>>

(* A handler goes on after a call and at most sets the state.              *)
Resumed(t) ==
  /\ overtaken' = [overtaken EXCEPT ![t] = 0]
  /\ \/ UNCHANGED session /\ (task[t].next \in {"ack", "addonAck", "alert"} => ~task[t].mine)
     \/ /\ task[t].mine
        /\ session' = [session EXCEPT !.state = session'.state]
        /\ \/ task[t].next = "promoAsk" /\ session'.state = "BOOK_PROMO_ASK"
           \/ task[t].next = "askService" /\ session'.state = "BOOK_SERVICE"
           \/ task[t].next = "alert" /\ session'.state = "UPSELL_DETAILING"
  /\ \/ task' = [task EXCEPT ![t] = Plain("end")] /\ UNCHANGED <<stage, missed>>
     \/ task' = [task EXCEPT ![t] = NoTask] /\ Track(session'.state)
  /\ UNCHANGED <<dbVars, told>>

LEMMA WaitingIs ==
  ASSUME NEW tasks, NEW t \in Task, NEW n, Waiting(tasks, t, n)
  PROVE  task' = [tasks EXCEPT ![t] = Plain(n)]
  BY DEF Waiting, Plain

LEMMA WaitingWithIs ==
  ASSUME NEW t \in Task, NEW n, NEW r, WaitingWith(t, n, r)
  PROVE  task' = [task EXCEPT ![t] = Keeping(n, r)]
  BY DEF WaitingWith, Keeping

LEMMA WaitsPlainly ==
  ASSUME NEW t \in Task, NEW n \in {"end", "menu", "reset"}, Waiting(task, t, n)
  PROVE  \E x \in TaskRecord : /\ task' = [task EXCEPT ![t] = x]
                               /\ ~x.mine /\ x.next \in {"end", "menu", "reset"}
<1>1. n \in Nexts
  BY DEF Nexts
<1> QED
  BY <1>1, PlainTask, WaitingIs

LEMMA AdvanceMoves ==
  ASSUME TypeOK, BookingIsThere, NEW t \in Task,
         NEW from, NEW b \in Bookings \cup {NoBooking}, NEW to \in States,
         Advance(t, from, b, to),
         to \notin Bare => b \in Bookings,
         session.booking \in Bookings => b \in Bookings,
         \/ b = NoBooking \/ b.ref = 0
         \/ session.booking \in Bookings /\ b.ref = session.booking.ref,
         to \in Upselling => from \in Upselling /\ b = session.booking,
         from \in Upselling => to \in Upselling
  PROVE  Moved(t)
<1>1. /\ Receives(t) /\ session.state = from /\ session' = [state |-> to, booking |-> b]
      /\ Waiting(task, t, "end")
      /\ UNCHANGED <<rows, profile, stage, missed, told>>
  BY DEF Advance, On, dbVars
<1>2. session' \in Sessions /\ session'.state = to /\ session'.booking = b
  BY <1>1 DEF Sessions
<1>3. \E x \in TaskRecord : /\ task' = [task EXCEPT ![t] = x]
                            /\ ~x.mine /\ x.next \in {"end", "menu", "reset"}
  BY <1>1, WaitsPlainly
<1>4. profile' \in Profiles \cup {NoProfile}
  BY <1>1, Typed
<1> QED
  BY <1>1, <1>2, <1>3, <1>4 DEF Moved

(* As AdvanceMoves, with the Booking of the Session or one more answer.    *)
LEMMA AnswerMoves ==
  ASSUME TypeOK, BookingIsThere, NEW t \in Task,
         NEW from \in States \ (Bare \cup Upselling), NEW b, NEW to \in States \ Upselling,
         Advance(t, from, b, to),
         \/ b = session.booking
         \/ \E a \in Answers : b = Got(a)
         \/ session.booking \in Bookings => b \in Bookings /\ b.ref = session.booking.ref
  PROVE  Moved(t)
<1>1. session.booking \in Bookings
  BY DEF Advance, On, BookingIsThere
<1>2. b \in Bookings /\ b.ref = session.booking.ref
  BY <1>1, GotTyped
<1> QED
  BY <1>1, <1>2, AdvanceMoves

(* A step that stays where it is, but for the Booking.                     *)
LEMMA StayMoves ==
  ASSUME TypeOK, BookingIsThere, NEW t \in Task, Receives(t), UNCHANGED session,
         NEW n \in {"end", "menu", "reset"}, Waiting(task, t, n),
         UNCHANGED <<dbVars, stage, missed, told>>
  PROVE  Moved(t)
<1>1. \E x \in TaskRecord : /\ task' = [task EXCEPT ![t] = x]
                            /\ ~x.mine /\ x.next \in {"end", "menu", "reset"}
  BY WaitsPlainly
<1>2. session' \in Sessions /\ session.state \in States
  BY Typed, SessionFields
<1>3. profile' \in Profiles \cup {NoProfile}
  BY Typed DEF dbVars
<1> QED
  BY <1>1, <1>2, <1>3, SessionFields DEF Moved, BookingIsThere, dbVars

(* A step that stores what it knows of the customer and moves on.          *)
LEMMA KnowsMoves ==
  ASSUME TypeOK, BookingIsThere, NEW t \in Task, Receives(t),
         NEW to \in States \ Upselling, NEW b \in Bookings,
         session.state \notin Upselling,
         session.booking \in Bookings, b.ref = session.booking.ref,
         session' = [state |-> to, booking |-> b],
         profile' = profile \/ \E c \in Bookings : profile' = Known(c),
         Waiting(task, t, "end"),
         UNCHANGED <<rows, stage, missed, told>>
  PROVE  Moved(t)
<1>1. \E x \in TaskRecord : /\ task' = [task EXCEPT ![t] = x]
                            /\ ~x.mine /\ x.next \in {"end", "menu", "reset"}
  BY WaitsPlainly
<1>2. session' \in Sessions /\ session'.state = to /\ session'.booking = b
  BY DEF Sessions
<1>3. profile' \in Profiles \cup {NoProfile}
  BY Typed, KnownTyped
<1> QED
  BY <1>1, <1>2, <1>3 DEF Moved

LEMMA PathMoves ==
  ASSUME TypeOK, BookingIsThere, NEW t \in Task, PathMessage(t)
  PROVE  Moved(t)
<1> USE DEF States, Bare, Upselling, Answers
<1>1. CASE StartBooking(t)
  BY <1>1, AdvanceMoves, NewBookingTyped DEF StartBooking
<1>2. CASE AskHuman(t)
  BY <1>2, AdvanceMoves, SessionFields DEF AskHuman
<1>3. CASE ShowServices(t)
  BY <1>3, StayMoves DEF ShowServices, On
<1>4. CASE Farewell(t)
  BY <1>4, StayMoves DEF Farewell
<1>5. CASE Reprompt(t)
  BY <1>5, StayMoves DEF Reprompt
<1>6. CASE ReturningYes(t)
  <2>1. session.state = "RETURNING_CUSTOMER" /\ session.booking \in Bookings
    BY <1>6 DEF ReturningYes, On, BookingIsThere
  <2>2. session' = [state |-> "BOOK_WHERE", booking |-> session.booking]
    BY <1>6, SessionFields DEF ReturningYes
  <2> QED
    BY <1>6, <2>1, <2>2, KnowsMoves DEF ReturningYes, On
<1>7. CASE BookName(t)
  BY <1>7, AnswerMoves DEF BookName
<1>8. CASE BookVehicle(t)
  <2>1. ASSUME NEW l \in {"car", "moto"}, session.booking \in Bookings
        PROVE  /\ [session.booking EXCEPT !.lane = l] \in Bookings
               /\ [session.booking EXCEPT !.lane = l].ref = session.booking.ref
    BY <2>1 DEF Bookings
  <2>2. CASE Advance(t, "BOOK_VEHICLE", [session.booking EXCEPT !.lane = "car"], "BOOK_MODEL")
    BY <2>1, <2>2, AnswerMoves
  <2>3. CASE ~Advance(t, "BOOK_VEHICLE", [session.booking EXCEPT !.lane = "car"], "BOOK_MODEL")
    <3> DEFINE b == [session.booking EXCEPT !.lane = "moto"]
    <3>1. /\ Receives(t) /\ session.state = "BOOK_VEHICLE"
          /\ session' = [state |-> "BOOK_WHERE", booking |-> b]
          /\ profile' = Known(b) /\ Waiting(task, t, "end")
          /\ UNCHANGED <<rows, stage, missed, told>>
      BY <1>8, <2>3 DEF BookVehicle, On
    <3>2. session.booking \in Bookings
      BY <3>1 DEF BookingIsThere
    <3> HIDE DEF b
    <3>3. b \in Bookings /\ b.ref = session.booking.ref
      BY <2>1, <3>2 DEF b
    <3> QED
      BY <3>1, <3>2, <3>3, KnowsMoves
  <2> QED
    BY <2>2, <2>3
<1>9. CASE BookModel(t)
  BY <1>9, AnswerMoves DEF BookModel
<1>10. CASE BookColor(t)
  <2>1. session.state = "BOOK_COLOR" /\ session.booking \in Bookings
    BY <1>10 DEF BookColor, On, BookingIsThere
  <2>2. Got("color") \in Bookings /\ Got("color").ref = session.booking.ref
    BY <2>1, GotTyped
  <2>3. profile' = profile \/ profile' = Known(Got("color"))
    BY <1>10 DEF BookColor
  <2> QED
    BY <1>10, <2>1, <2>2, <2>3, KnowsMoves DEF BookColor, On
<1>11. CASE BookWhere(t)
  BY <1>11, AnswerMoves DEF BookWhere, AfterLocation
<1>12. CASE BookCenter(t)
  BY <1>12, AnswerMoves DEF BookCenter, AfterLocation
<1>13. CASE BookGeo(t)
  BY <1>13, AnswerMoves DEF BookGeo
<1>14. CASE BookAddress(t)
  BY <1>14, AnswerMoves DEF BookAddress, AfterLocation
<1>15. CASE BookPromoAsk(t)
  BY <1>15, AnswerMoves DEF BookPromoAsk
<1>16. CASE BookPromoCode(t)
  <2>1. CASE Advance(t, "BOOK_PROMO_CODE", session.booking, "BOOK_SERVICE")
    BY <2>1, AnswerMoves
  <2>2. ASSUME NEW n \in {"askService", "promoAsk"}, On(t, "BOOK_PROMO_CODE"),
               WaitingWith(t, n, 0), UNCHANGED <<dbVars, stage, missed, told>>,
               session' = session \/ session' = [session EXCEPT !.booking.promo = TRUE]
        PROVE  Moved(t)
    <3>1. Receives(t) /\ session.state = "BOOK_PROMO_CODE" /\ session.booking \in Bookings
      BY <2>2 DEF On, BookingIsThere
    <3>2. 0 \in 0..MaxRefs /\ n \in Nexts
      BY ConversationConstants DEF Nexts
    <3>3. Keeping(n, 0) \in TaskRecord /\ Keeping(n, 0).mine /\ Keeping(n, 0).next = n
      BY <3>2, KeepingTask
    <3>4. task' = [task EXCEPT ![t] = Keeping(n, 0)]
      BY <2>2, WaitingWithIs
    <3>5. /\ session'.state = "BOOK_PROMO_CODE" /\ session'.booking \in Bookings
          /\ session'.booking.ref = session.booking.ref
          /\ session'.booking.got = session.booking.got
          /\ session'.booking.lane = session.booking.lane
          /\ session' \in Sessions
      <4>1. CASE session' = session
        BY <3>1, <4>1, Typed
      <4>2. CASE session' = [session EXCEPT !.booking.promo = TRUE]
        BY <3>1, <4>2, Typed DEF Sessions, Bookings
      <4> QED BY <2>2, <4>1, <4>2
    <3>6. profile' \in Profiles \cup {NoProfile}
      BY <2>2, Typed DEF dbVars
    <3> QED
      BY <2>2, <3>1, <3>3, <3>4, <3>5, <3>6 DEF Moved, dbVars
  <2> QED
    BY <1>16, <2>1, <2>2 DEF BookPromoCode
<1>17. CASE BookService(t)
  <2> DEFINE b == [Got("service") EXCEPT !.price = Grid(session.booking)]
  <2>1. ASSUME session.booking \in Bookings
        PROVE  b \in Bookings /\ b.ref = session.booking.ref
    <3>1. Got("service") \in Bookings /\ Got("service").ref = session.booking.ref
      BY <2>1, GotTyped
    <3>2. Grid(session.booking) \in {"", "public", "partner"}
      BY DEF Grid
    <3> QED
      BY <3>1, <3>2 DEF Bookings
  <2>2. Advance(t, "BOOK_SERVICE", b, "BOOK_WHEN")
    BY <1>17 DEF BookService
  <2> HIDE DEF b
  <2> QED
    BY <2>1, <2>2, AnswerMoves
<1>18. CASE BookWhen(t)
  BY <1>18, AnswerMoves DEF BookWhen
<1>19. CASE BookSlot(t)
  BY <1>19, AnswerMoves DEF BookSlot
<1>20. CASE BookNote(t)
  BY <1>20, AnswerMoves DEF BookNote
<1>21. CASE UpsellYes(t)
  <2>1. session.booking \in Bookings
    BY <1>21 DEF UpsellYes, Advance, On, BookingIsThere
  <2> QED
    BY <1>21, <2>1, AdvanceMoves DEF UpsellYes
<1> QED
  BY <1>1, <1>2, <1>3, <1>4, <1>5, <1>6, <1>7, <1>8, <1>9, <1>10, <1>11, <1>12, <1>13,
     <1>14, <1>15, <1>16, <1>17, <1>18, <1>19, <1>20, <1>21 DEF PathMessage

LEMMA MenuRenews ==
  ASSUME TypeOK, NEW t \in Task, SendMenu(t), overtaken' \in [Task -> 0..MaxOvertakes],
         UNCHANGED <<dbVars, told>>
  PROVE  Renewed(t)
<1>1. session' = [state |-> "MENU", booking |-> NoBooking]
  BY NewSessionTyped DEF SendMenu
<1>2. task' = [Detached EXCEPT ![t] = Plain("end")]
  BY WaitingIs DEF SendMenu
<1>3. stage' \in States /\ missed' \in BOOLEAN
  BY Typed DEF SendMenu, Track, States
<1>4. session' \in Sessions /\ session'.state = "MENU" /\ session'.booking = NoBooking
  BY <1>1 DEF Sessions, States
<1> QED
  BY <1>2, <1>3, <1>4 DEF Renewed

(* The steps that give the phone a new Session.                            *)
Renewing(t) ==
  ToMenu(t) \/ IdleMessage(t) \/ Abandon(t) \/ MenuAfterServices(t) \/ ResetAtEnd(t)

LEMMA RenewingRenews ==
  ASSUME TypeOK, NEW t \in Task, Renewing(t)
  PROVE  Renewed(t)
<1>1. CASE ToMenu(t)
  BY <1>1, MenuRenews, ReceivesOvertaken DEF ToMenu
<1>2. CASE IdleMessage(t)
  <2>1. overtaken' \in [Task -> 0..MaxOvertakes] /\ UNCHANGED <<dbVars, told>>
    BY <1>2, ReceivesOvertaken DEF IdleMessage, On
  <2>2. CASE SendMenu(t)
    BY <2>1, <2>2, MenuRenews
  <2>3. CASE SendReturningPrompt(t)
    <3> DEFINE b == [NewBooking EXCEPT !.lane = profile.lane, !.got = profile.got]
    <3>1. profile \in Profiles /\ profile # NoProfile
      BY <2>3, Typed DEF SendReturningPrompt
    <3>2. profile.lane \in {"", "car", "moto"} /\ profile.got \in SUBSET Answers
      BY <3>1 DEF Profiles, Identity, Answers
    <3>3. b \in Bookings /\ b.ref = 0 /\ b.lane = profile.lane /\ b.got = profile.got
      BY <3>2, NewBookingTyped DEF Bookings
    <3>4. session' = [state |-> "RETURNING_CUSTOMER", booking |-> b]
      BY <2>3 DEF SendReturningPrompt
    <3> HIDE DEF b
    <3>5. /\ session' \in Sessions /\ session'.state = "RETURNING_CUSTOMER"
          /\ session'.booking = b
      BY <3>3, <3>4 DEF Sessions, States
    <3>6. task' = [Detached EXCEPT ![t] = Plain("end")]
      BY <2>3, WaitingIs DEF SendReturningPrompt
    <3>7. stage' \in States /\ missed' \in BOOLEAN
      BY <2>3, Typed DEF SendReturningPrompt, Track, States
    <3> QED
      BY <2>1, <3>1, <3>3, <3>5, <3>6, <3>7 DEF Renewed
  <2> QED
    BY <1>2, <2>2, <2>3 DEF IdleMessage
<1>3. CASE Abandon(t)
  <2>1. overtaken' \in [Task -> 0..MaxOvertakes] /\ UNCHANGED <<dbVars, told>>
    BY <1>3, ReceivesOvertaken DEF Abandon, On
  <2>2. task' = [Detached EXCEPT ![t] = Plain("end")]
    BY <1>3, WaitingIs DEF Abandon
  <2>3. stage' \in States /\ missed' \in BOOLEAN
    BY <1>3, Typed DEF Abandon
  <2> QED
    BY <1>3, <2>1, <2>2, <2>3, NewSessionTyped DEF Abandon, Renewed
<1>4. CASE MenuAfterServices(t)
  BY <1>4, MenuRenews, ReturnsOvertaken DEF MenuAfterServices
<1>5. CASE ResetAtEnd(t)
  <2>1. overtaken' \in [Task -> 0..MaxOvertakes] /\ UNCHANGED <<dbVars, told>>
    BY <1>5, ReturnsOvertaken DEF ResetAtEnd
  <2>2. session' = NewSession /\ task' = [Detached EXCEPT ![t] = NoTask] /\ Track("IDLE")
    BY <1>5 DEF ResetAtEnd, End
  <2> QED
    BY <2>1, <2>2, NewSessionTyped DEF Renewed
<1> QED
  BY <1>1, <1>2, <1>3, <1>4, <1>5 DEF Renewing

(* The steps that go on after a call.                                      *)
Resuming(t) == Finish(t) \/ AskService(t) \/ OfferUpsell(t)

LEMMA ResumingResumes ==
  ASSUME TypeOK, NEW t \in Task, Resuming(t)
  PROVE  Resumed(t)
<1>1. ASSUME NEW st \in States, SetState(t, st)
      PROVE  \/ UNCHANGED session /\ ~task[t].mine
             \/ /\ task[t].mine /\ session'.state = st
                /\ session' = [session EXCEPT !.state = session'.state]
  BY <1>1, Typed DEF SetState, Sessions
<1>2. CASE Finish(t)
  BY <1>1, <1>2 DEF Finish, Returns, End, Resumed, States
<1>3. CASE AskService(t)
  BY <1>1, <1>3, WaitingIs DEF AskService, Returns, Resumed, States
<1>4. CASE OfferUpsell(t)
  BY <1>1, <1>4, WaitingIs DEF OfferUpsell, Returns, Resumed, States
<1> QED
  BY <1>2, <1>3, <1>4 DEF Resuming

-----------------------------------------------------------------------------
(* The steps that store, fail or answer: what they do, in terms of fields. *)

LEMMA OwnRows ==
  ASSUME TypeOK, NEW r \in Own
  PROVE  r \in 1..MaxRefs /\ rows[r] \in Bookings
  BY Typed DEF Stored, Own, RowValues

(* confirm_yes takes a reference, which has its row from then on: the      *)
(* Booking's, unless there was one before.                                 *)
Confirms(t, ref) ==
  /\ Receives(t) /\ session.state = "BOOK_CONFIRM" /\ session.booking \in Bookings
  /\ session' \in Sessions /\ session'.state = "BOOK_CONFIRM"
  /\ Referenced(ref) \in Bookings /\ session'.booking = Referenced(ref)
  /\ Referenced(ref).lane = session.booking.lane
  /\ Referenced(ref).got = session.booking.got
  /\ Referenced(ref).promo = session.booking.promo
  /\ Referenced(ref).price = session.booking.price
  /\ rows' \in [1..MaxRefs -> RowValues]
  /\ Stored' = Stored \cup {ref}
  /\ \A r \in Own' : (rows'[r] = rows[r] /\ r \in Own) \/ rows'[r] = Referenced(ref)
  /\ profile' = profile \/ profile' = Known(Referenced(ref))
  /\ Keeping("ack", ref) \in TaskRecord
  /\ task' = [task EXCEPT ![t] = Keeping("ack", ref)]
  /\ UNCHANGED <<stage, missed, told>>

LEMMA ConfirmYesIs ==
  ASSUME TypeOK, BookingIsThere, NEW t \in Task, ConfirmYes(t)
  PROVE  \E ref \in 1..MaxRefs : Confirms(t, ref)
<1>1. PICK ref \in 1..MaxRefs :
        /\ session' = [session EXCEPT !.booking = Referenced(ref)]
        /\ rows' = AddRow(Referenced(ref))
        /\ profile' = IF rows[ref] = NoBooking THEN Known(Referenced(ref)) ELSE profile
        /\ WaitingWith(t, "ack", ref)
  BY DEF ConfirmYes
<1>2. /\ Receives(t) /\ session.state = "BOOK_CONFIRM" /\ session.booking \in Bookings
      /\ UNCHANGED <<stage, missed, told>>
  BY DEF ConfirmYes, On, BookingIsThere, Bare
<1>3. ref \in 0..MaxRefs /\ "ack" \in Nexts
  BY ConversationConstants DEF Nexts
<1>4. /\ Referenced(ref) \in Bookings /\ Referenced(ref).ref = ref
      /\ Referenced(ref).lane = session.booking.lane
      /\ Referenced(ref).got = session.booking.got
      /\ Referenced(ref).promo = session.booking.promo
      /\ Referenced(ref).price = session.booking.price
  BY <1>2, <1>3 DEF Referenced, Bookings
<1>5. /\ session' \in Sessions /\ session'.state = "BOOK_CONFIRM"
      /\ session'.booking = Referenced(ref)
  BY <1>1, <1>2, <1>4, Typed DEF Sessions
<1>6. Keeping("ack", ref) \in TaskRecord /\ task' = [task EXCEPT ![t] = Keeping("ack", ref)]
  BY <1>1, <1>3, KeepingTask, WaitingWithIs
<1>7. /\ rows' \in [1..MaxRefs -> RowValues]
      /\ Stored' = Stored \cup {ref}
      /\ \A r \in Own' : (rows'[r] = rows[r] /\ r \in Own) \/ rows'[r] = Referenced(ref)
  <2>1. CASE rows[ref] = NoBooking
    <3>1. rows' = [rows EXCEPT ![ref] = Referenced(ref)]
      BY <1>1, <1>4, <2>1 DEF AddRow
    <3>2. /\ rows' \in [1..MaxRefs -> RowValues]
          /\ \A r \in 1..MaxRefs : rows'[r] = IF r = ref THEN Referenced(ref) ELSE rows[r]
      BY <1>4, <3>1, Typed DEF RowValues
    <3> QED
      BY <1>4, <3>2, NoneApart DEF Stored, Own
  <2>2. CASE rows[ref] # NoBooking
    <3>1. rows' = rows
      BY <1>1, <1>4, <2>2 DEF AddRow
    <3> QED
      BY <2>2, <3>1, Typed DEF Stored, Own
  <2> QED
    BY <2>1, <2>2
<1> QED
  BY <1>1, <1>2, <1>4, <1>5, <1>6, <1>7 DEF Confirms

(* Somebody else's row takes a free reference.                             *)
LEMMA AnotherBooksIs ==
  ASSUME TypeOK, AnotherBooks
  PROVE  /\ rows' \in [1..MaxRefs -> RowValues] /\ Stored \subseteq Stored'
         /\ Own' \subseteq Own /\ \A r \in Own' : rows'[r] = rows[r]
         /\ UNCHANGED <<session, task, overtaken, profile, stage, missed, told>>
<1>1. PICK ref \in 1..MaxRefs :
        rows[ref] = NoBooking /\ rows' = [rows EXCEPT ![ref] = OtherRow]
  BY DEF AnotherBooks
<1>2. /\ rows' \in [1..MaxRefs -> RowValues]
      /\ \A r \in 1..MaxRefs : rows'[r] = IF r = ref THEN OtherRow ELSE rows[r]
  BY <1>1, Typed DEF RowValues
<1> QED
  BY <1>1, <1>2, NoneApart DEF AnotherBooks, Stored, Own

(* The add-on column is all that persist_booking_addon writes.             *)
LEMMA AddonRows ==
  ASSUME TypeOK, NEW ref \in 0..MaxRefs, rows' = AddAddon(ref)
  PROVE  /\ rows' \in [1..MaxRefs -> RowValues] /\ Stored' = Stored /\ Own' = Own
         /\ \A r \in Own :
              /\ rows'[r].lane = rows[r].lane /\ rows'[r].got = rows[r].got
              /\ rows'[r].promo = rows[r].promo /\ rows'[r].price = rows[r].price
<1>1. CASE ref \in Own
  <2> DEFINE b == [rows[ref] EXCEPT !.addon = TRUE]
  <2>1. rows[ref] \in Bookings
    BY <1>1, OwnRows
  <2>2. /\ b \in Bookings /\ b.lane = rows[ref].lane /\ b.got = rows[ref].got
        /\ b.promo = rows[ref].promo /\ b.price = rows[ref].price
    BY <2>1 DEF Bookings
  <2>4. rows' = [rows EXCEPT ![ref] = b]
    BY <1>1, Typed DEF AddAddon, Own, Stored
  <2> HIDE DEF b
  <2>5. ref \in 1..MaxRefs
    BY <1>1 DEF Own, Stored
  <2>6. \A r \in 1..MaxRefs : rows'[r] = IF r = ref THEN b ELSE rows[r]
    BY <2>4, <2>5, Typed
  <2>7. rows' \in [1..MaxRefs -> RowValues]
    BY <2>2, <2>4, Typed DEF RowValues
  <2>8. Stored' = Stored /\ Own' = Own
    BY <1>1, <2>2, <2>6, NoneApart DEF Stored, Own
  <2>9. Own \subseteq 1..MaxRefs
    BY DEF Own, Stored
  <2> QED
    BY <2>2, <2>6, <2>7, <2>8, <2>9
<1>2. CASE ref \notin Own
  <2>1. rows' = rows
    BY <1>2, Typed DEF AddAddon, Own, Stored
  <2> QED
    BY <1>2, <2>1, Typed DEF Own, Stored
<1> QED
  BY <1>1, <1>2

LEMMA UpsellPickIs ==
  ASSUME TypeOK, BookingIsThere, NEW t \in Task, UpsellPick(t)
  PROVE  /\ Receives(t) /\ session.state = "UPSELL_DETAILING_PICK"
         /\ session.booking \in Bookings /\ session' \in Sessions
         /\ session'.state = "UPSELL_DETAILING_PICK" /\ session'.booking = WithAddon
         /\ WithAddon \in Bookings /\ WithAddon.ref = session.booking.ref
         /\ WithAddon.lane = session.booking.lane /\ WithAddon.got = session.booking.got
         /\ WithAddon.promo = session.booking.promo /\ WithAddon.price = session.booking.price
         /\ WithAddon.ref \in 0..MaxRefs /\ rows' = AddAddon(WithAddon.ref)
         /\ Keeping("addonAck", WithAddon.ref) \in TaskRecord
         /\ task' = [task EXCEPT ![t] = Keeping("addonAck", WithAddon.ref)]
         /\ UNCHANGED <<profile, stage, missed, told>>
<1>1. /\ Receives(t) /\ session.state = "UPSELL_DETAILING_PICK"
      /\ session.booking \in Bookings
      /\ UNCHANGED <<profile, stage, missed, told>>
  BY DEF UpsellPick, On, BookingIsThere, Bare
<1>2. /\ WithAddon \in Bookings /\ WithAddon.ref = session.booking.ref
      /\ WithAddon.lane = session.booking.lane /\ WithAddon.got = session.booking.got
      /\ WithAddon.promo = session.booking.promo /\ WithAddon.price = session.booking.price
  BY <1>1 DEF WithAddon, Bookings
<1>3. WithAddon.ref \in 0..MaxRefs /\ "addonAck" \in Nexts
  BY <1>2 DEF Bookings, Nexts
<1>4. session' = [session EXCEPT !.booking = WithAddon]
  BY DEF UpsellPick
<1>5. /\ session' \in Sessions /\ session'.state = "UPSELL_DETAILING_PICK"
      /\ session'.booking = WithAddon
  BY <1>1, <1>2, <1>4, Typed DEF Sessions
<1>6. rows' = AddAddon(WithAddon.ref) /\ WaitingWith(t, "addonAck", WithAddon.ref)
  BY DEF UpsellPick
<1>7. /\ Keeping("addonAck", WithAddon.ref) \in TaskRecord
      /\ task' = [task EXCEPT ![t] = Keeping("addonAck", WithAddon.ref)]
  BY <1>3, <1>6, KeepingTask, WaitingWithIs
<1> QED
  BY <1>1, <1>2, <1>3, <1>5, <1>6, <1>7

(* A write that failed: the state is as it was, the Booking keeps the      *)
(* answer or the reference.                                                *)
LEMMA StoreFailsIs ==
  ASSUME TypeOK, BookingIsThere, NEW t \in Task, StoreFails(t)
  PROVE  /\ Receives(t) /\ session' \in Sessions /\ session'.state = session.state
         /\ session.booking \in Bookings /\ session'.booking \in Bookings
         /\ session.booking.got \subseteq session'.booking.got
         /\ session.state # "BOOK_VEHICLE" => session'.booking.lane = session.booking.lane
         /\ session'.booking.promo = session.booking.promo
         /\ session'.booking.price = session.booking.price
         /\ missed' = TRUE /\ UNCHANGED <<task, rows, profile, stage, told>>
<1>1. /\ Receives(t) /\ missed' = TRUE
      /\ UNCHANGED <<task, rows, profile, stage, told>>
      /\ session.state \notin Bare
  BY DEF StoreFails, Bare
<1>2. session.booking \in Bookings
  BY <1>1 DEF BookingIsThere
<1>3. ASSUME NEW b \in Bookings, session' = [session EXCEPT !.booking = b]
      PROVE  /\ session' \in Sessions /\ session'.state = session.state
             /\ session'.booking = b
  BY <1>3, Typed DEF Sessions
<1>4. CASE session.state = "RETURNING_CUSTOMER" /\ UNCHANGED session
  BY <1>1, <1>2, <1>4, Typed DEF Upselling
<1>5. CASE /\ session.state = "BOOK_NAME"
           /\ session' = [session EXCEPT !.booking = Got("name")]
  <2>1. "name" \in Answers
    BY DEF Answers
  <2> QED
    BY <1>1, <1>2, <1>3, <1>5, <2>1, GotTyped DEF Upselling
<1>6. CASE /\ session.state = "BOOK_VEHICLE"
           /\ session' = [session EXCEPT !.booking.lane = "moto"]
  <2> DEFINE b == [session.booking EXCEPT !.lane = "moto"]
  <2>1. /\ b \in Bookings /\ b.got = session.booking.got /\ b.promo = session.booking.promo
        /\ b.price = session.booking.price /\ b.ref = session.booking.ref
    BY <1>2 DEF Bookings
  <2>2. session' = [session EXCEPT !.booking = b]
    BY <1>6, Typed DEF Sessions
  <2> HIDE DEF b
  <2> QED
    BY <1>1, <1>2, <1>3, <1>6, <2>1, <2>2 DEF Upselling
<1>7. CASE /\ session.state = "BOOK_COLOR"
           /\ session' = [session EXCEPT !.booking = Got("color")]
  <2>1. "color" \in Answers
    BY DEF Answers
  <2> QED
    BY <1>1, <1>2, <1>3, <1>7, <2>1, GotTyped DEF Upselling
<1>8. CASE /\ session.state = "BOOK_CONFIRM"
           /\ \E ref \in 1..MaxRefs : session' = [session EXCEPT !.booking = Referenced(ref)]
  <2>1. PICK ref \in 1..MaxRefs : session' = [session EXCEPT !.booking = Referenced(ref)]
    BY <1>8
  <2>2. ref \in 0..MaxRefs
    BY ConversationConstants
  <2>3. /\ Referenced(ref) \in Bookings
        /\ Referenced(ref).lane = session.booking.lane
        /\ Referenced(ref).got = session.booking.got
        /\ Referenced(ref).promo = session.booking.promo
        /\ Referenced(ref).price = session.booking.price
    BY <1>2, <2>2 DEF Referenced, Bookings
  <2> QED
    BY <1>1, <1>2, <1>3, <1>8, <2>1, <2>3 DEF Upselling
<1>9. CASE /\ session.state = "UPSELL_DETAILING_PICK"
           /\ session' = [session EXCEPT !.booking = WithAddon]
  <2>1. /\ WithAddon \in Bookings /\ WithAddon.ref = session.booking.ref
        /\ WithAddon.lane = session.booking.lane /\ WithAddon.got = session.booking.got
        /\ WithAddon.promo = session.booking.promo
        /\ WithAddon.price = session.booking.price
    BY <1>2 DEF WithAddon, Bookings
  <2> QED
    BY <1>1, <1>2, <1>3, <1>9, <2>1 DEF Upselling
<1> QED
  BY <1>4, <1>5, <1>6, <1>7, <1>8, <1>9 DEF StoreFails

(* The acknowledgement is out: what is told, and to whom.                  *)
LEMMA AlertIs ==
  ASSUME TypeOK, BookingIsThere, NEW t \in Task, Alert(t)
  PROVE  /\ task[t] \in TaskRecord /\ task[t].next \in {"ack", "addonAck"}
         /\ overtaken' = [overtaken EXCEPT ![t] = 0]
         /\ \E x \in TaskRecord :
              /\ task' = [task EXCEPT ![t] = x]
              /\ x.next = IF task[t].next = "ack" THEN "alert" ELSE "addonAlert"
              /\ x.mine = task[t].mine /\ x.booking = task[t].booking /\ x.ref = task[t].ref
         /\ told' = IF task[t].next = "ack" THEN told \cup {task[t].ref} ELSE told
         /\ UNCHANGED <<session, dbVars, stage, missed>>
<1>1. task[t].next \in {"ack", "addonAck"}
  BY DEF Alert, Returns
<1>2. task[t] \in TaskRecord
  BY <1>1, TaskFields, NoTaskIs
<1> DEFINE n == IF task[t].next = "ack" THEN "alert" ELSE "addonAlert"
           x == [task[t] EXCEPT !.next = n]
<1>4. n \in Nexts
  BY DEF Nexts
<1> HIDE DEF n
<1>5. /\ x \in TaskRecord /\ x.next = n /\ x.booking = task[t].booking
      /\ x.ref = task[t].ref
  BY <1>2, <1>4 DEF TaskRecord
<1>6. x.mine = task[t].mine
  BY <1>2 DEF TaskRecord
<1>7. task' = [task EXCEPT ![t] = x]
  BY <1>2, Typed DEF Alert, n
<1> HIDE DEF x
<1>8. /\ overtaken' = [overtaken EXCEPT ![t] = 0]
      /\ told' = IF task[t].next = "ack" THEN told \cup {task[t].ref} ELSE told
      /\ UNCHANGED <<session, dbVars, stage, missed>>
  BY DEF Alert, Returns
<1> QED
  BY <1>1, <1>2, <1>5, <1>6, <1>7, <1>8 DEF n

-----------------------------------------------------------------------------
(* The invariant that needs no assumption: types, and rows before words.   *)

(* A handler of the shapes that wait for no acknowledgement.               *)
Quiet(x) ==
  /\ x \in {NoTask} \cup TaskRecord
  /\ x.next \notin {"ack", "addonAck", "alert"}

LEMMA TasksThere ==
  ASSUME TypeOK, BookingIsThere, NEW t \in Task, NEW x \in {NoTask} \cup TaskRecord,
         task' = [task EXCEPT ![t] = x],
         session.booking \in Bookings => session'.booking \in Bookings,
         x.mine => session'.booking \in Bookings,
         x.next \in {"ack", "addonAck", "alert"} /\ ~x.mine => x.booking \in Bookings,
         session'.state \notin Bare => session'.booking \in Bookings
  PROVE  /\ BookingIsThere' /\ task' \in [Task -> {NoTask} \cup TaskRecord]
         /\ task'[t] = x /\ \A u \in Task : u # t => task'[u] = task[u]
<1>1. /\ task' \in [Task -> {NoTask} \cup TaskRecord]
      /\ task'[t] = x /\ \A u \in Task : u # t => task'[u] = task[u]
  BY Typed
<1> QED
  BY <1>1 DEF BookingIsThere

(* The rows and the references stay, and nobody new waits for an           *)
(* acknowledgement.                                                        *)
LEMMA RowsStay ==
  ASSUME ConversationInv, UNCHANGED <<rows, told>>,
         \A u \in Task : task'[u].next \in {"ack", "alert"} =>
           task[u].next \in {"ack", "alert"} /\ task'[u].ref = task[u].ref
  PROVE  AcksHaveRows' /\ ToldIsStored'
<1>1. Stored' = Stored
  BY DEF Stored
<1> QED
  BY <1>1 DEF ConversationInv, AcksHaveRows, ToldIsStored

LEMMA MovedKeeps ==
  ASSUME ConversationInv, NEW t \in Task, Moved(t)
  PROVE  ConversationInv'
<1>1. TypeOK /\ BookingIsThere
  BY DEF ConversationInv
<1>2. PICK x \in TaskRecord :
        /\ task' = [task EXCEPT ![t] = x]
        /\ \/ ~x.mine /\ x.next \in {"end", "menu", "reset"}
           \/ /\ x.mine /\ x.next \in {"promoAsk", "askService"}
              /\ session'.state = "BOOK_PROMO_CODE"
  BY DEF Moved
<1>3. /\ session' \in Sessions
      /\ session'.state \notin Bare => session'.booking \in Bookings
      /\ session.booking \in Bookings => session'.booking \in Bookings
      /\ profile' \in Profiles \cup {NoProfile}
      /\ UNCHANGED <<rows, stage, missed, told>>
  BY DEF Moved
<1>4. overtaken' \in [Task -> 0..MaxOvertakes]
  BY <1>1, ReceivesOvertaken DEF Moved
<1>5. x.mine => session'.booking \in Bookings
  BY <1>2, <1>3 DEF Bare
<1>6. x.next \notin {"ack", "addonAck", "alert"}
  BY <1>2
<1>7. /\ BookingIsThere' /\ task' \in [Task -> {NoTask} \cup TaskRecord]
      /\ task'[t] = x /\ \A u \in Task : u # t => task'[u] = task[u]
  BY <1>1, <1>2, <1>3, <1>5, <1>6, TasksThere
<1>8. TypeOK'
  BY <1>1, <1>3, <1>4, <1>7, Typed, TypedNext
<1>9. AcksHaveRows' /\ ToldIsStored'
  BY <1>3, <1>6, <1>7, RowsStay
<1> QED
  BY <1>7, <1>8, <1>9 DEF ConversationInv

LEMMA RenewedKeeps ==
  ASSUME ConversationInv, NEW t \in Task, Renewed(t)
  PROVE  ConversationInv'
<1>1. TypeOK /\ BookingIsThere
  BY DEF ConversationInv
<1>2. PICK x \in {NoTask, Plain("end")} : task' = [Detached EXCEPT ![t] = x]
  BY DEF Renewed
<1>3. Quiet(x) /\ ~x.mine
  BY PlainTask, NoTaskIs DEF Quiet, Nexts
<1>4. /\ task' \in [Task -> {NoTask} \cup TaskRecord] /\ task'[t] = x
      /\ \A u \in Task : u # t => task'[u] = Detached[u]
  BY <1>1, <1>2, <1>3, DetachedTyped DEF Quiet
<1>5. \A u \in Task : ~task'[u].mine
  BY <1>1, <1>3, <1>4, DetachedTyped
<1>6. \A u \in Task : task'[u].next \in {"ack", "addonAck", "alert"} =>
        u # t /\ task[u].next = task'[u].next /\ task'[u].ref = task[u].ref
        /\ task'[u].booking \in Bookings
  BY <1>1, <1>3, <1>4, DetachedTyped DEF Quiet
<1>7. /\ session' \in Sessions
      /\ session'.state \notin Bare => session'.booking \in Bookings
      /\ overtaken' \in [Task -> 0..MaxOvertakes]
      /\ UNCHANGED <<rows, profile, told>>
  BY DEF Renewed, dbVars, Bare
<1>8. stage' \in States /\ missed' \in BOOLEAN
  BY <1>1, Typed DEF Renewed, Track, States
<1>9. BookingIsThere'
  BY <1>5, <1>6, <1>7 DEF BookingIsThere
<1>10. TypeOK'
  BY <1>1, <1>4, <1>7, <1>8, Typed, TypedNext
<1>11. AcksHaveRows' /\ ToldIsStored'
  BY <1>6, <1>7, RowsStay
<1> QED
  BY <1>9, <1>10, <1>11 DEF ConversationInv

LEMMA ResumedKeeps ==
  ASSUME ConversationInv, NEW t \in Task, Resumed(t)
  PROVE  ConversationInv'
<1>1. TypeOK /\ BookingIsThere
  BY DEF ConversationInv
<1>2. PICK x \in {NoTask, Plain("end")} : task' = [task EXCEPT ![t] = x]
  BY DEF Resumed
<1>3. Quiet(x) /\ ~x.mine
  BY PlainTask, NoTaskIs DEF Quiet, Nexts
<1>4. /\ session' \in Sessions /\ session'.booking = session.booking
      /\ session'.state \in States
      /\ session'.state \notin Bare => session'.booking \in Bookings
  <2>1. CASE UNCHANGED session
    BY <1>1, <2>1, SessionFields, Typed DEF BookingIsThere
  <2>2. CASE /\ task[t].mine /\ session' = [session EXCEPT !.state = session'.state]
             /\ session'.state \in {"BOOK_PROMO_ASK", "BOOK_SERVICE", "UPSELL_DETAILING"}
    <3>1. session.booking \in Bookings
      BY <1>1, <2>2 DEF BookingIsThere
    <3>2. session'.state \in States
      BY <2>2 DEF States
    <3>3. session' = [state |-> session'.state, booking |-> session.booking]
      BY <1>1, <2>2, Typed DEF Sessions
    <3> QED
      BY <3>1, <3>2, <3>3 DEF Sessions
  <2> QED
    BY <2>1, <2>2 DEF Resumed
<1>5. /\ BookingIsThere' /\ task' \in [Task -> {NoTask} \cup TaskRecord]
      /\ task'[t] = x /\ \A u \in Task : u # t => task'[u] = task[u]
  BY <1>1, <1>2, <1>3, <1>4, TasksThere DEF Quiet
<1>6. /\ overtaken' \in [Task -> 0..MaxOvertakes]
      /\ UNCHANGED <<rows, profile, told>>
  BY <1>1, Typed, ConversationConstants DEF Resumed, dbVars
<1>7. stage' \in States /\ missed' \in BOOLEAN
  BY <1>1, <1>4, Typed DEF Resumed, Track
<1>8. TypeOK'
  BY <1>1, <1>4, <1>5, <1>6, <1>7, Typed, TypedNext
<1>9. AcksHaveRows' /\ ToldIsStored'
  BY <1>3, <1>5, <1>6, RowsStay DEF Quiet
<1> QED
  BY <1>5, <1>8, <1>9 DEF ConversationInv

LEMMA ConfirmYesKeeps ==
  ASSUME ConversationInv, NEW t \in Task, ConfirmYes(t)
  PROVE  ConversationInv'
<1>1. TypeOK /\ BookingIsThere /\ AcksHaveRows /\ ToldIsStored
  BY DEF ConversationInv
<1>2. PICK ref \in 1..MaxRefs : Confirms(t, ref)
  BY <1>1, ConfirmYesIs
<1> DEFINE x == Keeping("ack", ref)
<1>3. /\ x \in TaskRecord /\ x.next = "ack" /\ x.mine /\ x.ref = ref
      /\ task' = [task EXCEPT ![t] = x]
      /\ Stored' = Stored \cup {ref} /\ session'.booking \in Bookings
      /\ session' \in Sessions
  <2>1. "ack" \in Nexts /\ ref \in 0..MaxRefs
    BY ConversationConstants DEF Nexts
  <2> QED
    BY <1>2, <2>1, KeepingTask DEF Confirms
<1> HIDE DEF x
<1>4. /\ BookingIsThere' /\ task' \in [Task -> {NoTask} \cup TaskRecord]
      /\ task'[t] = x /\ \A u \in Task : u # t => task'[u] = task[u]
  BY <1>1, <1>3, TasksThere
<1>5. overtaken' \in [Task -> 0..MaxOvertakes]
  BY <1>1, <1>2, ReceivesOvertaken DEF Confirms
<1>6. profile' \in Profiles \cup {NoProfile}
  BY <1>1, <1>2, KnownTyped, Typed DEF Confirms
<1>7. rows' \in [1..MaxRefs -> RowValues] /\ UNCHANGED <<stage, missed, told>>
  BY <1>2 DEF Confirms
<1>8. TypeOK'
  BY <1>1, <1>3, <1>4, <1>5, <1>6, <1>7, Typed, TypedNext
<1>9. AcksHaveRows'
  BY <1>1, <1>3, <1>4 DEF AcksHaveRows
<1>10. ToldIsStored'
  BY <1>1, <1>3, <1>7 DEF ToldIsStored
<1> QED
  BY <1>4, <1>8, <1>9, <1>10 DEF ConversationInv

LEMMA AnotherBooksKeeps ==
  ASSUME ConversationInv, AnotherBooks
  PROVE  ConversationInv'
<1>1. TypeOK /\ BookingIsThere /\ AcksHaveRows /\ ToldIsStored
  BY DEF ConversationInv
<1>2. /\ rows' \in [1..MaxRefs -> RowValues] /\ Stored \subseteq Stored'
      /\ UNCHANGED <<session, task, overtaken, profile, stage, missed, told>>
  BY <1>1, AnotherBooksIs
<1>3. TypeOK'
  BY <1>1, <1>2, Typed, TypedNext
<1>4. BookingIsThere'
  BY <1>1, <1>2 DEF BookingIsThere
<1>5. AcksHaveRows' /\ ToldIsStored'
  BY <1>1, <1>2 DEF AcksHaveRows, ToldIsStored
<1> QED
  BY <1>3, <1>4, <1>5 DEF ConversationInv

LEMMA UpsellPickKeeps ==
  ASSUME ConversationInv, NEW t \in Task, UpsellPick(t)
  PROVE  ConversationInv'
<1>1. TypeOK /\ BookingIsThere /\ AcksHaveRows /\ ToldIsStored
  BY DEF ConversationInv
<1> DEFINE x == Keeping("addonAck", WithAddon.ref)
<1>2. /\ x \in TaskRecord /\ x.next = "addonAck" /\ x.mine
      /\ task' = [task EXCEPT ![t] = x] /\ session'.booking \in Bookings
      /\ session' \in Sessions
  <2>1. "addonAck" \in Nexts
    BY DEF Nexts
  <2> QED
    BY <1>1, <2>1, UpsellPickIs, KeepingTask
<1> HIDE DEF x
<1>3. /\ BookingIsThere' /\ task' \in [Task -> {NoTask} \cup TaskRecord]
      /\ task'[t] = x /\ \A u \in Task : u # t => task'[u] = task[u]
  BY <1>1, <1>2, TasksThere
<1>4. overtaken' \in [Task -> 0..MaxOvertakes]
  BY <1>1, ReceivesOvertaken, UpsellPickIs
<1>5. /\ rows' \in [1..MaxRefs -> RowValues] /\ Stored' = Stored
      /\ UNCHANGED <<profile, stage, missed, told>>
  BY <1>1, UpsellPickIs, AddonRows
<1>6. TypeOK'
  BY <1>1, <1>2, <1>3, <1>4, <1>5, Typed, TypedNext
<1>7. AcksHaveRows' /\ ToldIsStored'
  BY <1>1, <1>2, <1>3, <1>5 DEF AcksHaveRows, ToldIsStored
<1> QED
  BY <1>3, <1>6, <1>7 DEF ConversationInv

LEMMA StoreFailsKeeps ==
  ASSUME ConversationInv, NEW t \in Task, StoreFails(t)
  PROVE  ConversationInv'
<1>1. TypeOK /\ BookingIsThere /\ AcksHaveRows /\ ToldIsStored
  BY DEF ConversationInv
<1>2. /\ Receives(t) /\ session' \in Sessions /\ session'.booking \in Bookings
      /\ missed' = TRUE
      /\ UNCHANGED <<task, rows, profile, stage, told>>
  BY <1>1, StoreFailsIs
<1>3. overtaken' \in [Task -> 0..MaxOvertakes]
  BY <1>1, <1>2, ReceivesOvertaken
<1>4. TypeOK'
  BY <1>1, <1>2, <1>3, Typed, TypedNext
<1>5. BookingIsThere'
  BY <1>1, <1>2 DEF BookingIsThere
<1>6. Stored' = Stored
  BY <1>2 DEF Stored
<1>7. AcksHaveRows' /\ ToldIsStored'
  BY <1>1, <1>2, <1>6 DEF AcksHaveRows, ToldIsStored
<1> QED
  BY <1>4, <1>5, <1>7 DEF ConversationInv

LEMMA AlertKeeps ==
  ASSUME ConversationInv, NEW t \in Task, Alert(t)
  PROVE  ConversationInv'
<1>1. TypeOK /\ BookingIsThere /\ AcksHaveRows /\ ToldIsStored
  BY DEF ConversationInv
<1>2. PICK x \in TaskRecord :
        /\ task' = [task EXCEPT ![t] = x]
        /\ x.next = IF task[t].next = "ack" THEN "alert" ELSE "addonAlert"
        /\ x.mine = task[t].mine /\ x.booking = task[t].booking /\ x.ref = task[t].ref
  BY <1>1, AlertIs
<1>3. /\ task[t].next \in {"ack", "addonAck"}
      /\ told' = IF task[t].next = "ack" THEN told \cup {task[t].ref} ELSE told
      /\ UNCHANGED <<session, rows, profile, stage, missed>>
  BY <1>1, AlertIs DEF dbVars
<1>4. overtaken' \in [Task -> 0..MaxOvertakes]
  BY <1>1, AlertIs, Typed, ConversationConstants
<1>5. /\ session.state \notin Bare => session'.booking \in Bookings
      /\ session.booking \in Bookings => session'.booking \in Bookings
      /\ x.mine => session'.booking \in Bookings
      /\ ~x.mine => x.booking \in Bookings
  BY <1>1, <1>2, <1>3 DEF BookingIsThere
<1>6. /\ BookingIsThere' /\ task' \in [Task -> {NoTask} \cup TaskRecord]
      /\ task'[t] = x /\ \A u \in Task : u # t => task'[u] = task[u]
  BY <1>1, <1>2, <1>3, <1>5, TasksThere
<1>7. told' \subseteq 0..MaxRefs
  BY <1>1, <1>3, Typed, TaskFields
<1>8. TypeOK'
  BY <1>1, <1>3, <1>4, <1>6, <1>7, Typed, TypedNext
<1>9. Stored' = Stored
  BY <1>3 DEF Stored
<1>10. AcksHaveRows' /\ ToldIsStored'
  BY <1>1, <1>2, <1>3, <1>6, <1>9 DEF AcksHaveRows, ToldIsStored
<1> QED
  BY <1>6, <1>8, <1>10 DEF ConversationInv

LEMMA CallFailsKeeps ==
  ASSUME ConversationInv, NEW t \in Task, CallFails(t)
  PROVE  ConversationInv'
<1>1. TypeOK /\ BookingIsThere /\ AcksHaveRows /\ ToldIsStored
  BY DEF ConversationInv
<1>2. /\ task' = [task EXCEPT ![t] = NoTask] /\ missed' = TRUE
      /\ told' \in {told, IF task[t].next = "ack" THEN told \cup {task[t].ref} ELSE told}
      /\ UNCHANGED <<session, rows, profile, stage>>
  BY DEF CallFails, dbVars
<1>3. overtaken' \in [Task -> 0..MaxOvertakes]
  BY <1>1, ReturnsOvertaken DEF CallFails
<1>4. /\ BookingIsThere' /\ task' \in [Task -> {NoTask} \cup TaskRecord]
      /\ task'[t] = NoTask /\ \A u \in Task : u # t => task'[u] = task[u]
  BY <1>1, <1>2, NoTaskIs, TasksThere DEF BookingIsThere
<1>5. told' \subseteq 0..MaxRefs
  BY <1>1, <1>2, Typed, TaskFields
<1>6. TypeOK'
  BY <1>1, <1>2, <1>3, <1>4, <1>5, Typed, TypedNext
<1>7. Stored' = Stored
  BY <1>2 DEF Stored
<1>8. AcksHaveRows' /\ ToldIsStored'
  BY <1>1, <1>2, <1>4, <1>7, NoTaskIs DEF AcksHaveRows, ToldIsStored
<1> QED
  BY <1>4, <1>6, <1>8 DEF ConversationInv

LEMMA ForgetKeeps ==
  ASSUME ConversationInv, Forget
  PROVE  ConversationInv'
<1>1. TypeOK /\ BookingIsThere /\ AcksHaveRows /\ ToldIsStored
  BY DEF ConversationInv
<1>2. /\ session' = NewSession /\ missed' = TRUE
      /\ \A t \in Task : task'[t] = NoTask
      /\ task' \in [Task -> {NoTask} \cup TaskRecord]
      /\ overtaken' \in [Task -> 0..MaxOvertakes]
      /\ UNCHANGED <<rows, profile, stage, told>>
  BY ConversationConstants DEF Forget, dbVars
<1>4. TypeOK'
  BY <1>1, <1>2, Typed, TypedNext, NewSessionTyped
<1>5. BookingIsThere'
  BY <1>2, NewSessionTyped, NoTaskIs DEF BookingIsThere, Bare, Nexts
<1>6. AcksHaveRows' /\ ToldIsStored'
  BY <1>2, NoTaskIs, RowsStay DEF Nexts
<1> QED
  BY <1>4, <1>5, <1>6 DEF ConversationInv

(* Every step has one of the shapes.                                       *)
LEMMA Shapes ==
  ASSUME Next, TypeOK, BookingIsThere
  PROVE  \/ Forget \/ AnotherBooks
         \/ \E t \in Task :
              \/ Moved(t) /\ PathMessage(t)
              \/ Renewed(t) /\ Renewing(t)
              \/ Resumed(t) /\ Resuming(t)
              \/ ConfirmYes(t) \/ UpsellPick(t) \/ StoreFails(t)
              \/ Alert(t) \/ CallFails(t)
<1> SUFFICES ASSUME NEW t \in Task, Message(t) \/ Answer(t)
             PROVE  \/ Moved(t) /\ PathMessage(t)
                    \/ Renewed(t) /\ Renewing(t)
                    \/ Resumed(t) /\ Resuming(t)
                    \/ ConfirmYes(t) \/ UpsellPick(t) \/ StoreFails(t)
                    \/ Alert(t) \/ CallFails(t)
  BY DEF Next
<1>1. \/ PathMessage(t) \/ Renewing(t) \/ Resuming(t)
      \/ ConfirmYes(t) \/ UpsellPick(t) \/ StoreFails(t)
      \/ Alert(t) \/ CallFails(t)
  BY DEF Message, Answer, PathMessage, Renewing, Resuming
<1> QED
  BY <1>1, PathMoves, RenewingRenews, ResumingResumes

LEMMA ConversationInit == Init => ConversationInv
<1> SUFFICES ASSUME Init PROVE ConversationInv
  OBVIOUS
<1>1. /\ session = NewSession /\ told = {}
      /\ \A t \in Task : task[t] = NoTask
      /\ task \in [Task -> {NoTask} \cup TaskRecord]
      /\ rows \in [1..MaxRefs -> RowValues]
      /\ profile = NoProfile /\ stage = "IDLE" /\ missed = FALSE
      /\ Stored = {}
  BY DEF Init, Stored, RowValues
<1>2. overtaken \in [Task -> 0..MaxOvertakes] /\ stage \in States
  BY <1>1, ConversationConstants DEF Init, States
<1>3. TypeOK
  BY <1>1, <1>2, NewSessionTyped DEF TypeOK, Sessions, TaskRecord, RowValues
<1>4. BookingIsThere
  BY <1>1, NewSessionTyped, NoTaskIs DEF BookingIsThere, Bare, Nexts
<1>5. AcksHaveRows /\ ToldIsStored
  BY <1>1, NoTaskIs DEF AcksHaveRows, ToldIsStored, Nexts
<1> QED
  BY <1>3, <1>4, <1>5 DEF ConversationInv

LEMMA ConversationStep == ConversationInv /\ [Next]_vars => ConversationInv'
<1> SUFFICES ASSUME ConversationInv, [Next]_vars PROVE ConversationInv'
  OBVIOUS
<1>1. CASE Next
  <2>1. TypeOK /\ BookingIsThere
    BY DEF ConversationInv
  <2> QED
    BY <1>1, <2>1, Shapes, ForgetKeeps, AnotherBooksKeeps, MovedKeeps, RenewedKeeps, ResumedKeeps,
       ConfirmYesKeeps, UpsellPickKeeps, StoreFailsKeeps, AlertKeeps, CallFailsKeeps
<1>2. CASE UNCHANGED vars
  BY <1>2 DEF vars, dbVars, ConversationInv, TypeOK, BookingIsThere,
     AcksHaveRows, ToldIsStored, Stored
<1> QED
  BY <1>1, <1>2

(* Types, Sessions with their Bookings, and rows before acknowledgements,  *)
(* however many requests overlap.                                          *)
THEOREM ConversationInvariant == Spec => []ConversationInv
  BY ConversationInit, ConversationStep, PTL DEF Spec

(* The state, handlers, rows and histories have their types.               *)
THEOREM TypeCorrect == Spec => []TypeOK
<1>1. ConversationInv => TypeOK
  BY DEF ConversationInv
<1> QED
  BY <1>1, ConversationInvariant, PTL

(* A reference a customer was told is registered has a row: confirm_yes    *)
(* stores, or finds a row, before it answers, whatever overlaps, fails or  *)
(* restarts, also when the reservation of the reference failed.            *)
THEOREM AcknowledgedIsStored == Spec => []ToldIsStored
<1>1. ConversationInv => ToldIsStored
  BY DEF ConversationInv
<1> QED
  BY <1>1, ConversationInvariant, PTL

-----------------------------------------------------------------------------
(* The bot stage.                                                          *)

LEMMA TracksOrMisses ==
  ASSUME NEW st, Track(st)
  PROVE  stage' = st \/ missed'
  BY DEF Track

LEMMA StageStep ==
  ASSUME ConversationInv, StageIsCurrent, [Next]_vars
  PROVE  StageIsCurrent'
<1>1. TypeOK /\ BookingIsThere
  BY DEF ConversationInv
<1>2. ASSUME NEW t \in Task, NEW x \in TaskRecord, NEW tasks,
             tasks \in [Task -> {NoTask} \cup TaskRecord],
             task' = [tasks EXCEPT ![t] = x]
      PROVE  StageIsCurrent'
  <2>1. task'[t] # NoTask
    BY <1>2, NoneApart
  <2> QED
    BY <2>1 DEF StageIsCurrent
<1>3. task \in [Task -> {NoTask} \cup TaskRecord] /\ Detached \in [Task -> {NoTask} \cup TaskRecord]
  BY <1>1, Typed, DetachedTyped
<1>4. Plain("end") \in TaskRecord
  BY PlainTask DEF Nexts
<1>5. CASE UNCHANGED vars
  BY <1>5 DEF vars, StageIsCurrent
<1>6. CASE Forget \/ AnotherBooks
  BY <1>6 DEF Forget, AnotherBooks, StageIsCurrent
<1>7. ASSUME NEW t \in Task, Moved(t) PROVE StageIsCurrent'
  BY <1>2, <1>3, <1>7 DEF Moved
<1>8. ASSUME NEW t \in Task, Renewed(t) PROVE StageIsCurrent'
  <2>1. CASE task' = [Detached EXCEPT ![t] = Plain("end")]
    BY <1>2, <1>3, <1>4, <2>1
  <2>2. CASE Track(session'.state)
    BY <2>2, TracksOrMisses DEF StageIsCurrent
  <2> QED
    BY <1>8, <2>1, <2>2 DEF Renewed
<1>9. ASSUME NEW t \in Task, Resumed(t) PROVE StageIsCurrent'
  <2>1. CASE task' = [task EXCEPT ![t] = Plain("end")]
    BY <1>2, <1>3, <1>4, <2>1
  <2>2. CASE Track(session'.state)
    BY <2>2, TracksOrMisses DEF StageIsCurrent
  <2> QED
    BY <1>9, <2>1, <2>2 DEF Resumed
<1>10. ASSUME NEW t \in Task, ConfirmYes(t) PROVE StageIsCurrent'
  BY <1>1, <1>2, <1>3, <1>10, ConfirmYesIs DEF Confirms
<1>11. ASSUME NEW t \in Task, UpsellPick(t) PROVE StageIsCurrent'
  BY <1>1, <1>2, <1>3, <1>11, UpsellPickIs
<1>12. ASSUME NEW t \in Task, StoreFails(t) PROVE StageIsCurrent'
  BY <1>12 DEF StoreFails, StageIsCurrent
<1>13. ASSUME NEW t \in Task, Alert(t) PROVE StageIsCurrent'
  BY <1>1, <1>2, <1>3, <1>13, AlertIs
<1>14. ASSUME NEW t \in Task, CallFails(t) PROVE StageIsCurrent'
  BY <1>14 DEF CallFails, StageIsCurrent
<1> QED
  BY <1>1, <1>5, <1>6, <1>7, <1>8, <1>9, <1>10, <1>11, <1>12, <1>13, <1>14, Shapes

(* The bot stage of the admin portal is the state of the conversation      *)
(* whenever no request is in progress, unless the last handler raised:     *)
(* whichever handler ends last has tracked the state it leaves.            *)
THEOREM StageFollows == Spec => []StageIsCurrent
<1>1. Init => StageIsCurrent
  BY DEF Init, StageIsCurrent, NewSession
<1>2. ConversationInv /\ StageIsCurrent /\ [Next]_vars => StageIsCurrent'
  BY StageStep
<1> QED
  BY <1>1, <1>2, ConversationInvariant, PTL DEF Spec

-----------------------------------------------------------------------------
(* The path: what a Booking has at each step, when few messages overtake.  *)

LEMMA LocatedGrows ==
  ASSUME NEW b, NEW c, c.lane = b.lane, b.got \subseteq c.got
  PROVE  /\ Identified(b) => Identified(c)
         /\ Located(b) => Located(c)
  BY DEF Identified, Located, Identity

LEMMA PricedGrows ==
  ASSUME NEW b, NEW c, c.lane = b.lane, b.got \subseteq c.got,
         c.promo = b.promo, c.price = b.price, Priced(b)
  PROVE  Priced(c)
<1>1. Located(c)
  BY LocatedGrows DEF Priced
<1>2. Grid(c) = Grid(b)
  BY DEF Grid
<1> QED
  BY <1>1, <1>2 DEF Priced

LEMMA ReadyGrows ==
  ASSUME NEW b, NEW c, c.lane = b.lane, b.got \subseteq c.got,
         c.promo = b.promo, c.price = b.price, NEW st, Ready(st, b)
  PROVE  Ready(st, c)
<1>1. /\ Identified(b) => Identified(c)
      /\ Located(b) => Located(c)
      /\ Priced(b) => Priced(c)
  BY LocatedGrows, PricedGrows
<1> QED
  BY <1>1 DEF Ready

LEMMA PastIs ==
  /\ Past("BOOK_WHEN") = 1 /\ Past("BOOK_SLOT") = 2 /\ Past("BOOK_NOTE") = 3
  /\ Past("BOOK_NOTE_TEXT") = 4 /\ Past("BOOK_CONFIRM") = 4
  /\ \A st \in States \ {"BOOK_WHEN", "BOOK_SLOT", "BOOK_NOTE", "BOOK_NOTE_TEXT",
                         "BOOK_CONFIRM"} : Past(st) = 0
  /\ \A st \in States : Past(st) \in 0..4
  BY DEF Past, States

(* What a message on the path does to the invariant.                       *)
Onward ==
  /\ Ready(session'.state, session'.booking)
  /\ profile' # NoProfile => Identified(profile')
  /\ Past(session'.state) <= Past(session.state) + 1
  /\ session.state \in Placed /\ Past(session.state) <= 3 /\ Located(session.booking) =>
       session'.state \in Placed /\ Located(session'.booking)

LEMMA AdvanceIs ==
  ASSUME NEW t \in Task, NEW from, NEW b, NEW to, Advance(t, from, b, to)
  PROVE  /\ session.state = from /\ session'.state = to /\ session'.booking = b
         /\ profile' = profile
  BY DEF Advance, On, dbVars

(* The state moves by one answer or not at all.                            *)
LEMMA OnwardBy ==
  ASSUME PathInv, NEW from \in States, NEW to \in States, NEW b,
         session.state = from, session'.state = to, session'.booking = b,
         profile' = profile, Ready(to, b), Past(to) <= Past(from) + 1,
         from \in Placed /\ Past(from) <= 3 /\ Located(session.booking) =>
           to \in Placed /\ Located(b)
  PROVE  Onward
  BY DEF Onward, PathInv

LEMMA PathOnward ==
  ASSUME ConversationInv, PathInv, NEW t \in Task, PathMessage(t)
  PROVE  Onward
<1>1. TypeOK /\ BookingIsThere
  BY DEF ConversationInv
<1>2. Ready(session.state, session.booking) /\ (profile # NoProfile => Identified(profile))
  BY DEF PathInv
<1>3. session.state \notin Bare => session.booking \in Bookings
  BY <1>1 DEF BookingIsThere
<1> DEFINE s == session.booking
<1>4. ASSUME NEW a \in Answers, session.state \notin Bare
      PROVE  /\ Got(a).got = s.got \cup {a} /\ Got(a).lane = s.lane
             /\ Got(a).promo = s.promo /\ Got(a).price = s.price
             /\ Identified(s) => Identified(Got(a))
             /\ Located(s) => Located(Got(a))
             /\ Priced(s) => Priced(Got(a))
  <2>1. /\ Got(a).got = s.got \cup {a} /\ Got(a).lane = s.lane
        /\ Got(a).promo = s.promo /\ Got(a).price = s.price
    BY <1>3, <1>4, GotTyped
  <2> QED
    BY <2>1, LocatedGrows, PricedGrows
<1>5. CASE UNCHANGED <<session, profile>>
  <2>1. session.state \in States
    BY <1>1, SessionFields
  <2>2. Past(session.state) \in 0..4
    BY <2>1, PastIs
  <2> QED
    BY <1>2, <1>5, <2>2 DEF Onward
<1> USE DEF States, Bare, Placed, Upselling, Answers
<1>6. ASSUME NEW from \in {"MENU", "RETURNING_CUSTOMER", "BOOK_CONFIRM"},
             Advance(t, from, NewBooking, "BOOK_NAME")
      PROVE  Onward
  <2>1. /\ session.state = from /\ session'.state = "BOOK_NAME"
        /\ session'.booking = NewBooking /\ profile' = profile
    BY <1>6, AdvanceIs
  <2>2. Ready("BOOK_NAME", NewBooking)
    BY DEF Ready
  <2>3. Past("BOOK_NAME") = 0 /\ Past(from) \in {0, 4} /\ (from \in Placed => Past(from) = 4)
    BY PastIs
  <2> QED
    BY <2>1, <2>2, <2>3, OnwardBy
<1>7. CASE StartBooking(t)
  BY <1>6, <1>7 DEF StartBooking
<1>8. CASE AskHuman(t)
  <2>1. /\ session.state = "MENU" /\ session'.state = "HANDOFF"
        /\ session'.booking = s /\ profile' = profile
    BY <1>8, AdvanceIs DEF AskHuman
  <2>2. Ready("HANDOFF", s)
    BY DEF Ready
  <2>3. Past("HANDOFF") = 0 /\ Past("MENU") = 0
    BY PastIs
  <2> QED
    BY <2>1, <2>2, <2>3, OnwardBy
<1>9. CASE ShowServices(t) \/ Farewell(t) \/ Reprompt(t)
  BY <1>5, <1>9 DEF ShowServices, Farewell, Reprompt, dbVars
<1>10. CASE ReturningYes(t)
  <2>1. /\ session.state = "RETURNING_CUSTOMER" /\ session' = [session EXCEPT !.state = "BOOK_WHERE"]
        /\ profile' = Known(s)
    BY <1>10 DEF ReturningYes, On
  <2>2. session'.state = "BOOK_WHERE" /\ session'.booking = s
    BY <1>1, <2>1, SessionFields
  <2>3. s \in Bookings /\ Identified(s)
    BY <1>2, <1>3, <2>1 DEF Ready
  <2>4. Known(s).lane = s.lane /\ s.got \cap Identity \subseteq Known(s).got
    BY <1>1, <2>3, Typed, KnownTyped
  <2>5. Identified(Known(s))
    BY <2>3, <2>4 DEF Identified, Identity
  <2>6. Ready("BOOK_WHERE", s)
    BY <2>3 DEF Ready
  <2>7. Past("BOOK_WHERE") = 0 /\ Past("RETURNING_CUSTOMER") = 0
    BY PastIs
  <2> QED
    BY <2>1, <2>2, <2>5, <2>6, <2>7 DEF Onward
<1>11. CASE BookName(t)
  <2>1. /\ session.state = "BOOK_NAME" /\ session'.state = "BOOK_VEHICLE"
        /\ session'.booking = Got("name") /\ profile' = profile
    BY <1>11, AdvanceIs DEF BookName
  <2>2. Ready("BOOK_VEHICLE", Got("name"))
    BY <1>4, <2>1 DEF Ready
  <2>3. Past("BOOK_NAME") = 0 /\ Past("BOOK_VEHICLE") = 0
    BY PastIs
  <2> QED
    BY <2>1, <2>2, <2>3, OnwardBy
<1>12. CASE BookVehicle(t)
  <2>1. session.state = "BOOK_VEHICLE"
    BY <1>12 DEF BookVehicle, Advance, On
  <2>2. s \in Bookings /\ "name" \in s.got
    BY <1>2, <1>3, <2>1 DEF Ready
  <2>3. Past("BOOK_VEHICLE") = 0 /\ Past("BOOK_MODEL") = 0 /\ Past("BOOK_WHERE") = 0
    BY PastIs
  <2>4. CASE Advance(t, "BOOK_VEHICLE", [session.booking EXCEPT !.lane = "car"], "BOOK_MODEL")
    <3> DEFINE b == [session.booking EXCEPT !.lane = "car"]
    <3>1. b.lane = "car" /\ b.got = s.got
      BY <2>2 DEF Bookings
    <3>2. session'.state = "BOOK_MODEL" /\ session'.booking = b /\ profile' = profile
      BY <2>4, AdvanceIs
    <3> HIDE DEF b
    <3>3. Ready("BOOK_MODEL", b)
      BY <2>2, <3>1 DEF Ready
    <3> QED
      BY <2>1, <2>3, <3>2, <3>3, OnwardBy
  <2>5. CASE ~Advance(t, "BOOK_VEHICLE", [session.booking EXCEPT !.lane = "car"], "BOOK_MODEL")
    <3> DEFINE b == [session.booking EXCEPT !.lane = "moto"]
    <3>1. session' = [state |-> "BOOK_WHERE", booking |-> b] /\ profile' = Known(b)
      BY <1>12, <2>5 DEF BookVehicle
    <3>2. b.lane = "moto" /\ b.got = s.got /\ b \in Bookings
      BY <2>2 DEF Bookings
    <3> HIDE DEF b
    <3>3. session'.state = "BOOK_WHERE" /\ session'.booking = b
      BY <3>1
    <3>4. Known(b).lane = b.lane /\ b.got \cap Identity \subseteq Known(b).got
      BY <1>1, <3>2, Typed, KnownTyped
    <3>5. Identified(b) /\ Identified(Known(b))
      BY <2>2, <3>2, <3>4 DEF Identified, Identity
    <3>6. Ready("BOOK_WHERE", b)
      BY <3>5 DEF Ready
    <3> QED
      BY <2>1, <2>3, <3>1, <3>3, <3>5, <3>6 DEF Onward
  <2> QED
    BY <2>4, <2>5
<1>13. CASE BookModel(t)
  <2>1. /\ session.state = "BOOK_MODEL" /\ session'.state = "BOOK_COLOR"
        /\ session'.booking = Got("model") /\ profile' = profile
    BY <1>13, AdvanceIs DEF BookModel
  <2>2. Ready("BOOK_COLOR", Got("model"))
    BY <1>2, <1>4, <2>1 DEF Ready
  <2>3. Past("BOOK_MODEL") = 0 /\ Past("BOOK_COLOR") = 0
    BY PastIs
  <2> QED
    BY <2>1, <2>2, <2>3, OnwardBy
<1>14. CASE BookColor(t)
  <2>1. /\ session.state = "BOOK_COLOR"
        /\ session' = [state |-> "BOOK_WHERE", booking |-> Got("color")]
        /\ profile' = IF s.lane = "car" THEN Known(Got("color")) ELSE profile
    BY <1>14 DEF BookColor, On
  <2>2. session'.state = "BOOK_WHERE" /\ session'.booking = Got("color")
    BY <2>1
  <2>3. s.lane = "car" /\ {"name", "model"} \subseteq s.got /\ s \in Bookings
    BY <1>2, <1>3, <2>1 DEF Ready
  <2>4. Got("color") \in Bookings
    BY <2>3, GotTyped
  <2>5. Identified(Got("color")) /\ Got("color").lane = "car"
    BY <1>4, <2>1, <2>3 DEF Identified, Identity
  <2>6. Known(Got("color")).lane = Got("color").lane
        /\ Got("color").got \cap Identity \subseteq Known(Got("color")).got
    BY <1>1, <2>4, Typed, KnownTyped
  <2>7. Identified(Known(Got("color")))
    BY <2>5, <2>6 DEF Identified, Identity
  <2>8. Ready("BOOK_WHERE", Got("color"))
    BY <2>5 DEF Ready
  <2>9. Past("BOOK_COLOR") = 0 /\ Past("BOOK_WHERE") = 0
    BY PastIs
  <2> QED
    BY <2>1, <2>2, <2>3, <2>7, <2>8, <2>9 DEF Onward
<1>15. ASSUME NEW from \in {"BOOK_WHERE", "BOOK_CENTER", "BOOK_ADDRESS"},
              NEW a \in {"center", "address"}, a = "address" => from = "BOOK_ADDRESS",
              Advance(t, from, Got(a), AfterLocation(s))
       PROVE  Onward
  <2> DEFINE to == AfterLocation(s)
  <2>1. /\ session.state = from /\ session'.state = to
        /\ session'.booking = Got(a) /\ profile' = profile
    BY <1>15, AdvanceIs
  <2>2. Identified(s) /\ (from = "BOOK_ADDRESS" => "geo" \in s.got)
    BY <1>2, <2>1 DEF Ready
  <2>3. Located(Got(a))
    BY <1>4, <1>15, <2>1, <2>2 DEF Located
  <2>4. to \in {"BOOK_SERVICE", "BOOK_PROMO_ASK"}
    BY DEF AfterLocation
  <2> HIDE DEF to
  <2>5. Ready(to, Got(a))
    BY <2>3, <2>4 DEF Ready
  <2>6. Past(from) = 0 /\ Past(to) = 0
    BY <2>4, PastIs
  <2> QED
    BY <2>1, <2>4, <2>5, <2>6, OnwardBy
<1>16. ASSUME NEW to \in {"BOOK_CENTER", "BOOK_GEO"}, Advance(t, "BOOK_WHERE", s, to)
       PROVE  Onward
  <2>1. /\ session.state = "BOOK_WHERE" /\ session'.state = to
        /\ session'.booking = s /\ profile' = profile
    BY <1>16, AdvanceIs
  <2>2. Ready(to, s)
    BY <1>2, <2>1 DEF Ready
  <2>3. Past("BOOK_WHERE") = 0 /\ Past(to) = 0
    BY PastIs
  <2> QED
    BY <2>1, <2>2, <2>3, OnwardBy
<1>17. CASE BookWhere(t) \/ BookCenter(t) \/ BookAddress(t)
  BY <1>15, <1>16, <1>17 DEF BookWhere, BookCenter, BookAddress
<1>18. CASE BookGeo(t)
  <2>1. /\ session.state = "BOOK_GEO" /\ session'.state = "BOOK_ADDRESS"
        /\ session'.booking = Got("geo") /\ profile' = profile
    BY <1>18, AdvanceIs DEF BookGeo
  <2>2. Ready("BOOK_ADDRESS", Got("geo"))
    BY <1>2, <1>4, <2>1 DEF Ready
  <2>3. Past("BOOK_GEO") = 0 /\ Past("BOOK_ADDRESS") = 0
    BY PastIs
  <2> QED
    BY <2>1, <2>2, <2>3, OnwardBy
<1>19. ASSUME NEW from \in {"BOOK_PROMO_ASK", "BOOK_PROMO_CODE"},
              NEW to \in {"BOOK_SERVICE", "BOOK_PROMO_CODE"}, Advance(t, from, s, to)
       PROVE  Onward
  <2>1. /\ session.state = from /\ session'.state = to
        /\ session'.booking = s /\ profile' = profile
    BY <1>19, AdvanceIs
  <2>2. Ready(to, s)
    BY <1>2, <2>1 DEF Ready
  <2>3. Past(from) = 0 /\ Past(to) = 0
    BY PastIs
  <2> QED
    BY <2>1, <2>2, <2>3, OnwardBy
<1>20. CASE BookPromoAsk(t)
  BY <1>19, <1>20 DEF BookPromoAsk
<1>21. CASE BookPromoCode(t)
  <2>1. CASE Advance(t, "BOOK_PROMO_CODE", s, "BOOK_SERVICE")
    BY <1>19, <2>1
  <2>2. CASE /\ On(t, "BOOK_PROMO_CODE") /\ UNCHANGED dbVars
             /\ session' = [session EXCEPT !.booking.promo = TRUE]
    <3>1. session.state = "BOOK_PROMO_CODE" /\ profile' = profile
      BY <2>2 DEF On, dbVars
    <3>2. s \in Bookings /\ Located(s)
      BY <1>2, <1>3, <3>1 DEF Ready
    <3>3. /\ session'.state = "BOOK_PROMO_CODE" /\ session'.booking.got = s.got
          /\ session'.booking.lane = s.lane
      BY <1>1, <2>2, <3>1, <3>2, Typed DEF Sessions, Bookings
    <3>4. Located(session'.booking)
      BY <3>2, <3>3, LocatedGrows
    <3>5. Ready("BOOK_PROMO_CODE", session'.booking)
      BY <3>4 DEF Ready
    <3>6. Past("BOOK_PROMO_CODE") = 0
      BY PastIs
    <3> QED
      BY <1>2, <3>1, <3>3, <3>4, <3>5, <3>6 DEF Onward
  <2>3. CASE UNCHANGED <<session, dbVars>>
    BY <1>5, <2>3 DEF dbVars
  <2> QED
    BY <1>21, <2>1, <2>2, <2>3 DEF BookPromoCode
<1>22. CASE BookService(t)
  <2> DEFINE b == [Got("service") EXCEPT !.price = Grid(s)]
  <2>1. /\ session.state = "BOOK_SERVICE" /\ session'.state = "BOOK_WHEN"
        /\ session'.booking = b /\ profile' = profile
    BY <1>22, AdvanceIs DEF BookService
  <2>2. s \in Bookings /\ Located(s)
    BY <1>2, <1>3, <2>1 DEF Ready
  <2>3. /\ Got("service") \in Bookings /\ Got("service").lane = s.lane
        /\ Got("service").promo = s.promo /\ "service" \in Got("service").got
        /\ s.got \subseteq Got("service").got
    BY <2>2, GotTyped
  <2>4. /\ b.lane = s.lane /\ b.promo = s.promo /\ b.got = Got("service").got
        /\ b.price = Grid(s)
    BY <2>3 DEF Bookings
  <2> HIDE DEF b
  <2>5. Grid(b) = Grid(s)
    BY <2>4 DEF Grid
  <2>6. Located(b)
    BY <2>2, <2>3, <2>4, LocatedGrows
  <2>7. Priced(b)
    BY <2>3, <2>4, <2>5, <2>6 DEF Priced
  <2>8. Ready("BOOK_WHEN", b)
    BY <2>7 DEF Ready
  <2>9. Past("BOOK_SERVICE") = 0 /\ Past("BOOK_WHEN") = 1
    BY PastIs
  <2> QED
    BY <2>1, <2>6, <2>8, <2>9, OnwardBy
<1>23. CASE BookWhen(t)
  <2>1. /\ session.state = "BOOK_WHEN" /\ session'.state = "BOOK_SLOT"
        /\ session'.booking = Got("when") /\ profile' = profile
    BY <1>23, AdvanceIs DEF BookWhen
  <2>2. Ready("BOOK_SLOT", Got("when")) /\ Located(Got("when"))
    BY <1>2, <1>4, <2>1 DEF Ready, Priced
  <2> QED
    BY <2>1, <2>2, PastIs, OnwardBy
<1>24. CASE BookSlot(t)
  <2>1. /\ session.state = "BOOK_SLOT" /\ session'.state = "BOOK_NOTE"
        /\ session'.booking = Got("slot") /\ profile' = profile
    BY <1>24, AdvanceIs DEF BookSlot
  <2>2. Ready("BOOK_NOTE", Got("slot")) /\ Located(Got("slot"))
    BY <1>2, <1>4, <2>1 DEF Ready, Priced
  <2> QED
    BY <2>1, <2>2, PastIs, OnwardBy
<1>25. ASSUME NEW from \in {"BOOK_NOTE", "BOOK_NOTE_TEXT"},
              NEW to \in {"BOOK_CONFIRM", "BOOK_NOTE_TEXT"}, Advance(t, from, s, to)
       PROVE  Onward
  <2>1. /\ session.state = from /\ session'.state = to
        /\ session'.booking = s /\ profile' = profile
    BY <1>25, AdvanceIs
  <2>2. Ready(to, s)
    BY <1>2, <2>1 DEF Ready
  <2>3. Past(from) \in {3, 4} /\ Past(to) = 4
    BY PastIs
  <2> QED
    BY <2>1, <2>2, <2>3, OnwardBy
<1>26. CASE BookNote(t)
  BY <1>25, <1>26 DEF BookNote
<1>27. CASE UpsellYes(t)
  <2>1. /\ session.state = "UPSELL_DETAILING" /\ session'.state = "UPSELL_DETAILING_PICK"
        /\ session'.booking = s /\ profile' = profile
    BY <1>27, AdvanceIs DEF UpsellYes
  <2>2. Ready("UPSELL_DETAILING_PICK", s)
    BY DEF Ready
  <2>3. Past("UPSELL_DETAILING") = 0 /\ Past("UPSELL_DETAILING_PICK") = 0
    BY PastIs
  <2> QED
    BY <2>1, <2>2, <2>3, OnwardBy
<1> QED
  BY <1>7, <1>8, <1>9, <1>10, <1>11, <1>12, <1>13, <1>14, <1>17, <1>18, <1>20, <1>21,
     <1>22, <1>23, <1>24, <1>26, <1>27 DEF PathMessage

(* The rows of a step that stores nothing.                                 *)
RowsAreReady == \A r \in Own : Priced(rows[r]) /\ {"when", "slot"} \subseteq rows[r].got

LEMMA MovedPath ==
  ASSUME ConversationInv, PathInv, FewOvertakes, NEW t \in Task, Moved(t), PathMessage(t)
  PROVE  PathInv'
<1>1. TypeOK /\ BookingIsThere
  BY DEF ConversationInv
<1>2. Onward
  BY PathOnward
<1>3. PICK x \in TaskRecord :
        /\ task' = [task EXCEPT ![t] = x]
        /\ \/ ~x.mine /\ x.next \in {"end", "menu", "reset"}
           \/ /\ x.mine /\ x.next \in {"promoAsk", "askService"}
              /\ session.state = "BOOK_PROMO_CODE" /\ session'.state = "BOOK_PROMO_CODE"
              /\ session'.booking.got = session.booking.got
              /\ session'.booking.lane = session.booking.lane
  BY DEF Moved
<1>4. /\ session.state \in States /\ session'.state \in States /\ rows' = rows
      /\ Receives(t)
  BY <1>1, SessionFields DEF Moved, Sessions
<1>5. /\ task'[t] = x /\ \A u \in Task : u # t => task'[u] = task[u]
      /\ overtaken \in [Task -> 0..MaxOvertakes] /\ overtaken' \in [Task -> 0..MaxOvertakes]
  BY <1>1, <1>3, <1>4, Typed, ReceivesOvertaken
<1>6. ASSUME NEW u \in Task, task'[u].mine, task'[u].next \in {"promoAsk", "askService"}
      PROVE  /\ session'.state \in Placed /\ Located(session'.booking)
             /\ Past(session'.state) <= overtaken'[u]
  <2>1. CASE u = t
    <3>1. session.state = "BOOK_PROMO_CODE" /\ session'.state = "BOOK_PROMO_CODE"
          /\ session'.booking.got = session.booking.got
          /\ session'.booking.lane = session.booking.lane
      BY <1>3, <1>5, <1>6, <2>1
    <3>2. Located(session.booking)
      BY <3>1 DEF PathInv, Ready
    <3>3. Located(session'.booking)
      BY <3>1, <3>2, LocatedGrows
    <3>4. Past(session'.state) = 0 /\ session'.state \in Placed
      BY <3>1, PastIs DEF States, Placed
    <3> QED
      BY <1>5, <3>3, <3>4
  <2>2. CASE u # t
    <3>1. /\ session.state \in Placed /\ Located(session.booking)
          /\ Past(session.state) <= overtaken[u] /\ task[u] # NoTask
      BY <1>5, <1>6, <2>2, NoTaskIs DEF PathInv, LateStateIsNear, SetsStateLate
    <3>2. overtaken[u] < MaxOvertakes /\ overtaken'[u] = overtaken[u] + 1
      BY <1>1, <1>4, <2>2, <3>1, ReceivesOvertaken
    <3>3. Past(session.state) \in 0..4 /\ Past(session'.state) \in 0..4
      BY <1>4, PastIs
    <3>4. Past(session.state) <= 3
      BY <1>5, <3>1, <3>2, <3>3, ConversationConstants DEF FewOvertakes
    <3> QED
      BY <1>2, <1>5, <3>1, <3>2, <3>3, <3>4 DEF Onward
  <2> QED
    BY <2>1, <2>2
<1>7. LateStateIsNear'
  BY <1>6 DEF LateStateIsNear, SetsStateLate
<1>8. Own' = Own /\ \A r \in Own : rows'[r] = rows[r]
  BY <1>4 DEF Stored, Own
<1> QED
  BY <1>2, <1>7, <1>8 DEF PathInv, Onward

LEMMA RenewedPath ==
  ASSUME ConversationInv, PathInv, NEW t \in Task, Renewed(t)
  PROVE  PathInv'
<1>1. TypeOK /\ BookingIsThere
  BY DEF ConversationInv
<1>2. PICK x \in {NoTask, Plain("end")} : task' = [Detached EXCEPT ![t] = x]
  BY DEF Renewed
<1>3. ~x.mine
  BY PlainTask, NoTaskIs DEF Nexts
<1>4. \A u \in Task : ~task'[u].mine
  BY <1>1, <1>2, <1>3, DetachedTyped
<1>5. LateStateIsNear'
  BY <1>4 DEF LateStateIsNear, SetsStateLate
<1>6. Ready(session'.state, session'.booking)
  <2>1. CASE session'.state \in {"IDLE", "MENU"}
    BY <2>1 DEF Ready
  <2>2. CASE /\ session'.state = "RETURNING_CUSTOMER" /\ profile # NoProfile
             /\ session'.booking.lane = profile.lane /\ session'.booking.got = profile.got
    <3>1. Identified(profile)
      BY <2>2 DEF PathInv
    <3>2. Identified(session'.booking)
      BY <2>2, <3>1, LocatedGrows
    <3> QED
      BY <2>2, <3>2 DEF Ready
  <2> QED
    BY <2>1, <2>2 DEF Renewed
<1>7. rows' = rows /\ profile' = profile
  BY DEF Renewed, dbVars
<1>8. Own' = Own
  BY <1>7 DEF Stored, Own
<1> QED
  BY <1>5, <1>6, <1>7, <1>8 DEF PathInv

LEMMA ResumedPath ==
  ASSUME ConversationInv, PathInv, NEW t \in Task, Resumed(t)
  PROVE  PathInv'
<1>1. TypeOK /\ BookingIsThere
  BY DEF ConversationInv
<1>2. PICK x \in {NoTask, Plain("end")} : task' = [task EXCEPT ![t] = x]
  BY DEF Resumed
<1>3. ~x.mine
  BY PlainTask, NoTaskIs DEF Nexts
<1>4. /\ task'[t] = x /\ \A u \in Task : u # t => task'[u] = task[u] /\ overtaken'[u] = overtaken[u]
  BY <1>1, <1>2, Typed DEF Resumed
<1>5. /\ overtaken \in [Task -> 0..MaxOvertakes] /\ session.state \in States
      /\ rows' = rows /\ profile' = profile
  BY <1>1, Typed, SessionFields DEF Resumed, dbVars
<1>6. Own' = Own
  BY <1>5 DEF Stored, Own
<1>7. CASE UNCHANGED session
  <2>1. LateStateIsNear'
    BY <1>3, <1>4, <1>7 DEF PathInv, LateStateIsNear, SetsStateLate
  <2> QED
    BY <1>5, <1>6, <1>7, <2>1 DEF PathInv
<1>8. CASE /\ task[t].mine
           /\ session' = [session EXCEPT !.state = session'.state]
           /\ \/ task[t].next = "promoAsk" /\ session'.state = "BOOK_PROMO_ASK"
              \/ task[t].next = "askService" /\ session'.state = "BOOK_SERVICE"
              \/ task[t].next = "alert" /\ session'.state = "UPSELL_DETAILING"
  <2>1. session'.booking = session.booking
    BY <1>1, <1>8, Typed DEF Sessions
  <2>2. /\ session'.state \in Placed /\ session'.state \in States
        /\ session'.state \in {"BOOK_PROMO_ASK", "BOOK_SERVICE", "UPSELL_DETAILING"}
    BY <1>8 DEF Placed, States, Upselling
  <2>3. Past(session'.state) = 0
    BY <2>2, PastIs
  <2>4. Ready(session'.state, session'.booking)
    <3>1. CASE task[t].next \in {"promoAsk", "askService"}
      <4>1. Located(session.booking)
        BY <1>8, <3>1 DEF PathInv, LateStateIsNear, SetsStateLate
      <4> QED
        BY <2>1, <2>2, <4>1 DEF Ready
    <3>2. CASE session'.state = "UPSELL_DETAILING"
      BY <3>2 DEF Ready
    <3> QED
      BY <1>8, <3>1, <3>2
  <2>5. ASSUME NEW u \in Task, task'[u].mine, task'[u].next \in {"promoAsk", "askService"}
        PROVE  /\ session'.state \in Placed /\ Located(session'.booking)
               /\ Past(session'.state) <= overtaken'[u]
    <3>1. u # t /\ task'[u] = task[u] /\ overtaken'[u] = overtaken[u]
      BY <1>3, <1>4, <2>5
    <3>2. Located(session.booking)
      BY <2>5, <3>1 DEF PathInv, LateStateIsNear, SetsStateLate
    <3> QED
      BY <1>5, <2>1, <2>2, <2>3, <3>1, <3>2
  <2>6. LateStateIsNear'
    BY <2>5 DEF LateStateIsNear, SetsStateLate
  <2> QED
    BY <1>5, <1>6, <2>4, <2>6 DEF PathInv
<1> QED
  BY <1>7, <1>8 DEF Resumed

LEMMA ConfirmYesPath ==
  ASSUME ConversationInv, PathInv, FewOvertakes, NEW t \in Task, ConfirmYes(t)
  PROVE  PathInv'
<1>1. TypeOK /\ BookingIsThere
  BY DEF ConversationInv
<1>2. PICK ref \in 1..MaxRefs : Confirms(t, ref)
  BY <1>1, ConfirmYesIs
<1>3. /\ session'.state = "BOOK_CONFIRM" /\ session.state = "BOOK_CONFIRM"
      /\ session'.booking = Referenced(ref) /\ Receives(t)
      /\ Referenced(ref).got = session.booking.got
      /\ Referenced(ref).lane = session.booking.lane
      /\ Referenced(ref).promo = session.booking.promo
      /\ Referenced(ref).price = session.booking.price
      /\ Referenced(ref) \in Bookings
  BY <1>2 DEF Confirms
<1>4. Ready("BOOK_CONFIRM", session.booking)
  BY <1>3 DEF PathInv
<1>5. Ready("BOOK_CONFIRM", Referenced(ref))
  BY <1>3, <1>4, ReadyGrows
<1>6. Priced(Referenced(ref)) /\ {"when", "slot"} \subseteq Referenced(ref).got
  BY <1>5 DEF Ready
<1>7. profile' # NoProfile => Identified(profile')
  <2>1. /\ Known(Referenced(ref)).lane = Referenced(ref).lane
        /\ Referenced(ref).got \cap Identity \subseteq Known(Referenced(ref)).got
    BY <1>1, <1>3, Typed, KnownTyped
  <2>2. Identified(Known(Referenced(ref)))
    BY <1>6, <2>1 DEF Priced, Located, Identified, Identity
  <2>3. profile' = profile \/ profile' = Known(Referenced(ref))
    BY <1>2 DEF Confirms
  <2> QED
    BY <2>2, <2>3 DEF PathInv
<1>8. task'[t].next = "ack" /\ \A u \in Task : u # t => task'[u] = task[u]
  <2>1. "ack" \in Nexts /\ ref \in 0..MaxRefs
    BY ConversationConstants DEF Nexts
  <2>2. task' = [task EXCEPT ![t] = Keeping("ack", ref)]
    BY <1>2 DEF Confirms
  <2> QED
    BY <1>1, <2>1, <2>2, KeepingTask, Typed
<1>9. ASSUME NEW u \in Task PROVE ~(task'[u].mine /\ task'[u].next \in {"promoAsk", "askService"})
  <2>1. CASE u = t
    BY <1>8, <2>1
  <2>2. CASE u # t
    <3>1. task'[u] = task[u]
      BY <1>8, <2>2
    <3>2. SUFFICES ASSUME SetsStateLate(u) PROVE FALSE
      BY <3>1 DEF SetsStateLate
    <3>3. Past("BOOK_CONFIRM") <= overtaken[u] /\ task[u] # NoTask
      BY <1>3, <3>2, NoTaskIs DEF PathInv, LateStateIsNear, SetsStateLate
    <3>4. overtaken[u] < MaxOvertakes
      BY <1>1, <1>3, <2>2, <3>3, ReceivesOvertaken
    <3>5. overtaken[u] \in 0..MaxOvertakes
      BY <1>1, Typed
    <3> QED
      BY <3>3, <3>4, <3>5, PastIs, ConversationConstants DEF FewOvertakes
  <2> QED
    BY <2>1, <2>2
<1>10. LateStateIsNear'
  BY <1>9 DEF LateStateIsNear, SetsStateLate
<1>11. RowsAreReady'
  <2>1. \A r \in Own' : (rows'[r] = rows[r] /\ r \in Own) \/ rows'[r] = Referenced(ref)
    BY <1>2 DEF Confirms
  <2> QED
    BY <1>6, <2>1 DEF RowsAreReady, PathInv
<1> QED
  BY <1>3, <1>5, <1>7, <1>10, <1>11 DEF PathInv, RowsAreReady

LEMMA UpsellPickPath ==
  ASSUME ConversationInv, PathInv, NEW t \in Task, UpsellPick(t)
  PROVE  PathInv'
<1>1. TypeOK /\ BookingIsThere
  BY DEF ConversationInv
<1>2. /\ session.state = "UPSELL_DETAILING_PICK" /\ session'.state = "UPSELL_DETAILING_PICK"
      /\ session'.booking.got = session.booking.got
      /\ session'.booking.lane = session.booking.lane /\ profile' = profile
      /\ WithAddon.ref \in 0..MaxRefs /\ rows' = AddAddon(WithAddon.ref) /\ Receives(t)
  BY <1>1, UpsellPickIs
<1>3. Ready(session'.state, session'.booking)
  BY <1>2 DEF Ready
<1>4. "addonAck" \in Nexts
  BY DEF Nexts
<1>5. task'[t].next = "addonAck" /\ \A u \in Task : u # t => task'[u] = task[u]
  BY <1>1, <1>2, <1>4, UpsellPickIs, KeepingTask, Typed
<1>6. ASSUME NEW u \in Task, task'[u].mine, task'[u].next \in {"promoAsk", "askService"}
      PROVE  /\ session'.state \in Placed /\ Located(session'.booking)
             /\ Past(session'.state) <= overtaken'[u]
  <2>1. u # t /\ task'[u] = task[u]
    BY <1>5, <1>6
  <2>2. Located(session.booking)
    BY <1>6, <2>1 DEF PathInv, LateStateIsNear, SetsStateLate
  <2>3. Located(session'.booking)
    BY <1>2, <2>2, LocatedGrows
  <2>4. Past(session'.state) = 0 /\ session'.state \in Placed
    BY <1>2, PastIs DEF States, Placed, Upselling
  <2>5. overtaken'[u] \in 0..MaxOvertakes
    BY <1>1, <1>2, ReceivesOvertaken
  <2> QED
    BY <2>3, <2>4, <2>5
<1>7. LateStateIsNear'
  BY <1>6 DEF LateStateIsNear, SetsStateLate
<1>8. RowsAreReady'
  <2>1. Own' = Own
    BY <1>1, <1>2, AddonRows
  <2>2. ASSUME NEW r \in Own
        PROVE  Priced(rows'[r]) /\ {"when", "slot"} \subseteq rows'[r].got
    <3>1. /\ rows'[r].lane = rows[r].lane /\ rows'[r].got = rows[r].got
          /\ rows'[r].promo = rows[r].promo /\ rows'[r].price = rows[r].price
      BY <1>1, <1>2, AddonRows
    <3> QED
      BY <3>1, PricedGrows DEF PathInv
  <2> QED
    BY <2>1, <2>2 DEF RowsAreReady
<1> QED
  BY <1>2, <1>3, <1>7, <1>8 DEF PathInv, RowsAreReady

LEMMA StoreFailsPath ==
  ASSUME ConversationInv, PathInv, NEW t \in Task, StoreFails(t)
  PROVE  PathInv'
<1>1. TypeOK /\ BookingIsThere
  BY DEF ConversationInv
<1>2. /\ session'.state = session.state /\ session.booking.got \subseteq session'.booking.got
      /\ session.state # "BOOK_VEHICLE" => session'.booking.lane = session.booking.lane
      /\ session'.booking.promo = session.booking.promo
      /\ session'.booking.price = session.booking.price
      /\ Receives(t)
      /\ task' = task /\ rows' = rows /\ profile' = profile
  BY <1>1, StoreFailsIs
<1>3. Ready(session'.state, session'.booking)
  <2>1. CASE session.state = "BOOK_VEHICLE"
    BY <1>2, <2>1 DEF Ready, PathInv
  <2>2. CASE session.state # "BOOK_VEHICLE"
    BY <1>2, <2>2, ReadyGrows DEF PathInv
  <2> QED
    BY <2>1, <2>2
<1>4. ASSUME NEW u \in Task, task'[u].mine, task'[u].next \in {"promoAsk", "askService"}
      PROVE  /\ session'.state \in Placed /\ Located(session'.booking)
             /\ Past(session'.state) <= overtaken'[u]
  <2>1. /\ session.state \in Placed /\ Located(session.booking) /\ task[u] # NoTask
        /\ Past(session.state) <= overtaken[u]
    BY <1>2, <1>4, NoTaskIs DEF PathInv, LateStateIsNear, SetsStateLate
  <2>2. u # t /\ overtaken'[u] = overtaken[u] + 1
    BY <1>1, <1>2, <2>1, ReceivesOvertaken
  <2>3. session.state # "BOOK_VEHICLE"
    BY <2>1 DEF Placed, Upselling
  <2>4. Located(session'.booking)
    BY <1>2, <2>1, <2>3, LocatedGrows
  <2>5. Past(session.state) \in 0..4 /\ overtaken[u] \in 0..MaxOvertakes
    BY <1>1, PastIs, SessionFields, Typed
  <2> QED
    BY <1>2, <2>1, <2>2, <2>4, <2>5, ConversationConstants
<1>5. LateStateIsNear'
  BY <1>4 DEF LateStateIsNear, SetsStateLate
<1>6. Own' = Own
  BY <1>2 DEF Stored, Own
<1> QED
  BY <1>2, <1>3, <1>5, <1>6 DEF PathInv

(* The answers that leave the Session alone, and a restart.                *)
LEMMA AnswerPath ==
  ASSUME ConversationInv, PathInv, NEW t \in Task, Alert(t) \/ CallFails(t)
  PROVE  PathInv'
<1>1. TypeOK /\ BookingIsThere
  BY DEF ConversationInv
<1>2. /\ session' = session /\ rows' = rows /\ profile' = profile
      /\ \A u \in Task : u # t => task'[u] = task[u] /\ overtaken'[u] = overtaken[u]
      /\ task'[t].next \notin {"promoAsk", "askService"}
  <2>1. CASE Alert(t)
    <3>1. PICK x \in TaskRecord :
            /\ task' = [task EXCEPT ![t] = x]
            /\ x.next = IF task[t].next = "ack" THEN "alert" ELSE "addonAlert"
      BY <1>1, <2>1, AlertIs
    <3>2. /\ UNCHANGED <<session, rows, profile>>
          /\ overtaken' = [overtaken EXCEPT ![t] = 0]
      BY <1>1, <2>1, AlertIs DEF dbVars
    <3> QED
      BY <1>1, <3>1, <3>2, Typed
  <2>2. CASE CallFails(t)
    <3>1. /\ UNCHANGED <<session, rows, profile>> /\ task' = [task EXCEPT ![t] = NoTask]
          /\ \A u \in Task : u # t => overtaken'[u] = overtaken[u]
      BY <1>1, <2>2, ReturnsOvertaken DEF CallFails, dbVars
    <3> QED
      BY <1>1, <3>1, Typed, NoTaskIs DEF Nexts
  <2> QED
    BY <2>1, <2>2
<1>3. LateStateIsNear'
  BY <1>2 DEF PathInv, LateStateIsNear, SetsStateLate
<1>4. Own' = Own
  BY <1>2 DEF Stored, Own
<1> QED
  BY <1>2, <1>3, <1>4 DEF PathInv

LEMMA ForgetPath ==
  ASSUME ConversationInv, PathInv, Forget
  PROVE  PathInv'
<1>1. /\ session'.state = "IDLE" /\ rows' = rows /\ profile' = profile
      /\ \A u \in Task : ~task'[u].mine
  BY NewSessionTyped, NoTaskIs DEF Forget, dbVars
<1>2. Ready(session'.state, session'.booking)
  BY <1>1 DEF Ready
<1>3. LateStateIsNear'
  BY <1>1 DEF LateStateIsNear, SetsStateLate
<1>4. Own' = Own
  BY <1>1 DEF Stored, Own
<1> QED
  BY <1>1, <1>2, <1>3, <1>4 DEF PathInv

LEMMA AnotherBooksPath ==
  ASSUME ConversationInv, PathInv, AnotherBooks
  PROVE  PathInv'
<1>1. TypeOK
  BY DEF ConversationInv
<1>2. /\ Own' \subseteq Own /\ \A r \in Own' : rows'[r] = rows[r]
      /\ UNCHANGED <<session, task, overtaken, profile>>
  BY <1>1, AnotherBooksIs
<1>3. LateStateIsNear'
  BY <1>2 DEF PathInv, LateStateIsNear, SetsStateLate
<1> QED
  BY <1>2, <1>3 DEF PathInv

LEMMA PathInit == Init => PathInv
<1> SUFFICES ASSUME Init PROVE PathInv
  OBVIOUS
<1>1. session.state = "IDLE" /\ profile = NoProfile /\ Own = {}
      /\ \A u \in Task : ~task[u].mine
  BY NewSessionTyped, NoTaskIs DEF Init, Stored, Own
<1>2. Ready(session.state, session.booking)
  BY <1>1 DEF Ready
<1> QED
  BY <1>1, <1>2 DEF PathInv, LateStateIsNear, SetsStateLate

LEMMA PathStep == ConversationInv /\ PathInv /\ FewOvertakes /\ [Next]_vars => PathInv'
<1> SUFFICES ASSUME ConversationInv, PathInv, FewOvertakes, [Next]_vars PROVE PathInv'
  OBVIOUS
<1>1. CASE Next
  <2>1. TypeOK /\ BookingIsThere
    BY DEF ConversationInv
  <2> QED
    BY <1>1, <2>1, Shapes, ForgetPath, AnotherBooksPath, MovedPath, RenewedPath, ResumedPath,
       ConfirmYesPath, UpsellPickPath, StoreFailsPath, AnswerPath
<1>2. CASE UNCHANGED vars
  BY <1>2 DEF vars, dbVars, PathInv, LateStateIsNear, SetsStateLate, Stored, Own
<1> QED
  BY <1>1, <1>2

(* While fewer messages overtake a call than lead from the service to the  *)
(* next booking, a Booking has what its step of the path needs.            *)
THEOREM PathInvariant == FewOvertakes => (Spec => []PathInv)
<1> SUFFICES ASSUME FewOvertakes PROVE Spec => []PathInv
  OBVIOUS
<1>1. Init => PathInv
  BY PathInit
<1>2. ConversationInv /\ PathInv /\ [Next]_vars => PathInv'
  BY PathStep
<1> QED
  BY <1>1, <1>2, ConversationInvariant, PTL DEF Spec

(* "Moto lane skips model and color", and nothing else is ever skipped: a  *)
(* stored booking went through every question of its lane and has a place. *)
THEOREM StoredIsComplete == FewOvertakes => (Spec => []RowsAreComplete)
<1> SUFFICES ASSUME FewOvertakes PROVE Spec => []RowsAreComplete
  OBVIOUS
<1>1. PathInv => RowsAreComplete
  BY DEF PathInv, Priced, Located, Identified, Identity, RowsAreComplete,
     CarAnswers, MotoAnswers
<1> QED
  BY <1>1, PathInvariant, PTL

(* A late or repeated promo code never leaves a price of the other grid.   *)
THEOREM StoredPriceIsMeant == FewOvertakes => (Spec => []PricesMatchPromo)
<1> SUFFICES ASSUME FewOvertakes PROVE Spec => []PricesMatchPromo
  OBVIOUS
<1>1. PathInv => PricesMatchPromo
  BY DEF PathInv, Priced, Located, Identified, Grid, PricesMatchPromo
<1> QED
  BY <1>1, PathInvariant, PTL

=============================================================================
