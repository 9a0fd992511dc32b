------------------------- MODULE Appointments_proofs -------------------------
(* Proofs about Appointments, for any slots, any days, closed in any way,  *)
(* and any clock: the notice of home visits, the agreement of the server's *)
(* slot list with its check, and the check of the PWA's bookings.          *)
EXTENDS Appointments, FiniteSetTheorems, WellFoundedInduction, TLAPS

(* The server's answer is one of its errors, or none.                      *)
LEMMA AnswerTyped ==
  \A date, slot, location, days, slots, cl :
    ValidateSlotAndDate(date, slot, location, days, slots, cl) \in Errors \cup {Nothing}
BY DEF ValidateSlotAndDate, Errors

(* A new choice is a draft, and whatever was taken or refused is forgotten.*)
LEMMA BeginsTyped ==
  ASSUME NEW channel \in {"pwa", "whatsapp"}, NEW date \in Days,
         NEW slot \in Slots \cup {Nothing}, NEW location \in Locations,
         Begins(channel, date, slot, location)
  PROVE  /\ draft' \in Draft \cup {Nothing}
         /\ booked' \in Draft \cup {Nothing}
         /\ refusal' \in Errors \cup {Nothing}
BY DEF Begins, Draft

LEMMA TypeInit == Init => TypeOK
BY DaysAssumption DEF Init, TypeOK

(* One step per action.                                                    *)
LEMMA TypeStep == TypeOK /\ [Next]_vars => TypeOK'
<1> SUFFICES ASSUME TypeOK, [Next]_vars PROVE TypeOK'
  OBVIOUS
<1> USE DEF TypeOK
<1>1. CASE Tick
  BY <1>1, DaysAssumption DEF Tick
<1>2. ASSUME NEW d \in Days, UpsertClosedDate(d) PROVE TypeOK'
  BY <1>2, DaysAssumption DEF UpsertClosedDate
<1>3. ASSUME NEW s \in Slots, UpsertTimeSlot(s) PROVE TypeOK'
  BY <1>3, DaysAssumption DEF UpsertTimeSlot
<1>4. ASSUME NEW d \in Days, NEW s \in Slots, NEW l \in Locations, PickInApp(d, s, l)
      PROVE  TypeOK'
  BY <1>4, BeginsTyped DEF PickInApp
<1>5. ASSUME NEW days \in ListClosedDates, NEW cl \in ListClosedDates, NEW slots \in ListTimeSlots,
             Submit(days, slots, cl)
      PROVE  TypeOK'
  <2>1. refusal' \in Errors \cup {Nothing}
    BY <1>5, AnswerTyped DEF Submit
  <2> QED BY <1>5, <2>1 DEF Submit
<1>6. CASE AskWhen
  BY <1>6 DEF AskWhen
<1>7. ASSUME NEW d \in Days, NEW l \in Locations, PickDate(d, l) PROVE TypeOK'
  BY <1>7, BeginsTyped DEF PickDate
<1>8. ASSUME NEW s \in Slots, PickSlot(s) PROVE TypeOK'
  <2>1. draft \in Draft
    BY <1>8 DEF PickSlot
  <2>2. draft' \in Draft
    BY <1>8, <2>1 DEF PickSlot, Draft
  <2> QED BY <1>8, <2>2 DEF PickSlot
<1>9. CASE ConfirmInChat
  BY <1>9 DEF ConfirmInChat
<1>10. CASE UNCHANGED vars
  BY <1>10 DEF vars
<1> QED
  BY <1>1, <1>2, <1>3, <1>4, <1>5, <1>6, <1>7, <1>8, <1>9, <1>10 DEF Next

(* Every state is type correct: a draft always names a day that can be     *)
(* chosen, an answer is one of the three errors or a booking.              *)
THEOREM TypeCorrect == Spec => []TypeOK
BY TypeInit, TypeStep, PTL DEF Spec

-----------------------------------------------------------------------------
(* The notice of home visits.  The cutoff is a recursive function of the   *)
(* closed days: the proof gives it a closed form, shows that the form      *)
(* solves the function's equation and that no other function does.         *)

(* A set of naturals that is not empty has a least element.                *)
LEMMA Least ==
  ASSUME NEW T \in SUBSET Nat, T # {}
  PROVE  \E x \in T : \A y \in T : x <= y
<1> DEFINE R == OpToRel(<, Nat)
<1>1. IsWellFoundedOn(R, Nat)
  BY NatLessThanWellFounded
<1>2. \A x, y \in Nat : y < x => <<y, x>> \in R
  BY DEF OpToRel
<1> HIDE DEF R
<1>3. PICK x \in T : \A y \in T : <<y, x>> \notin R
  BY <1>1, WFMin
<1>4. \A y \in T : x <= y
  <2> TAKE y \in T
  <2>1. x \in Nat /\ y \in Nat
    OBVIOUS
  <2>2. ~(y < x)
    BY <1>2, <1>3, <2>1
  <2> QED BY <2>1, <2>2
<1> QED BY <1>4

(* Days and their hours in half hours.                                     *)
LEMMA Clock ==
  /\ HomeMinLead = 8
  /\ \A d \in Nat : DayStart(d) = 48 * d + 18 /\ DayEnd(d) = 48 * d + 44
BY DEF HomeMinLead, DayStart, DayEnd, WorkingDayStart, WorkingDayEnd, Day, Hour

LEMMA DayOfTime ==
  \A c \in Nat : DayOf(c) \in Nat /\ 48 * DayOf(c) <= c /\ c < 48 * DayOf(c) + 48
BY DEF DayOf, Day, Hour

LEMMA DayOfIsUnique ==
  ASSUME NEW d \in Nat, NEW c \in Nat, 48 * d <= c, c < 48 * d + 48
  PROVE  DayOf(c) = d
<1>1. DayOf(c) \in Nat /\ 48 * DayOf(c) <= c /\ c < 48 * DayOf(c) + 48
  BY DayOfTime
<1> QED BY <1>1

(* The first open day from d on.  There is one: only finitely many days    *)
(* can be closed.                                                          *)
NextOpen(d, cl) ==
  CHOOSE x \in Nat : /\ x >= d /\ x \notin cl
                     /\ \A y \in Nat : y >= d /\ y \notin cl => x <= y

LEMMA NextOpenIs ==
  ASSUME NEW cl \in SUBSET Days, NEW d \in Nat
  PROVE  /\ NextOpen(d, cl) \in Nat /\ NextOpen(d, cl) >= d /\ NextOpen(d, cl) \notin cl
         /\ \A y \in Nat : y >= d /\ y \notin cl => NextOpen(d, cl) <= y
<1> DEFINE T == {x \in Nat : x >= d /\ x \notin cl}
<1>1. T # {}
  <2> SUFFICES ASSUME T = {} PROVE FALSE
    OBVIOUS
  <2>1. IsFiniteSet(cl) /\ Cardinality(cl) \in Nat
    BY DaysAssumption, FS_Subset, FS_CardinalityType
  <2> DEFINE n == Cardinality(cl)
  <2>2. d..(d + n) \in SUBSET cl
    BY <2>1
  <2>3. Cardinality(d..(d + n)) <= n
    BY <2>1, <2>2, FS_Subset
  <2>4. Cardinality(d..(d + n)) = n + 1
    <3>1. d \in Int /\ d + n \in Int /\ ~(d > d + n) /\ (d + n) - d + 1 = n + 1
      BY <2>1
    <3> HIDE DEF n
    <3> QED BY <3>1, FS_Interval
  <2> QED BY <2>1, <2>3, <2>4
<1>2. PICK x \in T : \A y \in T : x <= y
  <2> HIDE DEF T
  <2>1. T \in SUBSET Nat
    BY DEF T
  <2> QED BY <1>1, <2>1, Least
<1>3. \E z \in Nat : /\ z >= d /\ z \notin cl
                     /\ \A y \in Nat : y >= d /\ y \notin cl => z <= y
  BY <1>2
<1> QED BY <1>3 DEF NextOpen

LEMMA NextOpenStep ==
  ASSUME NEW cl \in SUBSET Days, NEW d \in Nat
  PROVE  /\ d \notin cl => NextOpen(d, cl) = d
         /\ d \in cl => NextOpen(d, cl) = NextOpen(d + 1, cl)
<1>1. /\ NextOpen(d, cl) \in Nat /\ NextOpen(d, cl) >= d /\ NextOpen(d, cl) \notin cl
      /\ \A y \in Nat : y >= d /\ y \notin cl => NextOpen(d, cl) <= y
  BY NextOpenIs
<1>2. d + 1 \in Nat
  OBVIOUS
<1>3. /\ NextOpen(d + 1, cl) \in Nat /\ NextOpen(d + 1, cl) >= d + 1 /\ NextOpen(d + 1, cl) \notin cl
      /\ \A y \in Nat : y >= d + 1 /\ y \notin cl => NextOpen(d + 1, cl) <= y
  BY <1>2, NextOpenIs
<1>4. d \notin cl => NextOpen(d, cl) = d
  <2>1. d \notin cl => NextOpen(d, cl) <= d
    BY <1>1
  <2> QED BY <1>1, <2>1
<1>5. ASSUME d \in cl PROVE NextOpen(d, cl) = NextOpen(d + 1, cl)
  <2>1. NextOpen(d, cl) # d /\ NextOpen(d, cl) >= d + 1
    BY <1>1, <1>5
  <2>2. NextOpen(d + 1, cl) <= NextOpen(d, cl)
    BY <1>1, <1>3, <2>1
  <2>3. NextOpen(d + 1, cl) >= d
    BY <1>3
  <2>4. NextOpen(d, cl) <= NextOpen(d + 1, cl)
    BY <1>1, <1>3, <2>3
  <2> QED BY <1>1, <1>3, <2>2, <2>4
<1> QED BY <1>4, <1>5

(* The body of the walk, and its closed form: what is left of the day, and *)
(* if that is not enough the rest of it on the next open day, of which     *)
(* four hours are never more than a part.                                  *)
Walk == Nat \X (0..HomeMinLead)
WalkStep(walk, p, cl) ==
  LET c == p[1]
      remaining == p[2]
      d == DayOf(c)
      s == IF c < DayStart(d) THEN DayStart(d) ELSE c
      available == DayEnd(d) - s
  IN IF SkipsDay(c, cl) THEN walk[<<DayStart(d + 1), remaining>>]
     ELSE IF available >= remaining THEN s + remaining
     ELSE walk[<<DayStart(d + 1), remaining - available>>]

From(c) == IF c < DayStart(DayOf(c)) THEN DayStart(DayOf(c)) ELSE c
LeftOf(c) == DayEnd(DayOf(c)) - From(c)
WalkEnd(c, remaining, cl) ==
  IF SkipsDay(c, cl) THEN DayStart(NextOpen(DayOf(c) + 1, cl)) + remaining
  ELSE IF LeftOf(c) >= remaining THEN From(c) + remaining
  ELSE DayStart(NextOpen(DayOf(c) + 1, cl)) + (remaining - LeftOf(c))

(* From an opening hour the walk ends on the first open day.               *)
LEMMA WalkEndAtOpening ==
  ASSUME NEW cl \in SUBSET Days, NEW d \in Nat, NEW r \in 0..8
  PROVE  WalkEnd(DayStart(d), r, cl) = DayStart(NextOpen(d, cl)) + r
<1>1. DayStart(d) = 48 * d + 18 /\ DayEnd(d) = 48 * d + 44
  BY Clock
<1>2. DayOf(DayStart(d)) = d
  <2>1. DayStart(d) \in Nat /\ 48 * d <= DayStart(d) /\ DayStart(d) < 48 * d + 48
    BY <1>1
  <2> QED BY <2>1, DayOfIsUnique
<1>3. CASE d \in cl
  <2>1. SkipsDay(DayStart(d), cl) /\ NextOpen(d, cl) = NextOpen(d + 1, cl)
    BY <1>2, <1>3, NextOpenStep DEF SkipsDay
  <2> QED BY <1>2, <2>1 DEF WalkEnd
<1>4. CASE d \notin cl
  <2>1. ~(DayStart(d) >= DayEnd(d)) /\ NextOpen(d, cl) = d
    BY <1>1, <1>4, NextOpenStep
  <2>2. ~SkipsDay(DayStart(d), cl)
    BY <1>2, <1>4, <2>1 DEF SkipsDay
  <2>3. From(DayStart(d)) = DayStart(d) /\ LeftOf(DayStart(d)) = 26
    BY <1>1, <1>2 DEF From, LeftOf
  <2> QED BY <2>1, <2>2, <2>3 DEF WalkEnd
<1> QED BY <1>3, <1>4

(* What one step of the walk asks for is a walk again.                     *)
LEMMA LeftTyped ==
  ASSUME NEW c \in Nat, NEW cl
  PROVE  /\ DayOf(c) \in Nat /\ DayOf(c) + 1 \in Nat
         /\ From(c) \in Nat /\ LeftOf(c) \in Int
         /\ From(c) >= c /\ From(c) >= DayStart(DayOf(c))
         /\ ~SkipsDay(c, cl) => DayOf(c) \notin cl /\ LeftOf(c) > 0
<1>1. DayOf(c) \in Nat /\ 48 * DayOf(c) <= c /\ c < 48 * DayOf(c) + 48
  BY DayOfTime
<1>2. DayStart(DayOf(c)) = 48 * DayOf(c) + 18 /\ DayEnd(DayOf(c)) = 48 * DayOf(c) + 44
  BY <1>1, Clock
<1> QED BY <1>1, <1>2 DEF From, LeftOf, SkipsDay

(* The closed form solves the walk's equation, ...                         *)
LEMMA WalkEndSolves ==
  ASSUME NEW cl \in SUBSET Days
  PROVE  LET f == [p \in Walk |-> WalkEnd(p[1], p[2], cl)]
         IN f = [p \in Walk |-> WalkStep(f, p, cl)]
<1> DEFINE f == [p \in Walk |-> WalkEnd(p[1], p[2], cl)]
<1> SUFFICES ASSUME NEW p \in Walk PROVE WalkEnd(p[1], p[2], cl) = WalkStep(f, p, cl)
  OBVIOUS
<1>1. p[1] \in Nat /\ p[2] \in 0..8 /\ p = <<p[1], p[2]>>
  BY Clock DEF Walk
<1> DEFINE c == p[1]
           d == DayOf(p[1])
<1>2. /\ d \in Nat /\ d + 1 \in Nat /\ DayStart(d + 1) \in Nat
      /\ LeftOf(c) \in Int /\ (~SkipsDay(c, cl) => LeftOf(c) > 0)
  <2>1. d \in Nat /\ d + 1 \in Nat /\ LeftOf(c) \in Int /\ (~SkipsDay(c, cl) => LeftOf(c) > 0)
    BY <1>1, LeftTyped
  <2>2. DayStart(d + 1) = 48 * (d + 1) + 18
    BY <2>1, Clock
  <2> QED BY <2>1, <2>2
<1>3. ASSUME NEW r \in 0..8 PROVE f[<<DayStart(d + 1), r>>] = DayStart(NextOpen(d + 1, cl)) + r
  <2>1. <<DayStart(d + 1), r>> \in Walk
    BY <1>2, Clock DEF Walk
  <2>2. f[<<DayStart(d + 1), r>>] = WalkEnd(DayStart(d + 1), r, cl)
    BY <2>1
  <2> QED BY <1>2, <2>2, WalkEndAtOpening
<1> HIDE DEF f
<1>4. CASE SkipsDay(c, cl)
  BY <1>1, <1>3, <1>4 DEF WalkStep, WalkEnd
<1>5. CASE ~SkipsDay(c, cl) /\ LeftOf(c) >= p[2]
  BY <1>5 DEF WalkStep, WalkEnd, From, LeftOf
<1>6. CASE ~SkipsDay(c, cl) /\ ~(LeftOf(c) >= p[2])
  <2>1. p[2] - LeftOf(c) \in 0..8
    BY <1>1, <1>2, <1>6
  <2>2. f[<<DayStart(d + 1), p[2] - LeftOf(c)>>] = DayStart(NextOpen(d + 1, cl)) + (p[2] - LeftOf(c))
    BY <1>3, <2>1
  <2> QED BY <1>6, <2>2 DEF WalkStep, WalkEnd, From, LeftOf
<1> QED BY <1>4, <1>5, <1>6

(* ... and any solution is the closed form: the one that differs at the    *)
(* least distance from an open day would differ at a lesser distance.      *)
LEMMA SolutionAtOpening ==
  ASSUME NEW cl \in SUBSET Days, NEW w, w = [p \in Walk |-> WalkStep(w, p, cl)],
         NEW day \in Nat, NEW rest \in 0..8
  PROVE  w[<<DayStart(day), rest>>] = DayStart(NextOpen(day, cl)) + rest
<1> DEFINE Differs(d, r) == w[<<DayStart(d), r>>] # DayStart(NextOpen(d, cl)) + r
           T == {n \in Nat : \E d \in Nat, r \in 0..8 : Differs(d, r) /\ NextOpen(d, cl) = d + n}
<1>1. ASSUME NEW d \in Nat, NEW r \in 0..8
      PROVE  /\ d \notin cl => ~Differs(d, r)
             /\ d \in cl /\ ~Differs(d + 1, r) => ~Differs(d, r)
  <2> DEFINE c == DayStart(d)
  <2>1. c = 48 * d + 18 /\ DayEnd(d) = 48 * d + 44 /\ c \in Nat
    BY Clock
  <2>2. DayOf(c) = d
    BY <2>1, DayOfIsUnique
  <2>3. <<c, r>> \in Walk
    BY <2>1, Clock DEF Walk
  <2>4. w[<<c, r>>] = WalkStep(w, <<c, r>>, cl)
    <3> DEFINE H(p) == WalkStep(w, p, cl)
    <3>1. w = [p \in Walk |-> H(p)]
      OBVIOUS
    <3> HIDE DEF H
    <3>2. w[<<c, r>>] = H(<<c, r>>)
      BY <2>3, <3>1
    <3> QED BY <3>2 DEF H
  <2> HIDE DEF c
  <2>5. CASE d \in cl
    <3>1. SkipsDay(c, cl) /\ NextOpen(d, cl) = NextOpen(d + 1, cl)
      BY <2>2, <2>5, NextOpenStep DEF SkipsDay
    <3>2. w[<<c, r>>] = w[<<DayStart(d + 1), r>>]
      BY <2>2, <2>4, <3>1 DEF WalkStep
    <3> QED BY <2>5, <3>1, <3>2 DEF c
  <2>6. CASE d \notin cl
    <3>1. ~(c >= DayEnd(d)) /\ NextOpen(d, cl) = d
      BY <2>1, <2>6, NextOpenStep
    <3>2. ~SkipsDay(c, cl)
      BY <2>2, <2>6, <3>1 DEF SkipsDay
    <3>3. DayStart(d) = c /\ DayEnd(d) - c >= r
      BY <2>1 DEF c
    <3>4. w[<<c, r>>] = c + r
      BY <2>1, <2>2, <2>4, <3>2, <3>3 DEF WalkStep
    <3> QED BY <2>6, <3>1, <3>4 DEF c
  <2> QED BY <2>5, <2>6
<1>2. \A d \in Nat : NextOpen(d, cl) \in Nat /\ NextOpen(d, cl) >= d
  BY NextOpenIs
<1>3. T = {}
  <2> SUFFICES ASSUME T # {} PROVE FALSE
    OBVIOUS
  <2>1. PICK n \in T : \A m \in T : n <= m
    <3>1. T \in SUBSET Nat
      OBVIOUS
    <3> HIDE DEF T
    <3> QED BY <3>1, Least
  <2>2. PICK d \in Nat, r \in 0..8 : Differs(d, r) /\ NextOpen(d, cl) = d + n
    OBVIOUS
  <2>3. d \in cl /\ Differs(d + 1, r)
    BY <1>1, <2>2
  <2>4. NextOpen(d + 1, cl) = NextOpen(d, cl) /\ d + 1 \in Nat
    BY <2>3, NextOpenStep
  <2>5. n \in Nat /\ n # 0
    <3>1. NextOpen(d + 1, cl) >= d + 1
      BY <1>2, <2>4
    <3> QED BY <2>2, <2>4, <3>1
  <2> HIDE DEF Differs
  <2>6. n - 1 \in Nat /\ NextOpen(d + 1, cl) = (d + 1) + (n - 1)
    BY <2>2, <2>4, <2>5
  <2>7. n - 1 \in T
    BY <2>3, <2>4, <2>6
  <2> QED BY <2>1, <2>5, <2>7
<1>4. ~Differs(day, rest)
  <2> DEFINE n == NextOpen(day, cl) - day
  <2>1. n \in Nat /\ NextOpen(day, cl) = day + n
    BY <1>2
  <2> HIDE DEF Differs, n
  <2> QED BY <1>3, <2>1
<1> QED BY <1>4

LEMMA SolutionIsWalkEnd ==
  ASSUME NEW cl \in SUBSET Days, NEW w, w = [p \in Walk |-> WalkStep(w, p, cl)],
         NEW c \in Nat
  PROVE  w[<<c, 8>>] = WalkEnd(c, 8, cl)
<1>1. <<c, 8>> \in Walk
  BY Clock DEF Walk
<1>2. w[<<c, 8>>] = WalkStep(w, <<c, 8>>, cl)
  <2> DEFINE H(p) == WalkStep(w, p, cl)
  <2>1. w = [p \in Walk |-> H(p)]
    OBVIOUS
  <2> HIDE DEF H
  <2>2. w[<<c, 8>>] = H(<<c, 8>>)
    BY <1>1, <2>1
  <2> QED BY <2>2 DEF H
<1>3. /\ DayOf(c) + 1 \in Nat /\ LeftOf(c) \in Int
      /\ ~SkipsDay(c, cl) => LeftOf(c) > 0
  BY LeftTyped
<1>4. CASE SkipsDay(c, cl)
  <2>1. 8 \in 0..8
    OBVIOUS
  <2>2. w[<<DayStart(DayOf(c) + 1), 8>>] = DayStart(NextOpen(DayOf(c) + 1, cl)) + 8
    BY <1>3, <2>1, SolutionAtOpening
  <2> QED BY <1>2, <1>4, <2>2 DEF WalkStep, WalkEnd
<1>5. CASE ~SkipsDay(c, cl) /\ LeftOf(c) >= 8
  BY <1>2, <1>5 DEF WalkStep, WalkEnd, From, LeftOf
<1>6. CASE ~SkipsDay(c, cl) /\ ~(LeftOf(c) >= 8)
  <2>1. 8 - LeftOf(c) \in 0..8
    BY <1>3, <1>6
  <2>2. w[<<DayStart(DayOf(c) + 1), 8 - LeftOf(c)>>]
          = DayStart(NextOpen(DayOf(c) + 1, cl)) + (8 - LeftOf(c))
    BY <1>3, <2>1, SolutionAtOpening
  <2> QED BY <1>2, <1>6, <2>2 DEF WalkStep, WalkEnd, From, LeftOf
<1> QED BY <1>4, <1>5, <1>6

(* So the cutoff of the code is the closed form.                           *)
LEMMA CutoffIsWalkEnd ==
  ASSUME NEW cl \in SUBSET Days, NEW c \in Nat
  PROVE  BusinessLeadCutoff(c, cl) = WalkEnd(c, 8, cl)
<1>1. \E f : f = [p \in Walk |-> WalkStep(f, p, cl)]
  BY WalkEndSolves
<1>2. \E f : /\ f = [p \in Walk |-> WalkStep(f, p, cl)]
             /\ BusinessLeadCutoff(c, cl) = f[<<c, HomeMinLead>>]
  BY <1>1 DEF BusinessLeadCutoff, WalkStep, Walk
<1> QED BY <1>2, SolutionIsWalkEnd, Clock

(* Sets of half hours.                                                     *)
LEMMA SpanCount ==
  ASSUME NEW a \in Int, NEW n \in Nat
  PROVE  IsFiniteSet(a..(a + n - 1)) /\ Cardinality(a..(a + n - 1)) = n
<1>1. a + n - 1 \in Int
  OBVIOUS
<1>2. IF a > a + n - 1 THEN n = 0 ELSE (a + n - 1) - a + 1 = n
  OBVIOUS
<1>3. /\ IsFiniteSet(a..(a + n - 1))
      /\ Cardinality(a..(a + n - 1)) = IF a > a + n - 1 THEN 0 ELSE (a + n - 1) - a + 1
  BY <1>1, FS_Interval
<1> QED BY <1>2, <1>3

LEMMA TwoSpans ==
  ASSUME NEW a \in Int, NEW n \in Nat, NEW b \in Int, NEW k \in Nat, a + n <= b
  PROVE  Cardinality((a..(a + n - 1)) \cup (b..(b + k - 1))) = n + k
<1> DEFINE S == a..(a + n - 1)
           T == b..(b + k - 1)
<1>1. S \cap T = {}
  OBVIOUS
<1>2. IsFiniteSet(S) /\ Cardinality(S) = n /\ IsFiniteSet(T) /\ Cardinality(T) = k
  BY SpanCount
<1> HIDE DEF S, T
<1>3. Cardinality(S \cup T) = Cardinality(S) + Cardinality(T) - Cardinality({})
  BY <1>1, <1>2, FS_Union
<1>4. Cardinality(S \cup T) = n + k
  BY <1>2, <1>3, FS_EmptySet
<1> QED BY <1>4 DEF S, T

(* Four hours of service, no more and no less, lie before the closed form. *)
LEMMA FourHours ==
  ASSUME NEW cl \in SUBSET Days, NEW c \in Nat
  PROVE  /\ WalkEnd(c, 8, cl) \in Nat
         /\ Cardinality(ServiceTime(c, WalkEnd(c, 8, cl), cl)) = 8
         /\ (WalkEnd(c, 8, cl) - 1) \in ServiceTime(c, WalkEnd(c, 8, cl), cl)
<1> DEFINE d == DayOf(c)
           e == NextOpen(DayOf(c) + 1, cl)
           end == WalkEnd(c, 8, cl)
<1>1. d \in Nat /\ 48 * d <= c /\ c < 48 * d + 48 /\ d + 1 \in Nat
  BY DayOfTime
<1>2. DayStart(d) = 48 * d + 18 /\ DayEnd(d) = 48 * d + 44
  BY <1>1, Clock
<1>3. /\ e \in Nat /\ e >= d + 1 /\ e \notin cl
      /\ \A y \in Nat : y >= d + 1 /\ y \notin cl => e <= y
  BY <1>1, NextOpenIs
<1>4. DayStart(e) = 48 * e + 18 /\ DayEnd(e) = 48 * e + 44
  BY <1>3, Clock
<1>5. ASSUME NEW t \in Nat
      PROVE  /\ DayOf(t) \in Nat /\ 48 * DayOf(t) <= t /\ t < 48 * DayOf(t) + 48
             /\ DayStart(DayOf(t)) = 48 * DayOf(t) + 18
             /\ DayEnd(DayOf(t)) = 48 * DayOf(t) + 44
  BY DayOfTime, Clock
<1>6. ASSUME NEW r \in 1..8, c <= 48 * e, NEW t \in Nat, c <= t, t < DayStart(e) + r
      PROVE  /\ DayOf(t) = d \/ (DayOf(t) > d /\ DayOf(t) \in cl) \/ DayOf(t) = e
             /\ DayOf(t) = e => t < DayEnd(e) /\ (t >= DayStart(e) <=> t >= 48 * e + 18)
             /\ t >= DayStart(e) => DayOf(t) = e
  <2>0. DayOf(t) \in Nat /\ 48 * DayOf(t) <= t /\ t < 48 * DayOf(t) + 48
    BY <1>5
  <2> HIDE DEF d, e, end
  <2>1. DayOf(t) >= d
    BY <1>1, <1>6, <2>0
  <2>2. DayOf(t) <= e
    BY <1>3, <1>4, <1>6, <2>0
  <2>3. DayOf(t) # d /\ DayOf(t) \notin cl => e <= DayOf(t)
    <3> DEFINE z == DayOf(t)
    <3>1. z \in Nat /\ d \in Nat /\ z >= d
      BY <1>1, <2>0, <2>1
    <3> HIDE DEF z
    <3>2. z # d => z >= d + 1
      BY <3>1
    <3>3. z # d /\ z \notin cl => e <= z
      BY <1>3, <3>1, <3>2
    <3> QED BY <3>3 DEF z
  <2>4. t >= DayStart(e) => DayOf(t) = e
    <3> SUFFICES ASSUME t >= DayStart(e) PROVE DayOf(t) = e
      OBVIOUS
    <3>1. 48 * e <= t /\ t < 48 * e + 48
      BY <1>3, <1>4, <1>6
    <3> QED BY <1>3, <3>1, DayOfIsUnique
  <2>5. DayOf(t) = e => t < DayEnd(e)
    BY <1>3, <1>4, <1>6
  <2>6. DayOf(t) = d \/ (DayOf(t) > d /\ DayOf(t) \in cl) \/ DayOf(t) = e
    BY <1>1, <1>3, <2>0, <2>1, <2>2, <2>3
  <2> QED BY <1>3, <1>4, <2>4, <2>5, <2>6
<1>7. c <= 48 * e
  BY <1>1, <1>3
<1>8. CASE SkipsDay(c, cl)
  <2>1. end = DayStart(e) + 8 /\ end \in Nat
    BY <1>3, <1>4, <1>8 DEF WalkEnd
  <2>2. ASSUME NEW t \in Nat, c <= t, t < end
        PROVE  (DayOf(t) \notin cl /\ t >= DayStart(DayOf(t)) /\ t < DayEnd(DayOf(t)))
                 <=> t >= DayStart(e)
    <3>1. t < DayStart(e) + 8 /\ 8 \in 1..8
      BY <2>1, <2>2
    <3>2. /\ DayOf(t) = d \/ (DayOf(t) > d /\ DayOf(t) \in cl) \/ DayOf(t) = e
          /\ DayOf(t) = e => t < DayEnd(e)
          /\ t >= DayStart(e) => DayOf(t) = e
      BY <1>6, <1>7, <2>2, <3>1
    <3>3. DayOf(t) = d => d \in cl \/ t >= DayEnd(d)
      BY <1>1, <1>2, <1>8, <2>2 DEF SkipsDay
    <3>4. ~(t >= DayStart(e)) \/ DayOf(t) # d
      BY <1>1, <1>3, <3>2
    <3>5. t >= DayEnd(d) => ~(t < DayEnd(d))
      BY <1>1, <1>2
    <3> QED BY <1>3, <3>2, <3>3, <3>4, <3>5
  <2>3. ServiceTime(c, end, cl) = DayStart(e)..(DayStart(e) + 8 - 1)
    <3>1. DayStart(e) \in Nat /\ c <= DayStart(e)
      BY <1>3, <1>4, <1>7
    <3> HIDE DEF d, e, end
    <3> QED BY <2>1, <2>2, <3>1 DEF ServiceTime
  <2>4. Cardinality(ServiceTime(c, end, cl)) = 8
    <3>1. DayStart(e) \in Int /\ 8 \in Nat
      BY <1>3, <1>4
    <3> QED BY <2>3, <3>1, SpanCount
  <2>5. end - 1 \in ServiceTime(c, end, cl)
    <3>1. end - 1 \in DayStart(e)..(DayStart(e) + 8 - 1)
      BY <1>3, <1>4, <2>1
    <3> QED BY <2>3, <3>1
  <2> QED BY <2>1, <2>4, <2>5
<1>9. CASE ~SkipsDay(c, cl) /\ LeftOf(c) >= 8
  <2> DEFINE s == From(c)
  <2>1. d \notin cl /\ s \in Nat /\ s >= c /\ s >= DayStart(d) /\ s = (IF c < DayStart(d) THEN DayStart(d) ELSE c)
    BY <1>9, LeftTyped DEF From
  <2>2. end = s + 8 /\ end <= DayEnd(d)
    BY <1>1, <1>2, <1>9, <2>1 DEF WalkEnd, LeftOf
  <2> HIDE DEF s
  <2>3. ASSUME NEW t \in Nat, c <= t, t < end
        PROVE  (DayOf(t) \notin cl /\ t >= DayStart(DayOf(t)) /\ t < DayEnd(DayOf(t))) <=> t >= s
    <3>1. 48 * d <= t /\ t < 48 * d + 48
      BY <1>1, <1>2, <2>1, <2>2, <2>3
    <3>2. DayOf(t) = d
      BY <1>1, <3>1, DayOfIsUnique
    <3>3. t < DayEnd(d) /\ (t >= DayStart(d) <=> t >= s)
      BY <1>1, <1>2, <2>1, <2>2, <2>3
    <3> QED BY <2>1, <3>2, <3>3
  <2>4. ServiceTime(c, end, cl) = s..(s + 8 - 1)
    <3> HIDE DEF d, e, end
    <3> QED BY <2>1, <2>2, <2>3 DEF ServiceTime
  <2>5. Cardinality(ServiceTime(c, end, cl)) = 8
    <3>1. s \in Int /\ 8 \in Nat
      BY <2>1
    <3> QED BY <2>4, <3>1, SpanCount
  <2>6. end - 1 \in ServiceTime(c, end, cl)
    <3>1. end - 1 \in s..(s + 8 - 1)
      BY <2>1, <2>2
    <3> QED BY <2>4, <3>1
  <2> QED BY <2>1, <2>2, <2>5, <2>6
<1>10. CASE ~SkipsDay(c, cl) /\ ~(LeftOf(c) >= 8)
  <2> DEFINE s == From(c)
             k == LeftOf(c)
             r == 8 - LeftOf(c)
  <2>1. /\ d \notin cl /\ s \in Nat /\ s >= c /\ s >= DayStart(d)
        /\ s = (IF c < DayStart(d) THEN DayStart(d) ELSE c)
        /\ k \in Nat /\ s + k = DayEnd(d) /\ r \in 1..8 /\ k + r = 8 /\ k > 0
    <3>1. LeftOf(c) \in Int /\ LeftOf(c) > 0 /\ d \notin cl /\ s \in Nat /\ s >= c /\ s >= DayStart(d)
      BY <1>10, LeftTyped
    <3>2. s = IF c < DayStart(d) THEN DayStart(d) ELSE c
      BY DEF From
    <3>3. LeftOf(c) = DayEnd(d) - s
      BY DEF LeftOf
    <3> QED BY <1>1, <1>2, <1>10, <3>1, <3>2, <3>3
  <2>2. end = DayStart(e) + r /\ end \in Nat
    BY <1>3, <1>4, <1>10, <2>1 DEF WalkEnd
  <2> HIDE DEF s, k, r
  <2>3. ASSUME NEW t \in Nat, c <= t, t < end
        PROVE  (DayOf(t) \notin cl /\ t >= DayStart(DayOf(t)) /\ t < DayEnd(DayOf(t)))
                 <=> (s <= t /\ t < s + k) \/ t >= DayStart(e)
    <3>1. /\ DayOf(t) = d \/ (DayOf(t) > d /\ DayOf(t) \in cl) \/ DayOf(t) = e
          /\ DayOf(t) = e => t < DayEnd(e)
          /\ t >= DayStart(e) => DayOf(t) = e
      BY <1>6, <1>7, <2>1, <2>2, <2>3
    <3>2. DayOf(t) = d => ~(t >= DayStart(e))
      BY <1>1, <1>3, <3>1
    <3>3. DayOf(t) # d => ~(t < s + k)
      <4> SUFFICES ASSUME t < s + k PROVE DayOf(t) = d
        OBVIOUS
      <4>1. 48 * d <= t /\ t < 48 * d + 48
        BY <1>1, <1>2, <2>1, <2>3
      <4> QED BY <1>1, <4>1, DayOfIsUnique
    <3>4. DayOf(t) = d => (t >= DayStart(d) <=> s <= t)
      BY <1>1, <1>2, <2>1, <2>3
    <3> QED BY <1>3, <2>1, <3>1, <3>2, <3>3, <3>4
  <2>4. ServiceTime(c, end, cl) = (s..(s + k - 1)) \cup (DayStart(e)..(DayStart(e) + r - 1))
    <3>1. /\ DayStart(e) \in Nat /\ c <= DayStart(e) /\ s + k <= DayStart(e)
          /\ c \in Nat /\ r \in Nat /\ k \in Nat /\ s \in Nat /\ c <= s
      BY <1>1, <1>2, <1>3, <1>4, <1>7, <2>1
    <3> HIDE DEF d, e, end
    <3>2. ASSUME NEW t \in ServiceTime(c, end, cl)
          PROVE  t \in (s..(s + k - 1)) \cup (DayStart(e)..(DayStart(e) + r - 1))
      BY <2>2, <2>3, <3>1, <3>2 DEF ServiceTime
    <3>3. ASSUME NEW t \in (s..(s + k - 1)) \cup (DayStart(e)..(DayStart(e) + r - 1))
          PROVE  t \in ServiceTime(c, end, cl)
      <4>1. t \in Nat /\ c <= t /\ t < end /\ t \in c..(end - 1)
        BY <2>2, <3>1, <3>3
      <4>2. (s <= t /\ t < s + k) \/ t >= DayStart(e)
        BY <3>1, <3>3
      <4> QED BY <2>3, <4>1, <4>2 DEF ServiceTime
    <3> QED BY <3>2, <3>3
  <2>5. s \in Int /\ DayStart(e) \in Int /\ s + k <= DayStart(e) /\ r \in Nat
    BY <1>1, <1>2, <1>3, <1>4, <2>1
  <2>6. Cardinality(ServiceTime(c, end, cl)) = k + r
    BY <2>1, <2>4, <2>5, TwoSpans
  <2>7. end - 1 \in ServiceTime(c, end, cl)
    <3>1. end - 1 \in DayStart(e)..(DayStart(e) + r - 1)
      BY <2>1, <2>2, <2>5
    <3> QED BY <2>4, <3>1
  <2> QED BY <2>1, <2>2, <2>6, <2>7
<1> QED BY <1>8, <1>9, <1>10

-----------------------------------------------------------------------------
(* What is listed and what is booked.                                      *)

(* What is read of the catalogue is of its days and slots.                 *)
LEMMA ReadingTyped ==
  TypeOK => /\ \A cl \in ListClosedDates : cl \in SUBSET Days
            /\ \A slots \in ListTimeSlots : slots \in SUBSET Slots
BY DaysAssumption DEF TypeOK, ListClosedDates, ListTimeSlots

(* The notice of home visits is four hours of service, and no more,        *)
(* whichever list of closed days was read.                                 *)
LEMMA HomeLead == TypeOK => HomeLeadIsFourOpenHours
<1> SUFFICES ASSUME TypeOK, NEW cl \in ListClosedDates
             PROVE  /\ Cardinality(ServiceTime(now, BusinessLeadCutoff(now, cl), cl)) = HomeMinLead
                    /\ (BusinessLeadCutoff(now, cl) - 1)
                         \in ServiceTime(now, BusinessLeadCutoff(now, cl), cl)
  BY DEF HomeLeadIsFourOpenHours
<1>1. cl \in SUBSET Days /\ now \in Nat
  BY ReadingTyped, DaysAssumption DEF TypeOK
<1> QED BY <1>1, FourHours, CutoffIsWalkEnd, Clock

(* Between any moment and the cutoff of the business-hours walk lie        *)
(* exactly the four hours of service of a home visit, whatever closed days *)
(* were read (api_validation.py:158-213).                                  *)
THEOREM HomeNoticeIsFourOpenHours == Spec => []HomeLeadIsFourOpenHours
BY TypeCorrect, HomeLead, PTL

LEMMA StartIsTime ==
  ASSUME NEW d \in Days, NEW s \in Slots, StartHour[s] # NoHour
  PROVE  Start(d, s) \in Nat
BY SlotsAssumption, DaysAssumption DEF Start, Day, Hour

LEMMA CutoffIsTime ==
  ASSUME TypeOK, NEW l \in Locations, NEW cl \in ListClosedDates
  PROVE  MinimumSlotStart(l, cl) \in Nat
<1>1. cl \in SUBSET Days /\ now \in Nat
  BY ReadingTyped, DaysAssumption DEF TypeOK
<1>2. BusinessLeadCutoff(now, cl) \in Nat
  BY <1>1, CutoffIsWalkEnd, FourHours
<1> QED BY <1>1, <1>2 DEF MinimumSlotStart, MinLead, Hour

(* The list of api.py:812-865 and the check of api_validation.py:241-322   *)
(* agree in every state: what is listed for an open day, at the center or  *)
(* at home, is accepted by a check that reads the same.                    *)
LEMMA ListStep == TypeOK => ListedSlotsAreAccepted
<1> SUFFICES ASSUME TypeOK, NEW days \in ListClosedDates, NEW cl \in ListClosedDates,
                    NEW slots \in ListTimeSlots, NEW d \in Days \ days, NEW l \in Locations,
                    NEW s \in SlotsWithLeadFilter(d, l, slots, cl)
             PROVE  ValidateSlotAndDate(d, s, l, days, slots, cl) = Nothing
  BY DEF ListedSlotsAreAccepted
<1>1. s \in slots /\ StartHour[s] # NoHour /\ Start(d, s) >= MinimumSlotStart(l, cl)
  BY DEF SlotsWithLeadFilter
<1>2. s \in Slots
  BY <1>1, ReadingTyped
<1>3. ~(Start(d, s) < MinimumSlotStart(l, cl))
  BY <1>1, <1>2, StartIsTime, CutoffIsTime
<1> QED BY <1>1, <1>3 DEF ValidateSlotAndDate

(* What the slot list shows for an open day, the check of a submission     *)
(* accepts, from the same reading of the catalogue (api.py:812-865,        *)
(* api_validation.py:241-322).                                             *)
THEOREM ListAgreesWithCheck == Spec => []ListedSlotsAreAccepted
BY TypeCorrect, ListStep, PTL

(* More time holds no less service.                                        *)
LEMMA MoreTime ==
  ASSUME NEW a \in Int, NEW b \in Int, NEW c \in Int, b <= c, NEW cl
  PROVE  /\ Cardinality(ServiceTime(a, b, cl)) \in Nat /\ Cardinality(ServiceTime(a, c, cl)) \in Nat
         /\ Cardinality(ServiceTime(a, b, cl)) <= Cardinality(ServiceTime(a, c, cl))
<1>1. ServiceTime(a, b, cl) \in SUBSET ServiceTime(a, c, cl) /\ ServiceTime(a, c, cl) \in SUBSET (a..(c - 1))
  BY DEF ServiceTime
<1>2. IsFiniteSet(a..(c - 1))
  <2>1. c - 1 \in Int
    OBVIOUS
  <2> QED BY <2>1, FS_Interval
<1>3. IsFiniteSet(ServiceTime(a, c, cl))
  BY <1>1, <1>2, FS_Subset
<1>4. IsFiniteSet(ServiceTime(a, b, cl)) /\ Cardinality(ServiceTime(a, b, cl)) <= Cardinality(ServiceTime(a, c, cl))
  BY <1>1, <1>3, FS_Subset
<1> QED BY <1>3, <1>4, FS_CardinalityType

(* What passes the check is in time.                                       *)
LEMMA AcceptedIsInTime ==
  ASSUME TypeOK, NEW days \in ListClosedDates, NEW cl \in ListClosedDates,
         NEW slots \in ListTimeSlots, NEW b \in Draft,
         ValidateSlotAndDate(b.date, b.slot, b.location, days, slots, cl) = Nothing
  PROVE  InTime(b, days, slots, cl)
<1>1. b.date \in Days /\ b.location \in Locations
  BY DEF Draft
<1>2. /\ b.date \notin days /\ b.slot \in slots /\ StartHour[b.slot] # NoHour
      /\ ~(Start(b.date, b.slot) < MinimumSlotStart(b.location, cl))
  BY NothingIsNoError DEF ValidateSlotAndDate, Errors
<1>3. Start(b.date, b.slot) \in Nat
  <2>1. b.slot \in Slots
    BY <1>2, ReadingTyped
  <2> QED BY <1>1, <1>2, <2>1, StartIsTime
<1>4. MinimumSlotStart(b.location, cl) \in Nat
  BY <1>1, CutoffIsTime
<1>5. Start(b.date, b.slot) >= MinimumSlotStart(b.location, cl)
  BY <1>2, <1>3, <1>4
<1>6. CASE b.location = "home"
  <2>1. now \in Int
    BY DaysAssumption DEF TypeOK
  <2>2. MinimumSlotStart(b.location, cl) = BusinessLeadCutoff(now, cl)
    BY <1>6 DEF MinimumSlotStart
  <2>3. Cardinality(ServiceTime(now, BusinessLeadCutoff(now, cl), cl)) = HomeMinLead
    BY HomeLead DEF HomeLeadIsFourOpenHours
  <2>4. /\ Cardinality(ServiceTime(now, BusinessLeadCutoff(now, cl), cl))
             <= Cardinality(ServiceTime(now, Start(b.date, b.slot), cl))
        /\ Cardinality(ServiceTime(now, BusinessLeadCutoff(now, cl), cl)) \in Nat
        /\ Cardinality(ServiceTime(now, Start(b.date, b.slot), cl)) \in Nat
    BY <1>3, <1>4, <1>5, <2>1, <2>2, MoreTime
  <2>5. Cardinality(ServiceTime(now, Start(b.date, b.slot), cl)) >= HomeMinLead
    BY <2>3, <2>4
  <2> QED BY <1>2, <1>6, <2>5 DEF InTime
<1>7. CASE b.location # "home"
  <2>1. MinimumSlotStart(b.location, cl) = now + MinLead
    BY <1>7 DEF MinimumSlotStart
  <2> QED BY <1>2, <1>5, <1>7, <2>1 DEF InTime
<1> QED BY <1>6, <1>7

(* A booking of the PWA is taken only for a day and a slot that the        *)
(* readings of its submission found open, two hours ahead at the center    *)
(* and four hours of service ahead at home, whatever staff edited since    *)
(* the device chose it and whichever reading failed.                       *)
LEMMA InTimeStep ==
  ASSUME TypeOK, NEW days \in ListClosedDates, NEW cl \in ListClosedDates,
         NEW slots \in ListTimeSlots, Submit(days, slots, cl), booked' # Nothing
  PROVE  InTime(booked', days, slots, cl)
<1>1. /\ booked' = draft /\ draft # Nothing
      /\ ValidateSlotAndDate(draft.date, draft.slot, draft.location, days, slots, cl) = Nothing
  BY DEF Submit
<1>2. draft \in Draft
  BY <1>1 DEF TypeOK
<1> QED BY <1>1, <1>2, AcceptedIsInTime

(* A booking of the PWA is taken only for a day, a slot and a notice that  *)
(* its own three readings of the catalogue allow, each of which may have   *)
(* failed (api_validation.py:241-322).                                     *)
THEOREM AppBookingsInTime == Spec => AppBookingsAreInTime
<1>1. TypeOK /\ [Next]_vars =>
        [\A days, cl \in ListClosedDates, slots \in ListTimeSlots :
           Submit(days, slots, cl) /\ booked' # Nothing => InTime(booked', days, slots, cl)]_vars
  BY InTimeStep
<1> QED BY <1>1, TypeCorrect, PTL DEF Spec, AppBookingsAreInTime
=============================================================================
