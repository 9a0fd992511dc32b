-------------------------- MODULE BookingRefs_proofs --------------------------
(* References of bookings: whose they are, for any number of processes and *)
(* requests while no reservation fails and the year does not turn, and for *)
(* one process whatever fails and whenever it turns.                       *)
EXTENDS BookingRefs, TLAPS

-----------------------------------------------------------------------------
(* Operators.                                                              *)

LEMMA LargerIsLarger ==
  \A a, b \in Int : /\ Larger(a, b) \in Int /\ Larger(a, b) >= a /\ Larger(a, b) >= b
                    /\ Larger(a, b) \in {a, b}
BY DEF Larger

LEMMA NumbersAreThose ==
  ASSUME NEW y
  PROVE  /\ \A n \in NumbersOf(y) : \E r \in rows : r.year = y /\ r.n = n
         /\ \A r \in rows : r.year = y => r.n \in NumbersOf(y)
BY DEF NumbersOf

LEMMA RowTyped ==
  ASSUME TypeOK, NEW r \in rows
  PROVE  r.year \in Year /\ r.n \in Nat \ {0} /\ r.owner \in Request \cup {Legacy}
BY DEF TypeOK

LEMMA NumbersTyped == TypeOK => \A y : NumbersOf(y) \subseteq Nat \ {0}
BY RowTyped, NumbersAreThose

(* The number a reservation gives is above the counter and the floor.      *)
LEMMA NextIsAbove ==
  ASSUME TypeOK, NEW q \in Request
  PROVE  /\ NextCounter(q) \in Nat \ {0}
         /\ NextCounter(q) > counter[counted[q]] /\ NextCounter(q) > floor[q]
         /\ NextCounter(q) \in {counter[counted[q]] + 1, floor[q] + 1}
<1>1. counter[counted[q]] \in Nat \cup {-1} /\ floor[q] \in Nat
  BY DEF TypeOK, NoRow
<1> QED BY <1>1 DEF NextCounter, Larger

-----------------------------------------------------------------------------
(* Types, and that an active request has a process and then a number.      *)
Sound == TypeOK /\ RequestsAreServed

LEMMA SoundInit == Init => Sound
BY RefConstants DEF Init, Sound, TypeOK, RequestsAreServed, Boots, Pcs, ActivePcs, Year, NoRow, NoNumber

LEMMA SoundStep == Sound /\ [Next]_vars => Sound'
<1> SUFFICES ASSUME Sound, [Next]_vars PROVE Sound'
  OBVIOUS
<1>0. TypeOK /\ RequestsAreServed
  BY DEF Sound
<1> USE DEF Boots, Pcs, ActivePcs
<1>1. ASSUME NEW p \in Process, BackfillRead(p) PROVE Sound'
  <2>1. PICK highest \in [Year -> {0} \cup {r.n : r \in rows}] : seed' = [seed EXCEPT ![p] = highest]
    BY <1>1 DEF BackfillRead
  <2>2. highest \in [Year -> Nat]
    BY <1>0, RowTyped
  <2> QED BY <1>0, <1>1, <2>1, <2>2
          DEF Sound, TypeOK, RequestsAreServed, BackfillRead, dbVars, requestVars
<1>2. ASSUME NEW p \in Process, BackfillCompare(p) PROVE Sound'
  <2>1. raise' \in [Process -> SUBSET (Year \X {"insert", "update"})]
    BY <1>0, <1>2 DEF BackfillCompare, TypeOK
  <2> QED BY <1>0, <1>2, <2>1
          DEF Sound, TypeOK, RequestsAreServed, BackfillCompare, dbVars, requestVars
<1>3. ASSUME NEW p \in Process, BackfillCommit(p) PROVE Sound'
  <2>1. counter' \in [Year -> Nat \cup {NoRow}]
    BY <1>0, <1>3 DEF BackfillCommit, TypeOK
  <2>2. boot' \in [Process -> Boots]
    BY <1>0, <1>3 DEF BackfillCommit, TypeOK
  <2> QED BY <1>0, <1>3, <2>1, <2>2
          DEF Sound, TypeOK, RequestsAreServed, BackfillCommit, requestVars
<1>4. ASSUME NEW p \in Process, Crash(p) PROVE Sound'
  BY <1>0, <1>4 DEF Sound, TypeOK, RequestsAreServed, Crash, dbVars
<1>5. ASSUME NEW q \in Request, NEW p \in Process, ReadFloor(q, p) PROVE Sound'
  <2>1. PICK m \in NumbersOf(year) \cup {0} : floor' = [floor EXCEPT ![q] = m]
    BY <1>5 DEF ReadFloor
  <2>2. m \in Nat
    BY <1>0, NumbersTyped
  <2> QED BY <1>0, <1>5, <2>1, <2>2
          DEF Sound, TypeOK, RequestsAreServed, ReadFloor, dbVars, processVars
<1>6. ASSUME NEW q \in Request, Reserve(q) PROVE Sound'
  <2>1. NextCounter(q) \in Nat
    BY <1>0, NextIsAbove
  <2>2. counter' \in [Year -> Nat \cup {NoRow}] /\ number' \in [Request -> Nat]
    BY <1>0, <1>6, <2>1 DEF Reserve, TypeOK
  <2> QED BY <1>0, <1>6, <2>2
          DEF Sound, TypeOK, RequestsAreServed, Reserve, processVars
<1>7. ASSUME NEW q \in Request, ReserveFails(q) PROVE Sound'
  <2>1. number' \in [Request -> Nat] /\ dbFailures' \in 0..MaxDbFailures /\ pc' \in [Request -> Pcs]
    BY <1>0, <1>7, RefConstants DEF ReserveFails, TypeOK, NoNumber
  <2>2. RequestsAreServed'
    BY <1>0, <1>7 DEF RequestsAreServed, ReserveFails, TypeOK, NoNumber
  <2> QED BY <1>0, <1>7, <2>1, <2>2 DEF Sound, TypeOK, ReserveFails, dbVars, processVars
<1>8. ASSUME NEW q \in Request, AssignRef(q) PROVE Sound'
  <2>1. server[q] \in Process /\ pc[q] = "reserved"
    BY <1>0, <1>8 DEF RequestsAreServed, AssignRef
  <2>2. NumberFor(q) \in Nat \ {0} /\ memory[server[q]] \in Nat
    BY <1>0, <2>1 DEF NumberFor, TypeOK, NoNumber
  <2> DEFINE n == NumberFor(q)
  <2>3. memory' = [memory EXCEPT ![server[q]] = Larger(memory[server[q]], n)]
    BY <1>8 DEF AssignRef
  <2> HIDE DEF n
  <2>4. Larger(memory[server[q]], n) \in Nat
    BY <2>2 DEF Larger, n
  <2>5. memory' \in [Process -> Nat]
    BY <1>0, <2>1, <2>3, <2>4 DEF TypeOK
  <2>6. number' = [number EXCEPT ![q] = n] /\ n \in Nat \ {0}
    BY <1>8, <2>2 DEF AssignRef, n
  <2>7. number' \in [Request -> Nat]
    BY <1>0, <2>6 DEF TypeOK
  <2>8. RequestsAreServed'
    BY <1>0, <1>8, <2>1, <2>6 DEF RequestsAreServed, AssignRef, TypeOK, NoNumber
  <2> QED BY <1>0, <1>8, <2>5, <2>7, <2>8 DEF Sound, TypeOK, AssignRef, dbVars
<1>9. ASSUME NEW q \in Request, Lookup(q) PROVE Sound'
  <2>1. counter' \in [Year -> Nat \cup {NoRow}]
    BY <1>0, <1>9 DEF Lookup, CommitCounter, TypeOK
  <2>2. pc' \in [Request -> Pcs] /\ RequestsAreServed'
    BY <1>0, <1>9 DEF Lookup, TypeOK, RequestsAreServed
  <2> QED BY <1>0, <1>9, <2>1, <2>2 DEF Sound, TypeOK, Lookup, processVars
<1>10. ASSUME NEW q \in Request, Insert(q) PROVE Sound'
  <2>1. counter' \in [Year -> Nat \cup {NoRow}]
    BY <1>0, <1>10 DEF Insert, CommitCounter, TypeOK, dbVars
  <2>2. number[q] \in Nat \ {0} /\ refYear[q] \in Year
    BY <1>0, <1>10 DEF Insert, TypeOK, RequestsAreServed, NoNumber
  <2>3. rows' \subseteq [year : Year, n : Nat \ {0}, owner : Request \cup {Legacy}]
    BY <1>0, <1>10, <2>2 DEF Insert, TypeOK, dbVars
  <2>4. pc' \in [Request -> Pcs] /\ RequestsAreServed'
    BY <1>0, <1>10 DEF Insert, TypeOK, RequestsAreServed
  <2> QED BY <1>0, <1>10, <2>1, <2>3, <2>4 DEF Sound, TypeOK, Insert, processVars
<1>11. CASE NewYear
  <2>1. year' \in Year
    BY <1>0, <1>11, RefConstants DEF NewYear, TypeOK, Year
  <2> QED BY <1>0, <1>11, <2>1
          DEF Sound, TypeOK, RequestsAreServed, NewYear, dbVars, processVars, requestVars
<1>12. CASE UNCHANGED vars
  BY <1>0, <1>12 DEF Sound, TypeOK, RequestsAreServed, vars, processVars, requestVars
<1> QED
  BY <1>1, <1>2, <1>3, <1>4, <1>5, <1>6, <1>7, <1>8, <1>9, <1>10, <1>11, <1>12 DEF Next, Serve, Run

(* Every state is type correct, in every deployment.                       *)
THEOREM TypeCorrect == Spec => []TypeOK
<1>1. Sound => TypeOK
  BY DEF Sound
<1> QED BY SoundInit, SoundStep, <1>1, PTL DEF Spec

-----------------------------------------------------------------------------
(* One process at a time: the deployment between two releases.             *)
OneProcess == \A p, q \in Process : p = q

LEMMA SerialInit == Init => OneByOne
<1> SUFFICES ASSUME Init PROVE OneByOne
  OBVIOUS
<1>1. /\ \A q \in Request : pc[q] = "new"
      /\ \A r \in rows : r.year = 1
      /\ year = 1
  BY RefConstants DEF Init
<1> QED BY <1>1, RefConstants DEF OneByOne, ActivePcs, ApiRefIsOwn, Owned

(* What only the rows, the clock and the requests decide.                  *)
LEMMA SerialStays ==
  ASSUME OneByOne, UNCHANGED <<rows, floor, counted, number, refYear>>,
         TypeOK, year' \in Year, year <= year',
         \A q \in Request : pc'[q] \in {pc[q], "failed"}
  PROVE  OneByOne'
<1>1. year \in Int /\ year' \in Int /\ \A r \in rows : r.year \in Int
  BY RefConstants, RowTyped DEF TypeOK, Year
<1>2. \A q \in Request : counted[q] \in Int /\ refYear[q] \in Int
  BY RefConstants DEF TypeOK, Year
<1>3. \A r \in rows' : r.year <= year'
  BY <1>1 DEF OneByOne
<1>4. \A q \in Request : pc'[q] \in ActivePcs => pc[q] = pc'[q]
  BY DEF ActivePcs
<1>5. /\ \A q, r \in Request : pc'[q] \in ActivePcs /\ pc'[r] \in ActivePcs => q = r
      /\ \A q \in Request : pc'[q] \in ActivePcs =>
           counted[q] <= year' /\ \A r \in rows : r.year <= counted[q]
  BY <1>1, <1>2, <1>4 DEF OneByOne
<1>6. /\ \A q \in Request : pc'[q] = "floored" => \A n \in NumbersOf(counted[q]) : n <= floor[q]
      /\ \A q \in Request : pc'[q] \in {"assigned", "inserting"} => refYear[q] <= year'
  BY <1>1, <1>2, <1>4 DEF OneByOne, ActivePcs
<1>7. \A q \in ApiRequest :
        /\ pc'[q] = "reserved" => number[q] > 0 /\ \A n \in NumbersOf(counted[q]) : n < number[q]
        /\ pc'[q] \in {"assigned", "inserting"} => ~Taken(q)
        /\ pc'[q] # "ignored"
  <2> TAKE q \in ApiRequest
  <2>1. q \in Request
    BY RefConstants
  <2> QED BY <2>1 DEF OneByOne
<1>8. ApiRefIsOwn'
  <2> SUFFICES ASSUME NEW q \in ApiRequest PROVE Owned(q)'
    BY DEF ApiRefIsOwn
  <2>1. q \in Request
    BY RefConstants
  <2> QED BY <2>1 DEF OneByOne, ApiRefIsOwn, Owned
<1> QED BY <1>3, <1>5, <1>6, <1>7, <1>8 DEF OneByOne, NumbersOf, Taken

(* The request that moves is the only active one: a step of it is judged   *)
(* by what it leaves of the request itself.                                *)
LEMMA SerialMoves ==
  ASSUME OneByOne, UNCHANGED year, NEW q \in Request, pc[q] \in ActivePcs \/ pc'[q] \in ActivePcs,
         \A r \in Request \ {q} : pc[r] \notin ActivePcs,
         \A r \in Request \ {q} : pc'[r] = pc[r] /\ counted'[r] = counted[r] /\ floor'[r] = floor[r]
                                  /\ number'[r] = number[r] /\ refYear'[r] = refYear[r],
         rows \subseteq rows', \A r \in rows' : r.year <= year,
         pc'[q] \in ActivePcs => counted'[q] <= year /\ \A r \in rows' : r.year <= counted'[q],
         pc'[q] = "floored" => \A n \in NumbersOf(counted[q])' : n <= floor'[q],
         pc'[q] \in {"assigned", "inserting"} => refYear'[q] <= year,
         q \in ApiRequest =>
           /\ pc'[q] = "reserved" => number'[q] > 0 /\ \A n \in NumbersOf(counted[q])' : n < number'[q]
           /\ pc'[q] \in {"assigned", "inserting"} => ~Taken(q)'
           /\ pc'[q] # "ignored"
           /\ pc'[q] = "stored" => [year |-> refYear'[q], n |-> number'[q], owner |-> q] \in rows'
  PROVE  OneByOne'
<1>1. \A r \in Request : pc'[r] \in ActivePcs => r = q
  OBVIOUS
<1>2. /\ \A r \in Request : pc'[r] = "floored" => r = q
      /\ \A r \in Request : pc'[r] \in {"reserved", "assigned", "inserting"} => r = q
  BY <1>1 DEF ActivePcs
<1>3. ASSUME NEW r \in ApiRequest
      PROVE  /\ pc'[r] = "reserved" => number'[r] > 0 /\ \A n \in NumbersOf(counted[r])' : n < number'[r]
             /\ pc'[r] \in {"assigned", "inserting"} => ~Taken(r)'
             /\ pc'[r] # "ignored"
             /\ pc'[r] = "stored" => [year |-> refYear'[r], n |-> number'[r], owner |-> r] \in rows'
  <2>1. CASE r = q
    BY <2>1
  <2>2. CASE r # q
    <3>1. r \in Request \ {q}
      BY <2>2, RefConstants
    <3> QED BY <1>2, <2>2, <3>1 DEF OneByOne, ApiRefIsOwn, Owned
  <2> QED BY <2>1, <2>2
<1>4. ApiRefIsOwn'
  BY <1>3 DEF ApiRefIsOwn, Owned
<1> QED BY <1>1, <1>2, <1>3, <1>4 DEF OneByOne

LEMMA SerialStep == OneProcess /\ SerialInv /\ [Next]_vars => OneByOne'
<1> SUFFICES ASSUME OneProcess, SerialInv, [Next]_vars PROVE OneByOne'
  OBVIOUS
<1>0. TypeOK /\ TypeOK' /\ RequestsAreServed /\ OneByOne
  BY SoundStep DEF SerialInv, Sound
<1>1. \A q, r \in Request : pc[q] \in ActivePcs /\ r # q => pc[r] \notin ActivePcs
  BY <1>0 DEF OneByOne
<1>2. /\ year \in Int /\ \A r \in rows : r.year \in Int /\ r.n \in Int
      /\ \A q \in Request : counted[q] \in Int /\ refYear[q] \in Int /\ number[q] \in Int /\ floor[q] \in Int
  BY <1>0, RefConstants, RowTyped DEF TypeOK, Year
<1>3. year <= year /\ year \in Year
  BY <1>0, <1>2 DEF TypeOK
<1>4. ASSUME NEW p \in Process, BackfillRead(p) \/ BackfillCompare(p) \/ BackfillCommit(p)
      PROVE  OneByOne'
  BY <1>0, <1>3, <1>4, SerialStays
     DEF BackfillRead, BackfillCompare, BackfillCommit, dbVars, requestVars
<1>5. ASSUME NEW p \in Process, Crash(p) PROVE OneByOne'
  <2>1. /\ UNCHANGED <<rows, year, floor, counted, number, refYear>>
        /\ \A q \in Request : pc'[q] \in {pc[q], "failed"}
    BY <1>0, <1>5 DEF Crash, dbVars, TypeOK
  <2> QED BY <1>0, <1>3, <2>1, SerialStays
<1>6. CASE NewYear
  <2>1. year' \in Year /\ year <= year' /\ UNCHANGED <<rows, pc, floor, counted, number, refYear>>
    BY <1>0, <1>2, <1>6 DEF TypeOK, NewYear, dbVars, requestVars
  <2> QED BY <1>0, <2>1, SerialStays
<1>7. CASE UNCHANGED vars
  BY <1>0, <1>3, <1>7, SerialStays DEF vars, dbVars, requestVars
<1>8. ASSUME NEW q \in Request, NEW p \in Process, ReadFloor(q, p) PROVE OneByOne'
  <2>1. \A r \in Request : pc[r] \notin ActivePcs
    BY <1>0, <1>8 DEF OneProcess, ReadFloor, Serving, RequestsAreServed
  <2>2. PICK m \in NumbersOf(year) \cup {0} : IsHighest(m, year) /\ floor' = [floor EXCEPT ![q] = m]
    BY <1>8 DEF ReadFloor
  <2>3. /\ UNCHANGED <<rows, year>> /\ pc'[q] = "floored" /\ counted'[q] = year /\ floor'[q] = m
        /\ \A r \in Request \ {q} : pc'[r] = pc[r] /\ counted'[r] = counted[r] /\ floor'[r] = floor[r]
                                    /\ number'[r] = number[r] /\ refYear'[r] = refYear[r]
    BY <1>0, <1>8, <2>2 DEF ReadFloor, TypeOK, dbVars
  <2>4. NumbersOf(counted[q])' = NumbersOf(year) /\ \A n \in NumbersOf(year) : n <= m
    BY <2>2, <2>3 DEF NumbersOf, IsHighest
  <2>5. \A r \in rows : r.year <= year
    BY <1>0 DEF OneByOne
  <2> QED BY <1>0, <1>3, <2>1, <2>3, <2>4, <2>5, SerialMoves DEF ActivePcs
<1>9. ASSUME NEW q \in Request, Reserve(q) PROVE OneByOne'
  <2>1. /\ pc[q] = "floored" /\ pc'[q] = "reserved" /\ number'[q] = NextCounter(q)
        /\ UNCHANGED <<rows, year, counted, floor, refYear>>
        /\ \A r \in Request \ {q} : pc'[r] = pc[r] /\ number'[r] = number[r]
    BY <1>0, <1>9 DEF Reserve, TypeOK
  <2>2. NextCounter(q) > floor[q] /\ NextCounter(q) \in Nat \ {0}
    BY <1>0, NextIsAbove
  <2>3. NumbersOf(counted[q])' = NumbersOf(counted[q])
    BY <2>1 DEF NumbersOf
  <2>4. \A n \in NumbersOf(counted[q]) : n \in Int /\ n <= floor[q]
    BY <1>0, <2>1, NumbersTyped DEF OneByOne
  <2>5. number'[q] > 0 /\ \A n \in NumbersOf(counted[q])' : n < number'[q]
    BY <1>2, <2>1, <2>2, <2>3, <2>4
  <2>6. /\ \A r \in rows : r.year <= year
        /\ counted[q] <= year /\ \A r \in rows : r.year <= counted[q]
    BY <1>0, <2>1 DEF OneByOne, ActivePcs
  <2> QED BY <1>0, <1>1, <2>1, <2>5, <2>6, SerialMoves DEF ActivePcs
<1>10. ASSUME NEW q \in Request, ReserveFails(q) PROVE OneByOne'
  <2>1. /\ pc[q] = "floored" /\ (q \in ApiRequest => pc'[q] = "failed")
        /\ pc'[q] \in {"reserved", "failed"}
        /\ UNCHANGED <<rows, year, counted, floor, refYear>>
        /\ \A r \in Request \ {q} : pc'[r] = pc[r] /\ number'[r] = number[r]
    BY <1>0, <1>10 DEF ReserveFails, TypeOK, dbVars
  <2>2. /\ \A r \in rows : r.year <= year
        /\ counted[q] <= year /\ \A r \in rows : r.year <= counted[q]
    BY <1>0, <2>1 DEF OneByOne, ActivePcs
  <2> QED BY <1>0, <1>1, <2>1, <2>2, SerialMoves DEF ActivePcs
<1>11. ASSUME NEW q \in Request, AssignRef(q) PROVE OneByOne'
  <2>1. /\ pc[q] = "reserved" /\ pc'[q] = "assigned" /\ number'[q] = NumberFor(q) /\ refYear'[q] = year
        /\ UNCHANGED <<rows, year, counted, floor>>
        /\ \A r \in Request \ {q} : pc'[r] = pc[r] /\ number'[r] = number[r] /\ refYear'[r] = refYear[r]
    BY <1>0, <1>11 DEF AssignRef, TypeOK, dbVars
  <2>2. /\ \A r \in rows : r.year <= year
        /\ counted[q] <= year /\ \A r \in rows : r.year <= counted[q]
    BY <1>0, <2>1 DEF OneByOne, ActivePcs
  <2>3. q \in ApiRequest => ~Taken(q)'
    <3> SUFFICES ASSUME q \in ApiRequest, NEW r \in rows, r.year = year, r.n = number'[q] PROVE FALSE
      BY <2>1 DEF Taken
    <3>1. number[q] > 0 /\ \A n \in NumbersOf(counted[q]) : n < number[q]
      BY <1>0, <2>1 DEF OneByOne
    <3>2. number'[q] = number[q]
      BY <1>2, <2>1, <3>1 DEF NumberFor, NoNumber
    <3>3. r.year = counted[q]
      BY <1>2, <2>2
    <3>4. r.n \in NumbersOf(counted[q])
      BY <3>3, NumbersAreThose
    <3> QED BY <1>2, <3>1, <3>2, <3>4
  <2> QED BY <1>0, <1>1, <1>3, <2>1, <2>2, <2>3, SerialMoves DEF ActivePcs
<1>12. ASSUME NEW q \in Request, Lookup(q) PROVE OneByOne'
  <2>1. /\ pc[q] = "assigned" /\ pc'[q] \in {"ignored", "inserting"} /\ (~Taken(q) => pc'[q] = "inserting")
        /\ UNCHANGED <<rows, year, counted, floor, number, refYear>>
        /\ \A r \in Request \ {q} : pc'[r] = pc[r]
    BY <1>0, <1>12 DEF Lookup, TypeOK
  <2>2. /\ \A r \in rows : r.year <= year
        /\ counted[q] <= year /\ \A r \in rows : r.year <= counted[q]
        /\ refYear[q] <= year /\ (q \in ApiRequest => ~Taken(q))
    BY <1>0, <2>1 DEF OneByOne, ActivePcs
  <2>3. Taken(q)' = Taken(q)
    BY <2>1 DEF Taken
  <2> QED BY <1>0, <1>1, <2>1, <2>2, <2>3, SerialMoves DEF ActivePcs
<1>13. ASSUME NEW q \in Request, Insert(q) PROVE OneByOne'
  <2> DEFINE row == [year |-> refYear[q], n |-> number[q], owner |-> q]
  <2>1. /\ pc[q] = "inserting" /\ pc'[q] \in {"failed", "stored"}
        /\ rows' \in {rows, rows \cup {row}} /\ (pc'[q] = "stored" => rows' = rows \cup {row})
        /\ UNCHANGED <<year, counted, floor, number, refYear>>
        /\ \A r \in Request \ {q} : pc'[r] = pc[r]
    BY <1>0, <1>13 DEF Insert, TypeOK, dbVars
  <2>2. /\ \A r \in rows : r.year <= year
        /\ refYear[q] <= year
    BY <1>0, <2>1 DEF OneByOne, ActivePcs
  <2>3. \A r \in rows' : r.year <= year
    BY <2>1, <2>2
  <2> HIDE DEF row
  <2>4. q \in ApiRequest /\ pc'[q] = "stored" =>
          [year |-> refYear'[q], n |-> number'[q], owner |-> q] \in rows'
    BY <2>1 DEF row
  <2> QED BY <1>0, <1>1, <2>1, <2>3, <2>4, SerialMoves DEF ActivePcs
<1> QED
  BY <1>4, <1>5, <1>6, <1>7, <1>8, <1>9, <1>10, <1>11, <1>12, <1>13 DEF Next, Serve, Run

(* With one process nothing is stored between the reading of the floor and *)
(* the insert, for any number of requests, failures, crashes and years.    *)
THEOREM SerialInvariant ==
  ASSUME OneProcess PROVE Spec => []SerialInv
<1>1. Init => SerialInv
  BY SoundInit, SerialInit DEF SerialInv, Sound
<1>2. SerialInv /\ [Next]_vars => SerialInv'
  BY SoundStep, SerialStep DEF SerialInv, Sound
<1> QED BY <1>1, <1>2, PTL DEF Spec

(* A customer of the API who is given a reference has a booking of their   *)
(* own under it, through failed reservations and New Year                  *)
(* (persistence.py:256-327 and 863-999, booking.py:70-94).                 *)
THEOREM ApiCustomersOwnTheirRef ==
  ASSUME OneProcess PROVE Spec => []ApiRefIsOwn
<1>1. SerialInv => ApiRefIsOwn
  BY DEF SerialInv, OneByOne
<1> QED BY SerialInvariant, <1>1, PTL

LEMMA RisingInit == Init => Rising
BY RefConstants DEF Init, Rising, ActivePcs, NoNumber

LEMMA RisingStep == OneProcess /\ SerialInv /\ Rising /\ [Next]_vars => Rising'
<1> SUFFICES ASSUME OneProcess, SerialInv, Rising, [Next]_vars PROVE Rising'
  OBVIOUS
<1>0. TypeOK /\ RequestsAreServed /\ OneByOne /\ ApiRequest \subseteq Request
  BY RefConstants DEF SerialInv
<1>1. /\ \A y \in Year : counter[y] \in Int
      /\ \A q \in Request : number[q] \in Int /\ counted[q] \in Year /\ floor[q] \in Int
      /\ \A p \in Process, y \in Year : seed[p][y] \in Int
      /\ \A p \in Process : Raised(p) \subseteq Year
  BY <1>0 DEF TypeOK, NoRow, Raised
<1>2. \A q, r \in Request : pc[q] \in ActivePcs /\ r # q => pc[r] \notin ActivePcs
  BY <1>0 DEF OneByOne
<1>3. \A q \in Request, p \in Process : pc[q] \in ActivePcs => boot[p] = "up"
  BY <1>0 DEF Rising, RequestsAreServed, OneProcess
<1>4. ASSUME NEW p \in Process, BackfillRead(p) \/ BackfillCompare(p) \/ BackfillCommit(p)
      PROVE  Rising'
  <2>1. /\ \A q \in Request : pc[q] \notin ActivePcs
        /\ UNCHANGED requestVars
    BY <1>3, <1>4 DEF BackfillRead, BackfillCompare, BackfillCommit
  <2>2. \A e \in Process : e = p
    BY DEF OneProcess
  <2>3. boot'[p] = "compared" => \A y \in Raised(p)' : counter'[y] < seed'[p][y]
    <3>1. CASE BackfillRead(p) \/ BackfillCommit(p)
      BY <1>0, <3>1 DEF BackfillRead, BackfillCommit, TypeOK
    <3>2. CASE BackfillCompare(p)
      <4>1. \A y \in Raised(p)' : y \in Year /\ Behind(p, y)
        BY <1>0, <3>2 DEF BackfillCompare, Raised, TypeOK
      <4> QED BY <3>2, <4>1 DEF BackfillCompare, Behind, dbVars
    <3> QED BY <1>4, <3>1, <3>2
  <2> QED BY <2>1, <2>2, <2>3, <1>0 DEF Rising, requestVars, ActivePcs
<1>5. ASSUME NEW p \in Process, Crash(p) PROVE Rising'
  <2>1. /\ boot'[p] = "down" /\ \A e \in Process : e = p
        /\ UNCHANGED <<counter, counted, number, server>>
        /\ \A q \in Request : pc'[q] \notin ActivePcs
    BY <1>0, <1>5 DEF Crash, TypeOK, OneProcess, RequestsAreServed, ActivePcs, dbVars
  <2> QED BY <2>1, <1>0 DEF Rising, ActivePcs
<1>6. CASE NewYear \/ UNCHANGED vars
  BY <1>6 DEF NewYear, vars, dbVars, processVars, requestVars, Rising, Raised
<1>7. ASSUME NEW q \in Request, NEW p \in Process, ReadFloor(q, p) PROVE Rising'
  <2>1. /\ pc'[q] = "floored" /\ server'[q] = p /\ boot[p] = "up"
        /\ UNCHANGED <<counter, number, boot, seed, raise>>
        /\ \A r \in Request \ {q} : /\ pc'[r] = pc[r] /\ server'[r] = server[r]
                                     /\ counted'[r] = counted[r]
    BY <1>0, <1>7 DEF ReadFloor, TypeOK, dbVars, processVars
  <2> QED BY <1>0, <2>1 DEF Rising, Raised
(* The steps of the only request at work: the processes are up, so no        *)
(* backfill is between its comparison and its commit.                        *)
<1>8. ASSUME NEW q \in Request, pc[q] \in ActivePcs, UNCHANGED <<boot, seed, raise, server, counted>>,
             \A r \in Request \ {q} : pc'[r] = pc[r] /\ number'[r] = number[r],
             q \in ApiRequest /\ pc'[q] \in {"reserved", "assigned", "inserting"} =>
               number'[q] > counter'[counted[q]]
      PROVE  Rising'
  <2>1. \A p \in Process : boot'[p] = "up"
    BY <1>3, <1>8
  <2>2. \A r \in Request \ {q} : pc'[r] \notin ActivePcs
    BY <1>2, <1>8
  <2>3. \A r \in Request : pc'[r] \in ActivePcs => boot'[server'[r]] = "up"
    BY <1>0, <1>8, <2>1, <2>2 DEF RequestsAreServed
  <2>4. \A r \in ApiRequest : pc'[r] \in {"reserved", "assigned", "inserting"} =>
          number'[r] > counter'[counted'[r]]
    BY <1>0, <1>8, <2>2 DEF ActivePcs
  <2>5. \A p \in Process : boot'[p] = "compared" => \A y \in Raised(p)' : counter'[y] < seed'[p][y]
    BY <2>1
  <2> QED BY <2>3, <2>4, <2>5 DEF Rising
<1>9. ASSUME NEW q \in Request, Reserve(q) PROVE Rising'
  <2>1. /\ pc[q] = "floored" /\ number'[q] = NextCounter(q)
        /\ UNCHANGED <<boot, seed, raise, server, counted>>
        /\ \A r \in Request \ {q} : pc'[r] = pc[r] /\ number'[r] = number[r]
        /\ q \in ApiRequest => counter' = counter
    BY <1>0, <1>9 DEF Reserve, TypeOK, processVars, OwnTransaction
  <2>2. NextCounter(q) > counter[counted[q]]
    BY <1>0, NextIsAbove
  <2> QED BY <1>8, <2>1, <2>2 DEF ActivePcs
<1>10. ASSUME NEW q \in Request, ReserveFails(q) PROVE Rising'
  <2>1. /\ pc[q] = "floored" /\ (q \in ApiRequest => pc'[q] = "failed")
        /\ UNCHANGED <<boot, seed, raise, server, counted>>
        /\ \A r \in Request \ {q} : pc'[r] = pc[r] /\ number'[r] = number[r]
    BY <1>0, <1>10 DEF ReserveFails, TypeOK, processVars
  <2> QED BY <1>8, <2>1 DEF ActivePcs
<1>11. ASSUME NEW q \in Request, AssignRef(q) PROVE Rising'
  <2>1. /\ pc[q] = "reserved" /\ number'[q] = NumberFor(q)
        /\ UNCHANGED <<boot, seed, raise, server, counted, counter>>
        /\ \A r \in Request \ {q} : pc'[r] = pc[r] /\ number'[r] = number[r]
    BY <1>0, <1>11 DEF AssignRef, TypeOK, dbVars
  <2>2. q \in ApiRequest => number'[q] = number[q] /\ number[q] > counter[counted[q]]
    <3> SUFFICES ASSUME q \in ApiRequest
                 PROVE  number'[q] = number[q] /\ number[q] > counter[counted[q]]
      OBVIOUS
    <3>1. number[q] > counter[counted[q]] /\ number[q] > 0
      BY <2>1, <1>0 DEF Rising, OneByOne
    <3> QED BY <2>1, <3>1, <1>1 DEF NumberFor, NoNumber
  <2> QED BY <1>8, <2>1, <2>2 DEF ActivePcs
<1>12. ASSUME NEW q \in Request, Lookup(q) \/ Insert(q) PROVE Rising'
  <2>1. /\ pc[q] \in {"assigned", "inserting"}
        /\ pc'[q] = "inserting" => UNCHANGED counter
        /\ pc'[q] \in {"inserting", "ignored", "failed", "stored"}
        /\ UNCHANGED <<boot, seed, raise, server, counted, number>>
        /\ \A r \in Request \ {q} : pc'[r] = pc[r]
    BY <1>0, <1>12 DEF Lookup, Insert, TypeOK, dbVars, processVars
  <2>2. q \in ApiRequest => number[q] > counter[counted[q]]
    BY <2>1 DEF Rising
  <2> QED BY <1>8, <2>1, <2>2 DEF ActivePcs
<1> QED BY <1>4, <1>5, <1>6, <1>7, <1>9, <1>10, <1>11, <1>12 DEF Next, Serve, Run

(* In one process a backfill runs while no request does and raises what it *)
(* found, and an open API transaction's number is above its counter.       *)
THEOREM RisingInvariant ==
  ASSUME OneProcess PROVE Spec => [](SerialInv /\ Rising)
<1>1. Init => Rising
  BY RisingInit
<1>2. SerialInv /\ SerialInv' /\ Rising /\ [Next]_vars => Rising'
  BY RisingStep
<1> QED BY <1>1, <1>2, SerialInvariant, PTL DEF Spec

(* No step of a deployment with one process takes a counter back: not a      *)
(* backfill, whatever reservations fell back, failed or died before it, and  *)
(* not the commit of an API request (db.py:309-331, persistence.py:256-292). *)
THEOREM CountersOnlyRise ==
  ASSUME OneProcess PROVE Spec => CounterNeverFalls
<1>1. SerialInv /\ Rising /\ [Next]_vars => [\A y \in Year : counter'[y] >= counter[y]]_vars
  <2> SUFFICES ASSUME SerialInv, Rising, [Next]_vars, NEW y \in Year
               PROVE  counter'[y] >= counter[y]
    OBVIOUS
  <2>1. TypeOK /\ counter[y] \in Int /\ ApiRequest \subseteq Request
    BY RefConstants DEF SerialInv, TypeOK, NoRow
  <2>2. CASE UNCHANGED counter
    BY <2>1, <2>2
  <2>3. ASSUME NEW p \in Process, BackfillCommit(p) PROVE counter'[y] >= counter[y]
    <3>1. y \in Raised(p) => counter[y] < seed[p][y] /\ seed[p][y] \in Int
      BY <2>1, <2>3 DEF BackfillCommit, Rising, TypeOK
    <3>2. counter'[y] = counter[y] \/ (y \in Raised(p) /\ counter'[y] = seed[p][y])
      BY <2>1, <2>3 DEF BackfillCommit, TypeOK
    <3> QED BY <2>1, <3>1, <3>2
  <2>4. ASSUME NEW q \in Request, Reserve(q) PROVE counter'[y] >= counter[y]
    <3>1. NextCounter(q) \in Int /\ NextCounter(q) > counter[counted[q]]
      BY <2>1, NextIsAbove
    <3> QED BY <2>1, <2>4, <3>1 DEF Reserve, TypeOK
  <2>5. ASSUME NEW q \in Request, Lookup(q) \/ Insert(q) PROVE counter'[y] >= counter[y]
    <3>1. CommitCounter(q) \/ UNCHANGED counter
      BY <2>5 DEF Lookup, Insert, dbVars
    <3>2. CASE ~OwnTransaction(q)
      <4>1. number[q] > counter[counted[q]] /\ number[q] \in Int
        BY <2>1, <2>5, <3>2 DEF Lookup, Insert, OwnTransaction, Rising, TypeOK
      <4> QED BY <2>1, <3>1, <3>2, <4>1 DEF CommitCounter, TypeOK
    <3> QED BY <2>1, <3>1, <3>2 DEF CommitCounter
  <2>6. ASSUME NEW q \in Request, NEW p \in Process, ReadFloor(q, p) PROVE UNCHANGED counter
    BY <2>6 DEF ReadFloor, dbVars
  <2>7. ASSUME NEW q \in Request, ReserveFails(q) \/ AssignRef(q) PROVE UNCHANGED counter
    BY <2>7 DEF ReserveFails, AssignRef, dbVars
  <2>8. ASSUME NEW p \in Process, BackfillRead(p) \/ BackfillCompare(p) \/ Crash(p)
        PROVE  UNCHANGED counter
    BY <2>8 DEF BackfillRead, BackfillCompare, Crash, dbVars
  <2>9. CASE NewYear \/ UNCHANGED vars
    BY <2>9, <2>2 DEF NewYear, dbVars, vars
  <2> QED BY <2>2, <2>3, <2>4, <2>5, <2>6, <2>7, <2>8, <2>9 DEF Next, Serve, Run
<1> QED BY RisingInvariant, <1>1, PTL DEF Spec, CounterNeverFalls

-----------------------------------------------------------------------------
(* Processes that overlap.  The clock stays in one year and no reservation *)
(* fails: otherwise two processes can number alike, which is what the run  *)
(* refs_fallback shows of the code.                                        *)
NoFallback == LastYear = 1 /\ MaxDbFailures = 0

LEMMA OneYear ==
  ASSUME NoFallback, TypeOK
  PROVE  /\ Year = {1} /\ year = 1
         /\ \A q \in Request : counted[q] = 1 /\ refYear[q] = 1
         /\ \A r \in rows : r.year = 1
<1>1. Year = {1}
  BY DEF NoFallback, Year
<1> QED BY <1>1, RowTyped DEF TypeOK

(* Everything older than the counters is below the next number.            *)
LEMMA NextIsNew ==
  ASSUME TypeOK, CountersCoverRows, ReadingsCoverLegacy, NEW q \in Request, pc[q] \in ActivePcs
  PROVE  \A r \in rows : r.year = counted[q] => r.n < NextCounter(q)
<1> SUFFICES ASSUME NEW r \in rows, r.year = counted[q] PROVE r.n < NextCounter(q)
  OBVIOUS
<1>1. /\ counted[q] \in Year /\ counter[counted[q]] \in Nat \cup {NoRow} /\ floor[q] \in Nat
      /\ r.n \in Nat
  BY RowTyped DEF TypeOK
<1>2. NextCounter(q) \in Nat /\ NextCounter(q) > counter[counted[q]] /\ NextCounter(q) > floor[q]
  BY NextIsAbove
<1>3. CASE counter[counted[q]] = NoRow
  <2>1. r \in LegacyRows
    BY <1>1, <1>3 DEF CountersCoverRows
  <2>2. r.n <= floor[q]
    BY <2>1 DEF ReadingsCoverLegacy, Covers
  <2> QED BY <1>1, <1>2, <2>2
<1>4. CASE counter[counted[q]] # NoRow
  <2>1. r.n <= counter[counted[q]]
    BY <1>1, <1>4, NumbersAreThose DEF CountersCoverRows
  <2>2. counter[counted[q]] \in Nat
    BY <1>1, <1>4
  <2> QED BY <1>1, <1>2, <2>1, <2>2
<1> QED BY <1>3, <1>4

(* The floor of a request is no higher than what the counter and the older *)
(* rows account for.                                                       *)
LEMMA FloorIsAccounted ==
  ASSUME TypeOK, CountersCoverRows, ReadingsCoverLegacy, NEW q \in Request, pc[q] \in ActivePcs,
         floor[q] > 0, floor[q] > counter[counted[q]]
  PROVE  \E r \in LegacyRows : r \in rows /\ r.year = counted[q] /\ r.n = floor[q]
<1>1. /\ counted[q] \in Year /\ counter[counted[q]] \in Nat \cup {NoRow} /\ floor[q] \in Nat
  BY DEF TypeOK
<1>2. PICK r \in rows : r.year = counted[q] /\ r.n = floor[q]
  BY <1>1, NumbersAreThose DEF ReadingsCoverLegacy, Covers
<1>3. counter[counted[q]] = NoRow
  <2> SUFFICES ASSUME counter[counted[q]] # NoRow PROVE FALSE
    OBVIOUS
  <2>1. floor[q] <= counter[counted[q]]
    BY <1>1, <1>2, NumbersAreThose DEF CountersCoverRows
  <2> QED BY <1>1, <2>1
<1> QED BY <1>1, <1>2, <1>3 DEF CountersCoverRows

LEMMA OverlapInit == Init => OverlapInv
<1> SUFFICES ASSUME Init PROVE OverlapInv
  OBVIOUS
<1>1. Sound
  BY SoundInit
<1>2. /\ \A q \in Request : pc[q] = "new" /\ number[q] = NoNumber
      /\ rows = LegacyRows /\ \A y \in Year : counter[y] = NoRow
      /\ \A p \in Process : boot[p] = "down"
  BY DEF Init
<1>3. RowsAreIssued
  BY <1>2 DEF RowsAreIssued, GivenRefIsOwn, Owned
<1>4. CountersCoverRows
  BY <1>2 DEF CountersCoverRows
<1>5. ReadingsCoverLegacy
  BY <1>2 DEF ReadingsCoverLegacy, ActivePcs
<1>6. NumbersAreIssuedOnce
  <2>1. Issued = {} /\ \A q \in Request : \A y \in Year : ~HoldsCounter(q, y)
    BY <1>2 DEF Issued, HoldsCounter
  <2> QED BY <1>2, <2>1 DEF NumbersAreIssuedOnce
<1>7. ApiLosesNoNumber
  <2>1. \A y \in Year : 1..counter[y] = {}
    BY <1>2 DEF NoRow
  <2> QED BY <2>1 DEF ApiLosesNoNumber
<1> QED BY <1>1, <1>3, <1>4, <1>5, <1>6, <1>7 DEF OverlapInv, Sound

(* Steps that change neither rows nor counters nor numbers; a request may  *)
(* only be lost or go on.                                                  *)
LEMMA OverlapStays ==
  ASSUME OverlapInv, UNCHANGED <<rows, counter, floor, counted, number, refYear>>,
         \A q \in Request : \/ pc'[q] = pc[q]
                            \/ pc[q] \in ActivePcs /\ pc'[q] = "failed"
                            \/ pc[q] = "reserved" /\ pc'[q] = "assigned"
                            \/ pc[q] = "assigned" /\ pc'[q] = "inserting"
  PROVE  /\ RowsAreIssued' /\ CountersCoverRows' /\ NumbersAreIssuedOnce' /\ ApiLosesNoNumber'
         /\ \A q \in Request : pc'[q] \in ActivePcs => pc[q] \in ActivePcs
<1>1. /\ \A q \in Request : pc'[q] \in ActivePcs => pc[q] \in ActivePcs
      /\ \A q \in Request : pc'[q] \in {"new", "floored"} => pc[q] = pc'[q]
      /\ \A q \in Request : pc'[q] \in {"stored", "ignored"} <=> pc[q] \in {"stored", "ignored"}
      /\ \A q \in Request : pc'[q] \in {"stored", "ignored"} => pc[q] = pc'[q]
      /\ \A q \in Request : pc[q] = "stored" => pc[q] = pc'[q]
  BY DEF ActivePcs
<1>2. /\ Issued' \subseteq Issued
      /\ \A q \in Request : \A y \in Year : HoldsCounter(q, y)' => HoldsCounter(q, y)
      /\ \A q \in Issued' : \A y \in Year : HoldsCounter(q, y)' <=> HoldsCounter(q, y)
  BY DEF Issued, HoldsCounter, OwnTransaction, ActivePcs
<1>3. RowsAreIssued'
  BY <1>1 DEF OverlapInv, RowsAreIssued, GivenRefIsOwn, Owned
<1>4. CountersCoverRows'
  BY DEF OverlapInv, CountersCoverRows, NumbersOf
<1>5. NumbersAreIssuedOnce'
  <2>1. \A q \in Request : NextCounter(q)' = NextCounter(q) /\ counted[q] \in Year
    BY DEF NextCounter, OverlapInv, TypeOK
  <2>2. \A q \in Issued' : q \in Request /\ q \in Issued
    BY <1>2 DEF Issued
  <2> QED BY <1>1, <1>2, <2>1, <2>2 DEF OverlapInv, NumbersAreIssuedOnce
<1>6. ApiLosesNoNumber'
  BY DEF OverlapInv, ApiLosesNoNumber
<1> QED BY <1>1, <1>3, <1>4, <1>5, <1>6

(* Readings of rows that only grow.                                        *)
LEMMA ReadingsStay ==
  ASSUME OverlapInv, rows \subseteq rows', UNCHANGED <<floor, counted, seed, raise>>,
         \A q \in Request : pc'[q] \in ActivePcs => pc[q] \in ActivePcs,
         \A p \in Process : boot'[p] = boot[p] \/ boot'[p] \in {"down", "up"}
  PROVE  ReadingsCoverLegacy'
<1>1. \A y : NumbersOf(y) \subseteq NumbersOf(y)'
  BY DEF NumbersOf
<1> QED BY <1>1 DEF OverlapInv, ReadingsCoverLegacy, Covers

(* The backfill.                                                           *)
LEMMA BackfillReadStep ==
  ASSUME OverlapInv, NEW p \in Process, BackfillRead(p)
  PROVE  OverlapInv'
<1>1. PICK highest \in [Year -> {0} \cup {r.n : r \in rows}] :
        /\ \A y \in Year : IsHighest(highest[y], y)
        /\ seed' = [seed EXCEPT ![p] = highest]
  BY DEF BackfillRead
<1>2. /\ UNCHANGED <<rows, counter, pc, floor, counted, number, refYear, raise>>
      /\ boot' = [boot EXCEPT ![p] = "read"] /\ TypeOK /\ LegacyRows \subseteq rows
      /\ [Next]_vars
  BY DEF BackfillRead, dbVars, requestVars, OverlapInv, RowsAreIssued, Next, Run
<1>3. ReadingsCoverLegacy'
  <2>1. \A y \in Year : Covers(highest[y], y)
    BY <1>1, <1>2, NumbersAreThose DEF IsHighest, Covers
  <2>2. /\ seed'[p] = highest /\ \A o \in Process \ {p} : seed'[o] = seed[o] /\ boot'[o] = boot[o]
        /\ boot'[p] = "read"
    BY <1>1, <1>2 DEF TypeOK
  <2>3. \A m, y : Covers(m, y)' <=> Covers(m, y)
    BY <1>2 DEF Covers, NumbersOf
  <2>4. \A q \in Request : pc'[q] \in ActivePcs => Covers(floor'[q], counted'[q])
    BY <1>2 DEF OverlapInv, ReadingsCoverLegacy
  <2>5. \A o \in Process : boot'[o] \in {"read", "compared"} =>
          \A y \in Year : Covers(seed'[o][y], y)
    BY <2>1, <2>2 DEF OverlapInv, ReadingsCoverLegacy
  <2>6. \A o \in Process : boot'[o] = "compared" => \A y \in Year : <<y, "update">> \notin raise'[o]
    BY <1>2, <2>2 DEF OverlapInv, ReadingsCoverLegacy
  <2> QED BY <2>3, <2>4, <2>5, <2>6 DEF ReadingsCoverLegacy
<1> QED BY <1>2, <1>3, OverlapStays, SoundStep DEF OverlapInv, Sound

(* A counter below a reference that was read does not exist yet.           *)
LEMMA BackfillCompareStep ==
  ASSUME OverlapInv, NEW p \in Process, BackfillCompare(p)
  PROVE  OverlapInv'
<1>1. /\ UNCHANGED <<rows, counter, pc, floor, counted, number, refYear, seed>>
      /\ boot[p] = "read" /\ boot' = [boot EXCEPT ![p] = "compared"] /\ TypeOK
      /\ [Next]_vars
  BY DEF BackfillCompare, dbVars, requestVars, OverlapInv, Next, Run
<1>2. ASSUME NEW y \in Year, Behind(p, y) PROVE counter[y] = NoRow
  <2> SUFFICES ASSUME counter[y] # NoRow PROVE FALSE
    OBVIOUS
  <2>1. seed[p][y] \in NumbersOf(y) \cup {0} /\ seed[p][y] > 0 /\ counter[y] < seed[p][y]
    BY <1>1, <1>2 DEF Behind, OverlapInv, ReadingsCoverLegacy, Covers
  <2>2. seed[p][y] <= counter[y]
    BY <2>1 DEF OverlapInv, CountersCoverRows
  <2>3. counter[y] \in Int /\ seed[p][y] \in Int
    BY <1>1 DEF TypeOK, NoRow
  <2> QED BY <2>1, <2>2, <2>3
<1>3. ReadingsCoverLegacy'
  <2>1. \A y \in Year : <<y, "update">> \notin raise'[p]
    <3>1. raise'[p] = {<<y, IF counter[y] = NoRow THEN "insert" ELSE "update">> :
                         y \in {z \in Year : Behind(p, z)}}
      BY <1>1 DEF BackfillCompare, TypeOK
    <3> QED BY <1>2, <3>1
  <2>2. /\ \A o \in Process \ {p} : raise'[o] = raise[o] /\ boot'[o] = boot[o]
        /\ boot'[p] = "compared"
    BY <1>1 DEF BackfillCompare, TypeOK
  <2>3. \A m, y : Covers(m, y)' <=> Covers(m, y)
    BY <1>1 DEF Covers, NumbersOf
  <2>4. \A q \in Request : pc'[q] \in ActivePcs => Covers(floor'[q], counted'[q])
    BY <1>1 DEF OverlapInv, ReadingsCoverLegacy
  <2>5. \A o \in Process : boot'[o] \in {"read", "compared"} =>
          \A y \in Year : Covers(seed'[o][y], y)
    BY <1>1, <2>2 DEF OverlapInv, ReadingsCoverLegacy
  <2>6. \A o \in Process : boot'[o] = "compared" => \A y \in Year : <<y, "update">> \notin raise'[o]
    BY <2>1, <2>2 DEF OverlapInv, ReadingsCoverLegacy
  <2> QED BY <2>3, <2>4, <2>5, <2>6 DEF ReadingsCoverLegacy
<1> QED BY <1>1, <1>3, OverlapStays, SoundStep DEF OverlapInv, Sound

(* What the commit of a backfill writes: counters that did not exist, each *)
(* at the highest of the older references of its year.                     *)
LEMMA BackfillWrites ==
  ASSUME OverlapInv, NEW p \in Process, BackfillCommit(p), NEW y \in Year
  PROVE  \/ counter'[y] = counter[y]
         \/ /\ counter[y] = NoRow /\ CounterFree(y)
            /\ counter'[y] \in Nat
            /\ \A r \in rows : r.year = y => r \in LegacyRows /\ r.n <= counter'[y]
            /\ counter'[y] > 0 => \E r \in LegacyRows : r \in rows /\ r.year = y /\ r.n = counter'[y]
<1>1. /\ boot[p] = "compared" /\ TypeOK /\ \A z \in Raised(p) : CounterFree(z)
  BY DEF BackfillCommit, OverlapInv
<1>2. CASE y \notin Raised(p) \/ \E z \in Year : <<z, "insert">> \in raise[p] /\ counter[z] # NoRow
  BY <1>1, <1>2 DEF BackfillCommit, TypeOK
<1>3. CASE y \in Raised(p) /\ ~\E z \in Year : <<z, "insert">> \in raise[p] /\ counter[z] # NoRow
  <2>1. counter'[y] = seed[p][y] /\ CounterFree(y)
    BY <1>1, <1>3 DEF BackfillCommit
  <2>2. <<y, "insert">> \in raise[p]
    BY <1>1, <1>3 DEF Raised, OverlapInv, ReadingsCoverLegacy
  <2>3. counter[y] = NoRow
    BY <1>3, <2>2
  <2>4. \A r \in rows : r.year = y => r \in LegacyRows
    BY <2>3 DEF OverlapInv, CountersCoverRows
  <2>5. /\ seed[p][y] \in NumbersOf(y) \cup {0} /\ seed[p][y] \in Nat
        /\ \A r \in LegacyRows : r.year = y => r.n <= seed[p][y]
    BY <1>1 DEF OverlapInv, ReadingsCoverLegacy, Covers, TypeOK
  <2>6. seed[p][y] > 0 => \E r \in rows : r.year = y /\ r.n = seed[p][y]
    BY <2>5, NumbersAreThose
  <2> QED BY <2>1, <2>3, <2>4, <2>5, <2>6
<1> QED BY <1>2, <1>3

LEMMA BackfillCommitStep ==
  ASSUME OverlapInv, NEW p \in Process, BackfillCommit(p)
  PROVE  OverlapInv'
<1>1. /\ UNCHANGED <<rows, pc, floor, counted, number, refYear, seed, raise>>
      /\ TypeOK /\ RowsAreIssued /\ CountersCoverRows /\ NumbersAreIssuedOnce /\ ApiLosesNoNumber
      /\ [Next]_vars
  BY DEF BackfillCommit, requestVars, OverlapInv, Next, Run
<1>2. \A o \in Process : boot'[o] = boot[o] \/ boot'[o] \in {"down", "up"}
  BY <1>1 DEF BackfillCommit, TypeOK
<1>3. ReadingsCoverLegacy'
  BY <1>1, <1>2, ReadingsStay
<1>4. RowsAreIssued'
  BY <1>1 DEF RowsAreIssued, GivenRefIsOwn, Owned
<1>5. \A y : NumbersOf(y)' = NumbersOf(y)
  BY <1>1 DEF NumbersOf
<1>6. CountersCoverRows'
  <2> SUFFICES ASSUME NEW y \in Year
               PROVE  IF counter'[y] = NoRow
                      THEN \A r \in rows' : r.year = y => r \in LegacyRows
                      ELSE \A n \in NumbersOf(y)' : n <= counter'[y]
    BY DEF CountersCoverRows
  <2>1. CASE counter'[y] = counter[y]
    BY <1>1, <1>5, <2>1 DEF CountersCoverRows
  <2>2. CASE \A r \in rows : r.year = y => r \in LegacyRows /\ r.n <= counter'[y]
    BY <1>1, <1>5, <2>2, NumbersAreThose
  <2> QED BY <2>1, <2>2, BackfillWrites
<1>7. NumbersAreIssuedOnce'
  <2>1. /\ Issued' = Issued /\ \A q \in Request : \A y \in Year : HoldsCounter(q, y)' <=> HoldsCounter(q, y)
    BY <1>1 DEF Issued, HoldsCounter, OwnTransaction
  <2>2. ASSUME NEW q \in Issued
        PROVE  counter'[counted[q]] = counter[counted[q]]
    <3>1. q \in Request /\ counted[q] \in Year /\ number[q] > 0 /\ number[q] \in Int
      BY <1>1 DEF Issued, NumbersAreIssuedOnce, TypeOK
    <3>2. SUFFICES ASSUME counter[counted[q]] = NoRow, CounterFree(counted[q]) PROVE FALSE
      BY <3>1, BackfillWrites
    <3>3. ~HoldsCounter(q, counted[q])
      BY <3>1, <3>2 DEF CounterFree
    <3>4. number[q] <= counter[counted[q]]
      BY <1>1, <3>3 DEF NumbersAreIssuedOnce
    <3> QED BY <3>1, <3>2, <3>4 DEF NoRow
  <2>3. \A q \in Issued : NextCounter(q)' = NextCounter(q) /\ q \in Request /\ counted[q] \in Year
    BY <1>1, <2>2 DEF NextCounter, Issued, TypeOK
  <2> QED BY <1>1, <2>1, <2>2, <2>3 DEF NumbersAreIssuedOnce
<1>8. ApiLosesNoNumber'
  <2> SUFFICES ASSUME NEW y \in Year, NEW n \in 1..counter'[y]
               PROVE  \/ \E r \in rows : r.year = y /\ r.n >= n /\ (r.n = n \/ r.owner = Legacy)
                      \/ \E q \in Request \ ApiRequest : counted[q] = y /\ number[q] = n
    BY <1>1 DEF ApiLosesNoNumber
  <2>1. CASE counter'[y] = counter[y]
    BY <1>1, <2>1 DEF ApiLosesNoNumber
  <2>2. CASE /\ counter'[y] \in Nat
             /\ counter'[y] > 0 => \E r \in LegacyRows : r \in rows /\ r.year = y /\ r.n = counter'[y]
    <3>1. n <= counter'[y] /\ counter'[y] > 0
      BY <2>2
    <3>2. PICK r \in LegacyRows : r \in rows /\ r.year = y /\ r.n = counter'[y]
      BY <2>2, <3>1
    <3>3. r.owner = Legacy
      BY RefConstants
    <3> QED BY <2>2, <3>1, <3>2, <3>3
  <2> QED BY <2>1, <2>2, BackfillWrites
<1> QED BY <1>1, <1>3, <1>4, <1>6, <1>7, <1>8, SoundStep DEF OverlapInv, Sound

LEMMA CrashStep ==
  ASSUME OverlapInv, NEW p \in Process, Crash(p)
  PROVE  OverlapInv'
<1>1. /\ UNCHANGED <<rows, counter, floor, counted, number, refYear, seed, raise>>
      /\ TypeOK /\ [Next]_vars
  BY DEF Crash, dbVars, OverlapInv, Next, Run
<1>2. /\ \A q \in Request : pc'[q] = pc[q] \/ (pc[q] \in ActivePcs /\ pc'[q] = "failed")
      /\ \A o \in Process : boot'[o] = boot[o] \/ boot'[o] \in {"down", "up"}
  BY <1>1 DEF Crash, TypeOK
<1>3. /\ RowsAreIssued' /\ CountersCoverRows' /\ NumbersAreIssuedOnce' /\ ApiLosesNoNumber'
      /\ \A q \in Request : pc'[q] \in ActivePcs => pc[q] \in ActivePcs
  BY <1>1, <1>2, OverlapStays
<1>4. ReadingsCoverLegacy'
  BY <1>1, <1>2, <1>3, ReadingsStay
<1> QED BY <1>1, <1>3, <1>4, SoundStep DEF OverlapInv, Sound

(* The requests.                                                           *)
LEMMA ReadFloorStep ==
  ASSUME OverlapInv, NEW q \in Request, NEW p \in Process, ReadFloor(q, p)
  PROVE  OverlapInv'
<1>1. /\ UNCHANGED <<rows, counter, year, boot, seed, raise, number, refYear>>
      /\ pc[q] = "new" /\ pc'[q] = "floored" /\ counted'[q] = year
      /\ \A r \in Request \ {q} : pc'[r] = pc[r] /\ counted'[r] = counted[r] /\ floor'[r] = floor[r]
      /\ TypeOK /\ RowsAreIssued /\ CountersCoverRows /\ NumbersAreIssuedOnce /\ ApiLosesNoNumber
      /\ ReadingsCoverLegacy /\ [Next]_vars
  BY DEF ReadFloor, OverlapInv, TypeOK, dbVars, processVars, Next, Serve
<1>2. PICK m \in NumbersOf(year) \cup {0} : IsHighest(m, year) /\ floor'[q] = m
  BY <1>1 DEF ReadFloor, TypeOK
<1>3. \A y : NumbersOf(y)' = NumbersOf(y)
  BY <1>1 DEF NumbersOf
<1>4. RowsAreIssued'
  <2>1. \A r \in rows \ LegacyRows : r.owner # q
    BY <1>1 DEF RowsAreIssued
  <2> QED BY <1>1, <2>1 DEF RowsAreIssued, GivenRefIsOwn, Owned
<1>5. CountersCoverRows'
  BY <1>1, <1>3 DEF CountersCoverRows
<1>6. ReadingsCoverLegacy'
  <2>1. \A r \in LegacyRows : r.year = year => r.n <= m
    BY <1>1, <1>2, NumbersAreThose DEF RowsAreIssued, IsHighest
  <2>2. \A r \in Request : pc'[r] \in ActivePcs =>
          Covers(floor'[r], counted'[r])
    BY <1>1, <1>2, <2>1 DEF ReadingsCoverLegacy, Covers
  <2>3. \A l, y : Covers(l, y)' <=> Covers(l, y)
    BY <1>3 DEF Covers
  <2> QED BY <1>1, <2>2, <2>3 DEF ReadingsCoverLegacy
<1>7. NumbersAreIssuedOnce'
  <2>1. Issued' = Issued /\ q \notin Issued
    BY <1>1 DEF Issued
  <2>2. \A r \in Request : \A y \in Year : HoldsCounter(r, y)' <=> HoldsCounter(r, y)
    BY <1>1 DEF HoldsCounter, OwnTransaction
  <2>3. \A r \in Issued : /\ NextCounter(r)' = NextCounter(r) /\ r \in Request \ {q}
                          /\ counted'[r] = counted[r] /\ counted[r] \in Year
    BY <1>1, <2>1 DEF NextCounter, Issued, TypeOK
  <2>4. number[q] = NoNumber
    BY <1>1 DEF NumbersAreIssuedOnce
  <2> QED BY <1>1, <2>1, <2>2, <2>3, <2>4 DEF NumbersAreIssuedOnce
<1>8. ApiLosesNoNumber'
  <2>1. number[q] = NoNumber
    BY <1>1 DEF NumbersAreIssuedOnce
  <2> SUFFICES ASSUME NEW y \in Year, NEW n \in 1..counter[y],
                      ~\E r \in rows : r.year = y /\ r.n >= n /\ (r.n = n \/ r.owner = Legacy)
               PROVE  \E r \in Request \ ApiRequest : counted'[r] = y /\ number[r] = n
    BY <1>1 DEF ApiLosesNoNumber
  <2>2. PICK r \in Request \ ApiRequest : counted[r] = y /\ number[r] = n
    BY <1>1 DEF ApiLosesNoNumber
  <2>3. r # q
    BY <2>1, <2>2 DEF NoNumber
  <2> QED BY <1>1, <2>2, <2>3
<1> QED BY <1>1, <1>4, <1>5, <1>6, <1>7, <1>8, SoundStep DEF OverlapInv, Sound

(* A reservation gives a number above all that are stored or issued; the   *)
(* API's stays private until its commit.                                   *)
LEMMA ReserveStep ==
  ASSUME OverlapInv, NoFallback, NEW q \in Request, Reserve(q)
  PROVE  OverlapInv'
<1> DEFINE n == NextCounter(q)
           y == counted[q]
<1>1. /\ UNCHANGED <<rows, year, boot, seed, raise, counted, floor, refYear>>
      /\ pc[q] = "floored" /\ pc'[q] = "reserved" /\ number'[q] = n /\ CounterFree(y)
      /\ pc' = [pc EXCEPT ![q] = "reserved"]
      /\ \A r \in Request \ {q} : pc'[r] = pc[r] /\ number'[r] = number[r]
      /\ [Next]_vars
  BY DEF Reserve, OverlapInv, TypeOK, processVars, Next, Serve
<1>2. /\ TypeOK /\ RowsAreIssued /\ CountersCoverRows /\ NumbersAreIssuedOnce /\ ApiLosesNoNumber
      /\ ReadingsCoverLegacy /\ pc[q] \in ActivePcs /\ number[q] = NoNumber
  BY <1>1 DEF OverlapInv, ActivePcs, NumbersAreIssuedOnce
<1>3. /\ n \in Nat \ {0} /\ n > counter[y] /\ n > floor[q] /\ n \in {counter[y] + 1, floor[q] + 1}
      /\ y \in Year /\ counter[y] \in Int /\ floor[q] \in Int
  BY <1>2, NextIsAbove DEF TypeOK, NoRow
<1>4. \A r \in rows : r.year = y => r.n < n
  BY <1>2, NextIsNew
<1>5. \A z \in Year : z = y
  BY <1>2, <1>3, OneYear
<1>6. (counter'[y] = IF OwnTransaction(q) THEN n ELSE counter[y]) /\ y' = y
  BY <1>1, <1>2, <1>3 DEF Reserve, TypeOK
<1> HIDE DEF n, y
<1>7. \A z : NumbersOf(z)' = NumbersOf(z)
  BY <1>1 DEF NumbersOf
<1>8. RowsAreIssued'
  <2>1. \A r \in rows \ LegacyRows : r.owner # q
    BY <1>1, <1>2 DEF RowsAreIssued
  <2> QED BY <1>1, <1>2, <2>1 DEF RowsAreIssued, GivenRefIsOwn, Owned
<1>9. CountersCoverRows'
  <2>1. \A m \in NumbersOf(y) : m < n
    BY <1>4, NumbersAreThose
  <2>2. \A m \in NumbersOf(y) : m \in Int
    BY <1>2, NumbersTyped
  <2>3. IF counter'[y] = NoRow
        THEN \A r \in rows : r.year = y => r \in LegacyRows
        ELSE \A m \in NumbersOf(y) : m <= counter'[y]
    BY <1>2, <1>3, <1>6, <2>1, <2>2 DEF CountersCoverRows, NoRow
  <2> QED BY <1>1, <1>5, <1>7, <2>3 DEF CountersCoverRows
<1>10. ReadingsCoverLegacy'
  <2>1. \A r \in Request : pc'[r] \in ActivePcs => pc[r] \in ActivePcs
    BY <1>1, <1>2
  <2> QED BY <1>1, <2>1, ReadingsStay DEF OverlapInv
<1>11. NumbersAreIssuedOnce'
  <2>1. Issued' = Issued \cup {q} /\ q \notin Issued /\ \A r \in Issued : r \in Request \ {q}
    BY <1>1 DEF Issued
  <2>2. \A r \in Request : counted[r] = y
    BY <1>2, <1>5 DEF TypeOK
  <2>3. \A r \in Request \ {q} : ~HoldsCounter(r, y) /\ ~HoldsCounter(r, y)'
    BY <1>1, <1>6 DEF CounterFree, HoldsCounter, OwnTransaction
  <2>4. HoldsCounter(q, y)' <=> ~OwnTransaction(q)
    BY <1>1, <1>6, <2>2 DEF HoldsCounter, OwnTransaction
  <2>5. /\ number'[q] = n /\ n > 0
        /\ \A r \in LegacyRows : r.year = y => r.n < number'[q]
        /\ IF HoldsCounter(q, y)' THEN number'[q] = NextCounter(q)' ELSE number'[q] <= counter'[y]
    <3>1. \A r \in LegacyRows : r.year = y => r.n < n
      BY <1>2, <1>4 DEF RowsAreIssued
    <3>2. ~OwnTransaction(q) => NextCounter(q)' = n
      BY <1>1, <1>6, <2>2 DEF NextCounter, n, y
    <3> QED BY <1>1, <1>3, <1>6, <2>4, <3>1, <3>2
  <2>6. ASSUME NEW r \in Issued
        PROVE  /\ number'[r] = number[r] /\ number[r] > 0 /\ number[r] < n
               /\ \A l \in LegacyRows : l.year = y => l.n < number[r]
               /\ number[r] <= counter'[y]
    <3>1. r \in Request \ {q} /\ number[r] \in Int /\ number[r] <= counter[y]
      BY <1>2, <2>1, <2>2, <2>3 DEF NumbersAreIssuedOnce, TypeOK
    <3> QED BY <1>1, <1>2, <1>3, <1>6, <2>2, <3>1 DEF NumbersAreIssuedOnce
  <2>7. \A r \in Request : pc'[r] \in {"new", "floored"} => number'[r] = NoNumber
    BY <1>1, <1>2 DEF NumbersAreIssuedOnce
  <2>8. \A r, s \in Issued' : number'[r] = number'[s] => r = s
    <3> TAKE r, s \in Issued'
    <3>1. CASE r = q \/ s = q
      BY <1>3, <2>1, <2>5, <2>6, <3>1
    <3>2. CASE r # q /\ s # q
      <4>1. r \in Issued /\ s \in Issued
        BY <2>1, <3>2
      <4> QED BY <1>2, <2>1, <2>2, <2>6, <4>1 DEF NumbersAreIssuedOnce
    <3> QED BY <3>1, <3>2
  <2>9. \A r, s \in Request : \A z \in Year : HoldsCounter(r, z)' /\ HoldsCounter(s, z)' => r = s
    BY <1>5, <1>6, <2>3
  <2>10. \A r \in Issued' :
          /\ number'[r] > 0
          /\ \A l \in LegacyRows : l.year = counted'[r] => l.n < number'[r]
          /\ IF HoldsCounter(r, counted[r])' THEN number'[r] = NextCounter(r)'
             ELSE number'[r] <= counter'[counted'[r]]
    <3> TAKE r \in Issued'
    <3>1. counted'[r] = y /\ counted[r] = y
      BY <1>1, <2>1, <2>2
    <3>2. CASE r = q
      BY <1>1, <1>3, <1>6, <2>5, <3>1, <3>2
    <3>3. CASE r # q
      <4>1. r \in Issued /\ r \in Request \ {q}
        BY <2>1, <3>3
      <4>2. ~HoldsCounter(r, counted[r])'
        BY <1>1, <1>6, <2>3, <3>1, <4>1
      <4> QED BY <2>6, <3>1, <4>1, <4>2
    <3> QED BY <3>2, <3>3
  <2> QED BY <2>7, <2>8, <2>9, <2>10 DEF NumbersAreIssuedOnce
<1>12. ApiLosesNoNumber'
  <2> SUFFICES ASSUME NEW k \in 1..counter'[y]
               PROVE  \/ \E r \in rows : r.year = y /\ r.n >= k /\ (r.n = k \/ r.owner = Legacy)
                      \/ \E r \in Request \ ApiRequest : counted[r] = y /\ number'[r] = k
    BY <1>1, <1>5 DEF ApiLosesNoNumber
  <2>1. CASE k \in 1..counter[y]
    <3>1. k # number[q]
      BY <1>2 DEF NoNumber
    <3>2. \/ \E r \in rows : r.year = y /\ r.n >= k /\ (r.n = k \/ r.owner = Legacy)
          \/ \E r \in Request \ ApiRequest : counted[r] = y /\ number[r] = k
      BY <1>2, <1>3, <2>1 DEF ApiLosesNoNumber
    <3> QED BY <1>1, <3>1, <3>2
  <2>2. CASE k \notin 1..counter[y]
    <3>1. OwnTransaction(q) /\ k <= n /\ k > counter[y] /\ k \in Nat \ {0}
      BY <1>3, <1>6, <2>2
    <3>2. CASE k = n
      BY <1>1, <3>1, <3>2 DEF OwnTransaction, y
    <3>3. CASE k # n
      <4>1. n = floor[q] + 1 /\ k <= floor[q]
        BY <1>3, <3>1, <3>3
      <4>2. floor[q] > 0 /\ floor[q] > counter[y]
        BY <1>3, <3>1, <4>1
      <4>3. PICK r \in LegacyRows : r \in rows /\ r.year = y /\ r.n = floor[q]
        BY <1>2, <4>2, FloorIsAccounted DEF y
      <4>4. r.owner = Legacy
        BY RefConstants
      <4> QED BY <1>3, <3>1, <4>1, <4>3, <4>4
    <3> QED BY <3>2, <3>3
  <2> QED BY <2>1, <2>2
<1> QED BY <1>1, <1>2, <1>8, <1>9, <1>10, <1>11, <1>12, SoundStep DEF OverlapInv, Sound

LEMMA AssignRefStep ==
  ASSUME OverlapInv, NEW q \in Request, NoFallback, AssignRef(q)
  PROVE  OverlapInv'
<1>1. /\ UNCHANGED <<rows, counter, year, boot, seed, raise, counted, floor>>
      /\ pc[q] = "reserved" /\ pc' = [pc EXCEPT ![q] = "assigned"] /\ TypeOK /\ [Next]_vars
  BY DEF AssignRef, OverlapInv, dbVars, Next, Serve
<1>2. number' = number
  <2>1. number[q] > 0
    BY <1>1 DEF OverlapInv, NumbersAreIssuedOnce, Issued
  <2>2. NumberFor(q) = number[q]
    BY <2>1 DEF NumberFor, NoNumber
  <2> QED BY <1>1, <2>2 DEF AssignRef, TypeOK
<1>3. refYear' = refYear
  <2>1. refYear[q] = year
    BY <1>1, OneYear
  <2> QED BY <1>1, <2>1 DEF AssignRef, TypeOK
<1>4. \A r \in Request : pc'[r] = pc[r] \/ (pc[r] = "reserved" /\ pc'[r] = "assigned")
  BY <1>1 DEF TypeOK
<1>5. /\ RowsAreIssued' /\ CountersCoverRows' /\ NumbersAreIssuedOnce' /\ ApiLosesNoNumber'
      /\ \A r \in Request : pc'[r] \in ActivePcs => pc[r] \in ActivePcs
  BY <1>1, <1>2, <1>3, <1>4, OverlapStays
<1>6. ReadingsCoverLegacy'
  BY <1>1, <1>5, ReadingsStay
<1> QED BY <1>1, <1>5, <1>6, SoundStep DEF OverlapInv, Sound

(* The reference of a request is in nobody's row: not in an older one, and *)
(* a stored one has another number.                                        *)
LEMMA NeverTaken ==
  ASSUME OverlapInv, NoFallback, NEW q \in Request, pc[q] \in {"assigned", "inserting"}
  PROVE  ~Taken(q)
<1> SUFFICES ASSUME NEW r \in rows, r.year = refYear[q], r.n = number[q] PROVE FALSE
  BY DEF Taken
<1>1. TypeOK /\ q \in Issued /\ refYear[q] = counted[q] /\ number[q] \in Int
  BY OneYear DEF OverlapInv, Issued, TypeOK
<1>2. CASE r \in LegacyRows
  BY <1>1, <1>2 DEF OverlapInv, NumbersAreIssuedOnce
<1>3. CASE r \notin LegacyRows
  <2>1. r.owner \in Request /\ pc[r.owner] = "stored" /\ r.year = counted[r.owner] /\ r.n = number[r.owner]
    BY <1>3 DEF OverlapInv, RowsAreIssued
  <2>2. r.owner \in Issued /\ r.owner # q
    BY <2>1 DEF Issued
  <2> QED BY <1>1, <2>1, <2>2 DEF OverlapInv, NumbersAreIssuedOnce
<1> QED BY <1>2, <1>3

LEMMA LookupStep ==
  ASSUME OverlapInv, NoFallback, NEW q \in Request, Lookup(q)
  PROVE  OverlapInv'
<1>1. /\ UNCHANGED <<rows, counter, boot, seed, raise, counted, floor, number, refYear>>
      /\ pc[q] = "assigned" /\ pc' = [pc EXCEPT ![q] = "inserting"] /\ TypeOK /\ [Next]_vars
  BY NeverTaken DEF Lookup, OverlapInv, processVars, Next, Serve
<1>2. \A r \in Request : pc'[r] = pc[r] \/ (pc[r] = "assigned" /\ pc'[r] = "inserting")
  BY <1>1 DEF TypeOK
<1>3. /\ RowsAreIssued' /\ CountersCoverRows' /\ NumbersAreIssuedOnce' /\ ApiLosesNoNumber'
      /\ \A r \in Request : pc'[r] \in ActivePcs => pc[r] \in ActivePcs
  BY <1>1, <1>2, OverlapStays
<1>4. ReadingsCoverLegacy'
  BY <1>1, <1>3, ReadingsStay
<1> QED BY <1>1, <1>3, <1>4, SoundStep DEF OverlapInv, Sound

(* The commit of a booking: its row is the first with its reference, and   *)
(* the API's counter rises to the number that nobody else was given.       *)
LEMMA InsertStep ==
  ASSUME OverlapInv, NoFallback, NEW q \in Request, Insert(q)
  PROVE  OverlapInv'
<1> DEFINE y == counted[q]
           n == number[q]
           row == [year |-> refYear[q], n |-> number[q], owner |-> q]
<1>1. /\ UNCHANGED <<boot, seed, raise, counted, floor, number, refYear>>
      /\ pc[q] = "inserting" /\ pc' = [pc EXCEPT ![q] = "stored"]
      /\ rows' = rows \cup {row} /\ CommitCounter(q) /\ [Next]_vars
  BY NeverTaken DEF Insert, OverlapInv, processVars, Next, Serve
<1>2. /\ TypeOK /\ RowsAreIssued /\ CountersCoverRows /\ NumbersAreIssuedOnce /\ ApiLosesNoNumber
      /\ ReadingsCoverLegacy /\ pc[q] \in ActivePcs /\ q \in Issued
      /\ pc'[q] = "stored" /\ \A r \in Request \ {q} : pc'[r] = pc[r]
  BY <1>1 DEF OverlapInv, ActivePcs, Issued, TypeOK
<1>3. /\ y \in Year /\ counter[y] \in Nat \cup {NoRow} /\ n \in Nat \ {0} /\ floor[q] \in Nat
      /\ row \notin LegacyRows
  BY <1>2, RefConstants DEF TypeOK, NumbersAreIssuedOnce
<1>4. /\ \A z \in Year : z = y
      /\ \A r \in Request : counted[r] = y /\ refYear[r] = y
      /\ row.year = y /\ row.n = n /\ row.owner = q
  BY <1>2, <1>3, OneYear
<1>5. /\ OwnTransaction(q) => counter'[y] = counter[y] /\ n <= counter[y]
      /\ ~OwnTransaction(q) => /\ counter'[y] = n /\ n = NextCounter(q) /\ n > counter[y]
                               /\ HoldsCounter(q, y)
  <2>1. HoldsCounter(q, y) <=> ~OwnTransaction(q)
    BY <1>1 DEF HoldsCounter
  <2>2. IF HoldsCounter(q, y) THEN n = NextCounter(q) ELSE n <= counter[y]
    BY <1>2 DEF NumbersAreIssuedOnce
  <2>3. NextCounter(q) > counter[y]
    BY <1>2, NextIsAbove
  <2>4. counter'[y] = IF OwnTransaction(q) THEN counter[y] ELSE n
    BY <1>1, <1>2, <1>3 DEF CommitCounter, TypeOK
  <2> QED BY <2>1, <2>2, <2>3, <2>4
<1>6. y' = y /\ n <= counter'[y] /\ counter[y] <= counter'[y] /\ counter'[y] \in Nat /\ counter[y] \in Int
  BY <1>1, <1>3, <1>5 DEF NoRow
<1>7. /\ rows \subseteq rows'
      /\ \A r \in rows' : r \in rows \/ r = row
  BY <1>1
<1> HIDE DEF y, n, row
<1>8. RowsAreIssued'
  <2>1. LegacyRows \subseteq rows' /\ \A r \in Request : pc'[r] # "ignored"
    BY <1>2, <1>7 DEF RowsAreIssued
  <2>2. \A r \in rows' \ LegacyRows : /\ r.owner \in Request /\ pc'[r.owner] = "stored"
                                      /\ r.year = counted'[r.owner] /\ r.n = number'[r.owner]
    <3> TAKE r \in rows' \ LegacyRows
    <3>1. CASE r = row
      BY <1>1, <1>2, <1>4, <3>1 DEF y, n
    <3>2. CASE r \in rows
      BY <1>1, <1>2, <3>2 DEF RowsAreIssued
    <3> QED BY <1>7, <3>1, <3>2
  <2>3. GivenRefIsOwn'
    <3> SUFFICES ASSUME NEW r \in Request, pc'[r] \in {"stored", "ignored"}
                 PROVE  [year |-> refYear[r], n |-> number[r], owner |-> r] \in rows'
      BY <1>1 DEF GivenRefIsOwn, Owned
    <3>1. CASE r = q
      BY <1>1, <3>1 DEF row
    <3>2. CASE r # q
      BY <1>2, <1>7, <3>2 DEF RowsAreIssued, GivenRefIsOwn, Owned
    <3> QED BY <3>1, <3>2
  <2> QED BY <2>1, <2>2, <2>3 DEF RowsAreIssued
<1>9. CountersCoverRows'
  <2>1. ASSUME NEW r \in rows' PROVE r.n <= counter'[y]
    <3>1. CASE r = row
      BY <1>4, <1>6, <3>1
    <3>2. CASE r \in rows
      <4>1. r.n \in Nat /\ r.year = y
        BY <1>2, <1>4, <3>2, RowTyped
      <4>2. CASE OwnTransaction(q)
        <5>1. counter[y] # NoRow
          BY <1>3, <1>5, <4>2 DEF NoRow
        <5>2. r.n <= counter[y]
          BY <1>2, <1>3, <3>2, <4>1, <5>1, NumbersAreThose DEF CountersCoverRows
        <5> QED BY <1>6, <4>1, <5>2
      <4>3. CASE ~OwnTransaction(q)
        <5>1. r.n < NextCounter(q)
          BY <1>2, <3>2, <4>1, NextIsNew DEF y
        <5>2. counter'[y] = NextCounter(q)
          BY <1>5, <4>3
        <5> QED BY <1>3, <1>6, <4>1, <5>1, <5>2
      <4> QED BY <4>2, <4>3
    <3> QED BY <1>7, <3>1, <3>2
  <2>2. \A m \in NumbersOf(y)' : m <= counter'[y]
    BY <2>1 DEF NumbersOf
  <2> QED BY <1>4, <1>6, <2>2 DEF CountersCoverRows, NoRow
<1>10. ReadingsCoverLegacy'
  <2>1. \A r \in Request : pc'[r] \in ActivePcs => pc[r] \in ActivePcs
    BY <1>2
  <2> QED BY <1>1, <1>7, <2>1, ReadingsStay DEF OverlapInv
<1>11. NumbersAreIssuedOnce'
  <2>1. Issued' = Issued /\ Issued \subseteq Request
    BY <1>1, <1>2 DEF Issued
  <2>2. \A r \in Request : HoldsCounter(r, y)' => r # q /\ HoldsCounter(r, y)
    BY <1>1, <1>2, <1>6 DEF HoldsCounter, OwnTransaction
  <2>3. \A r \in Request \ {q} : HoldsCounter(r, y) => HoldsCounter(r, y)'
    BY <1>1, <1>2, <1>6 DEF HoldsCounter, OwnTransaction
  <2>4. \A r \in Request : HoldsCounter(r, y)' => OwnTransaction(q)
    BY <1>2, <1>3, <1>5, <2>2 DEF NumbersAreIssuedOnce
  <2>5. ASSUME NEW r \in Issued
        PROVE  /\ number[r] > 0
               /\ \A l \in LegacyRows : l.year = y => l.n < number[r]
               /\ IF HoldsCounter(r, y)' THEN number[r] = NextCounter(r)' ELSE number[r] <= counter'[y]
    <3>1. /\ r \in Request /\ number[r] \in Int /\ number[r] > 0 /\ counted[r] = y
          /\ \A l \in LegacyRows : l.year = y => l.n < number[r]
          /\ IF HoldsCounter(r, y) THEN number[r] = NextCounter(r) ELSE number[r] <= counter[y]
      BY <1>2, <1>4, <2>1 DEF NumbersAreIssuedOnce, TypeOK
    <3>2. CASE HoldsCounter(r, y)'
      <4>1. number[r] = NextCounter(r) /\ counter'[y] = counter[y]
        BY <1>5, <2>2, <2>4, <3>1, <3>2
      <4>2. NextCounter(r)' = NextCounter(r)
        BY <1>1, <3>1, <4>1 DEF NextCounter
      <4> QED BY <3>1, <3>2, <4>1, <4>2
    <3>3. CASE ~HoldsCounter(r, y)'
      <4>1. CASE r = q
        BY <1>6, <3>1, <3>3, <4>1 DEF n
      <4>2. CASE r # q
        BY <1>6, <2>3, <3>1, <3>3, <4>2
      <4> QED BY <4>1, <4>2
    <3> QED BY <3>2, <3>3
  <2>6. \A r \in Request : pc'[r] \in {"new", "floored"} => number'[r] = NoNumber
    BY <1>1, <1>2 DEF NumbersAreIssuedOnce
  <2>7. \A r, s \in Request : \A z \in Year : HoldsCounter(r, z)' /\ HoldsCounter(s, z)' => r = s
    BY <1>2, <1>3, <1>4, <1>6, <2>2 DEF NumbersAreIssuedOnce
  <2>8. \A r \in Issued' :
          /\ number'[r] > 0
          /\ \A l \in LegacyRows : l.year = counted'[r] => l.n < number'[r]
          /\ IF HoldsCounter(r, counted[r])' THEN number'[r] = NextCounter(r)'
             ELSE number'[r] <= counter'[counted'[r]]
    <3> TAKE r \in Issued'
    <3>1. r \in Issued /\ counted'[r] = y /\ number'[r] = number[r]
      BY <1>1, <1>4, <2>1
    <3>2. HoldsCounter(r, counted[r])' <=> HoldsCounter(r, y)'
      BY <1>6, <3>1
    <3> QED BY <2>5, <3>1, <3>2
  <2> QED BY <1>1, <1>2, <2>1, <2>6, <2>7, <2>8 DEF NumbersAreIssuedOnce
<1>12. ApiLosesNoNumber'
  <2> SUFFICES ASSUME NEW k \in 1..counter'[y]
               PROVE  \/ \E r \in rows' : r.year = y /\ r.n >= k /\ (r.n = k \/ r.owner = Legacy)
                      \/ \E r \in Request \ ApiRequest : counted[r] = y /\ number[r] = k
    BY <1>1, <1>4 DEF ApiLosesNoNumber
  <2>1. CASE k \in 1..counter[y]
    BY <1>2, <1>3, <1>7, <2>1 DEF ApiLosesNoNumber
  <2>2. CASE k \notin 1..counter[y]
    <3>1. ~OwnTransaction(q) /\ counter'[y] = n /\ n = NextCounter(q) /\ k > counter[y] /\ k <= n
          /\ k \in Nat \ {0}
      BY <1>3, <1>5, <1>6, <2>2
    <3>2. CASE k = n
      BY <1>1, <1>4, <3>1, <3>2
    <3>3. CASE k # n
      <4>1. n \in {counter[y] + 1, floor[q] + 1}
        BY <1>2, <3>1, NextIsAbove DEF y
      <4>2. k <= floor[q] /\ floor[q] > 0 /\ floor[q] > counter[y]
        BY <1>3, <1>6, <3>1, <3>3, <4>1
      <4>3. PICK r \in LegacyRows : r \in rows /\ r.year = y /\ r.n = floor[q]
        BY <1>2, <4>2, FloorIsAccounted DEF y
      <4>4. r.owner = Legacy /\ r \in rows'
        BY <1>7, <4>3, RefConstants
      <4> QED BY <1>3, <3>1, <4>2, <4>3, <4>4
    <3> QED BY <3>2, <3>3
  <2> QED BY <2>1, <2>2
<1> QED BY <1>1, <1>2, <1>8, <1>9, <1>10, <1>11, <1>12, SoundStep DEF OverlapInv, Sound

LEMMA OverlapStep == NoFallback /\ OverlapInv /\ [Next]_vars => OverlapInv'
<1> SUFFICES ASSUME NoFallback, OverlapInv, [Next]_vars PROVE OverlapInv'
  OBVIOUS
<1>1. CASE NewYear
  BY <1>1, OneYear DEF NewYear, NoFallback, OverlapInv
<1>2. ASSUME NEW q \in Request, ReserveFails(q) PROVE OverlapInv'
  BY <1>2 DEF ReserveFails, NoFallback, OverlapInv, TypeOK
<1>3. CASE UNCHANGED vars
  <2>1. UNCHANGED <<rows, counter, boot, seed, raise, pc, floor, counted, number, refYear>>
    BY <1>3 DEF vars, processVars, requestVars
  <2>2. /\ RowsAreIssued' /\ CountersCoverRows' /\ NumbersAreIssuedOnce' /\ ApiLosesNoNumber'
        /\ \A q \in Request : pc'[q] \in ActivePcs => pc[q] \in ActivePcs
    BY <2>1, OverlapStays
  <2>3. ReadingsCoverLegacy'
    BY <2>1, <2>2, ReadingsStay
  <2> QED BY <2>2, <2>3, SoundStep DEF OverlapInv, Sound
<1>4. ASSUME NEW q \in Request, Serve(q) PROVE OverlapInv'
  BY <1>2, <1>4, ReadFloorStep, ReserveStep, AssignRefStep, LookupStep, InsertStep DEF Serve
<1>5. ASSUME NEW p \in Process, Run(p) PROVE OverlapInv'
  BY <1>5, BackfillReadStep, BackfillCompareStep, BackfillCommitStep, CrashStep DEF Run
<1> QED BY <1>1, <1>3, <1>4, <1>5 DEF Next

-----------------------------------------------------------------------------
(* Overlapping processes, any number of them, of requests and of older     *)
(* bookings, with crashes anywhere and with or without the constraint.     *)
THEOREM OverlapInvariant ==
  ASSUME NoFallback PROVE Spec => []OverlapInv
<1>1. OverlapInv /\ [Next]_vars => OverlapInv'
  BY OverlapStep
<1> QED BY OverlapInit, <1>1, PTL DEF Spec

(* The customer who is given a reference has a booking of their own under  *)
(* it (assign_booking_ref, persistence.py:295-327; the row found by        *)
(* persistence.py:863-871 is never somebody else's).                       *)
THEOREM CustomersOwnTheirRef ==
  ASSUME NoFallback PROVE Spec => []GivenRefIsOwn
<1>1. OverlapInv => GivenRefIsOwn
  BY DEF OverlapInv, RowsAreIssued
<1> QED BY OverlapInvariant, <1>1, PTL

(* No two bookings share a reference, also before the migration that adds  *)
(* the constraint (persistence.py:256-292, db.py:309-346).                 *)
THEOREM NoTwoShareARef ==
  ASSUME NoFallback PROVE Spec => []RefsAreUnique
<1>1. OverlapInv => RefsAreUnique
  <2> SUFFICES ASSUME OverlapInv, NEW r \in rows, NEW s \in rows, r.year = s.year, r.n = s.n
               PROVE  r = s
    BY DEF RefsAreUnique
  <2>1. /\ r \in [year : Year, n : Nat \ {0}, owner : Request \cup {Legacy}]
        /\ s \in [year : Year, n : Nat \ {0}, owner : Request \cup {Legacy}]
    BY DEF OverlapInv, TypeOK
  <2>2. CASE r \in LegacyRows /\ s \in LegacyRows
    BY <2>2, RefConstants
  <2>3. ASSUME NEW a \in LegacyRows, NEW b \in rows \ LegacyRows, b.year = a.year, b.n = a.n
        PROVE  FALSE
    <3>1. b.owner \in Issued /\ b.year = counted[b.owner] /\ b.n = number[b.owner]
      BY DEF OverlapInv, RowsAreIssued, Issued
    <3>2. a.n < number[b.owner]
      BY <2>3, <3>1 DEF OverlapInv, NumbersAreIssuedOnce
    <3>3. a.n \in Int
      BY RefConstants
    <3> QED BY <2>3, <3>1, <3>2, <3>3
  <2>4. CASE r \notin LegacyRows /\ s \notin LegacyRows
    <3>1. /\ r.owner \in Issued /\ r.year = counted[r.owner] /\ r.n = number[r.owner]
          /\ s.owner \in Issued /\ s.year = counted[s.owner] /\ s.n = number[s.owner]
      BY <2>4 DEF OverlapInv, RowsAreIssued, Issued
    <3>2. r.owner = s.owner
      BY <3>1 DEF OverlapInv, NumbersAreIssuedOnce
    <3> QED BY <2>1, <3>2
  <2> QED BY <2>2, <2>3, <2>4
<1> QED BY OverlapInvariant, <1>1, PTL

(* The API gives back the number of a request that fails: every number up  *)
(* to a counter is of an older row, of a stored booking or was reserved by *)
(* the WhatsApp handler, in a transaction of its own.                      *)
THEOREM ApiGivesNumbersBack ==
  ASSUME NoFallback PROVE Spec => []ApiLosesNoNumber
<1>1. OverlapInv => ApiLosesNoNumber
  BY DEF OverlapInv
<1> QED BY OverlapInvariant, <1>1, PTL

(* What is reserved is above everything stored for its year, by whichever    *)
(* process, also since the floor was read (_next_booking_ref_counter,        *)
(* persistence.py:256-292).                                                  *)
THEOREM ReservedIsAbove ==
  ASSUME NoFallback PROVE Spec => ReservedAboveStored
<1>1. OverlapInv /\ [Next]_vars =>
        [\A q \in Request : Reserve(q) => \A n \in NumbersOf(counted[q]) : n < number'[q]]_vars
  <2> SUFFICES ASSUME OverlapInv, NEW q \in Request, Reserve(q), NEW n \in NumbersOf(counted[q])
               PROVE  n < number'[q]
    OBVIOUS
  <2>1. TypeOK /\ CountersCoverRows /\ ReadingsCoverLegacy
    BY DEF OverlapInv
  <2>2. pc[q] = "floored" /\ number'[q] = NextCounter(q) /\ counted[q] \in Year
    BY <2>1 DEF Reserve, TypeOK
  <2>3. /\ NextCounter(q) > floor[q] /\ NextCounter(q) > counter[counted[q]]
        /\ NextCounter(q) \in Int /\ floor[q] \in Int /\ counter[counted[q]] \in Int
    BY <2>1, <2>2, NextIsAbove DEF TypeOK, NoRow
  <2>4. n \in Int
    BY <2>1, NumbersTyped
  <2>5. CASE counter[counted[q]] # NoRow
    BY <2>1, <2>2, <2>3, <2>4, <2>5 DEF CountersCoverRows
  <2>6. CASE counter[counted[q]] = NoRow
    <3>1. PICK r \in rows : r.year = counted[q] /\ r.n = n
      BY NumbersAreThose
    <3>2. r \in LegacyRows
      BY <2>1, <2>2, <2>6, <3>1 DEF CountersCoverRows
    <3>3. Covers(floor[q], counted[q])
      BY <2>1, <2>2 DEF ReadingsCoverLegacy, ActivePcs
    <3>4. n <= floor[q]
      BY <3>1, <3>2, <3>3 DEF Covers
    <3> QED BY <2>2, <2>3, <2>4, <3>4
  <2> QED BY <2>5, <2>6
<1> QED BY OverlapInvariant, <1>1, PTL DEF Spec, ReservedAboveStored

=============================================================================
