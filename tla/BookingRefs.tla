----------------------------- MODULE BookingRefs -----------------------------
(***************************************************************************)
(* How a booking gets its EW-YYYY-#### reference and its row: the yearly   *)
(* counter of persistence.assign_booking_ref, the process-local counter of *)
(* booking.Booking.assign_ref it falls back to, the insert of              *)
(* persistence.persist_confirmed_booking, and the counter backfill every   *)
(* process runs when it opens the database (db.init_db).                   *)
(*                                                                         *)
(* A process serves one request at a time (no await between the first and  *)
(* the last step below), but processes overlap during a redeploy, and the  *)
(* statements of their transactions interleave (READ COMMITTED): one       *)
(* action per statement that another process can come between.             *)
(*                                                                         *)
(* The WhatsApp handler reserves the number in one transaction and stores  *)
(* the booking in a second one.  The API does both in one transaction: it  *)
(* keeps the lock on the counter row from the reservation to the commit,   *)
(* and nothing of it is visible before.                                    *)
(***************************************************************************)
EXTENDS Integers, FiniteSets

CONSTANTS
  Process,        \* server processes
  NoProcess,      \* no server yet
  Request,        \* bookings customers confirm
  ApiRequest,     \* the ones that come through POST /api/v1/bookings
  LegacyRows,     \* booking rows older than the counter table
  Legacy,         \* owner of those rows
  UniqueRef,      \* is the constraint uq_bookings_ref of the migrations there
  LastYear,       \* bound: the clock goes through the years 1..LastYear
  MaxDbFailures   \* bound: reservations that fail

Year == 1..LastYear

ASSUME RefConstants ==
  /\ ApiRequest \subseteq Request
  /\ Legacy \notin Request /\ NoProcess \notin Process
  /\ LastYear \in Nat \ {0}
  /\ LegacyRows \subseteq [year : {1}, n : Nat \ {0}, owner : {Legacy}]  \* none of the future
  /\ \A r, s \in LegacyRows : r.year = s.year /\ r.n = s.n => r = s
  /\ UniqueRef \in BOOLEAN
  /\ MaxDbFailures \in Nat

NoRow == -1    \* no row of booking_ref_counters for that year
NoNumber == 0  \* assign_ref gets counter_value=None

VARIABLES
  rows,        \* committed bookings: year and number of the ref, owner
  counter,     \* committed booking_ref_counters.last_counter, per year
  year,        \* the clock
  boot,        \* "down", "read", "compared" or "up", per process
  seed,        \* the backfill's counters: highest number seen, per year
  raise,       \* the counter rows the backfill will insert or update
  memory,      \* booking._counter, per process
  pc,          \* where each request is
  server,      \* the process that serves it
  floor,       \* existing_floor of its reservation
  counted,     \* the year of the counter it uses
  number,      \* the number it was given
  refYear,     \* the year in its reference
  dbFailures   \* reservations that failed so far

dbVars == <<rows, counter>>
processVars == <<boot, seed, raise, memory>>
requestVars == <<pc, server, floor, counted, number, refYear>>
vars == <<rows, counter, year, processVars, requestVars, dbFailures>>

Boots == {"down", "read", "compared", "up"}
Pcs == {"new", "floored", "reserved", "assigned", "inserting",
        "stored", "ignored", "failed"}
ActivePcs == {"floored", "reserved", "assigned", "inserting"}

\* The numbers of a year's refs, and what _max_ref_counter makes of them.
NumbersOf(y) == {r.n : r \in {s \in rows : s.year = y}}
IsHighest(m, y) ==
  /\ m \in NumbersOf(y) \cup {0}
  /\ \A n \in NumbersOf(y) : n <= m

Larger(a, b) == IF a > b THEN a ELSE b

TypeOK ==
  /\ rows \subseteq [year : Year, n : Nat \ {0}, owner : Request \cup {Legacy}]
  /\ counter \in [Year -> Nat \cup {NoRow}]
  /\ year \in Year
  /\ boot \in [Process -> Boots]
  /\ seed \in [Process -> [Year -> Nat]]
  /\ raise \in [Process -> SUBSET (Year \X {"insert", "update"})]
  /\ memory \in [Process -> Nat]
  /\ pc \in [Request -> Pcs]
  /\ server \in [Request -> Process \cup {NoProcess}]
  /\ floor \in [Request -> Nat]
  /\ counted \in [Request -> Year]
  /\ number \in [Request -> Nat]
  /\ refYear \in [Request -> Year]
  /\ dbFailures \in 0..MaxDbFailures

Init ==
  /\ rows = LegacyRows
  /\ counter = [y \in Year |-> NoRow]
  /\ year = 1
  /\ boot = [p \in Process |-> "down"]
  /\ seed = [p \in Process |-> [y \in Year |-> 0]]
  /\ raise = [p \in Process |-> {}]
  /\ memory = [p \in Process |-> 0]
  /\ pc = [q \in Request |-> "new"]
  /\ server = [q \in Request |-> NoProcess]
  /\ floor = [q \in Request |-> 0]
  /\ counted = [q \in Request |-> 1]
  /\ number = [q \in Request |-> NoNumber]
  /\ refYear = [q \in Request |-> 1]
  /\ dbFailures = 0

-----------------------------------------------------------------------------
(* Transactions and locks. *)

\* The WhatsApp reservation commits by itself.  Fault: so does the API's.
AlwaysOwnTransaction(q) == TRUE
OwnTransaction(q) == q \notin ApiRequest

\* An API request holds the counter row of its year from the reservation to
\* the end of its transaction.
HoldsCounter(q, y) ==
  /\ ~OwnTransaction(q)
  /\ pc[q] \in {"reserved", "assigned", "inserting"}
  /\ counted[q] = y

\* Fault: the lock goes with the statement, not with the transaction.
CounterAlwaysFree(y) == TRUE

CounterFree(y) == \A q \in Request : ~HoldsCounter(q, y)

-----------------------------------------------------------------------------
(* Process start: _backfill_booking_ref_counters. *)

BackfillRead(p) ==
  /\ boot[p] = "down"
  /\ boot' = [boot EXCEPT ![p] = "read"]
  /\ \E highest \in [Year -> {0} \cup {r.n : r \in rows}] :
       /\ \A y \in Year : IsHighest(highest[y], y)
       /\ seed' = [seed EXCEPT ![p] = highest]
  /\ UNCHANGED <<dbVars, year, raise, memory, requestVars, dbFailures>>

\* The counters the backfill finds below the refs it read.  Fault: it does not
\* compare.
SeenAtAll(p, y) == seed[p][y] > 0
Behind(p, y) == seed[p][y] > 0 /\ counter[y] < seed[p][y]

\* session.get of each counter row, and the comparison.
BackfillCompare(p) ==
  /\ boot[p] = "read"
  /\ boot' = [boot EXCEPT ![p] = "compared"]
  /\ raise' = [raise EXCEPT ![p] =
                 {<<y, IF counter[y] = NoRow THEN "insert" ELSE "update">> :
                    y \in {z \in Year : Behind(p, z)}}]
  /\ UNCHANGED <<dbVars, year, seed, memory, requestVars, dbFailures>>

Raised(p) == {y \in Year : \E how \in {"insert", "update"} : <<y, how>> \in raise[p]}

\* The commit writes the values computed before.  A row that another process
\* inserted meanwhile makes init_db raise; the next use of the database starts
\* it again.
BackfillCommit(p) ==
  LET overtaken == \E y \in Year : <<y, "insert">> \in raise[p] /\ counter[y] # NoRow
  IN /\ boot[p] = "compared"
     /\ \A y \in Raised(p) : CounterFree(y)
     /\ counter' = IF overtaken THEN counter
                   ELSE [y \in Year |-> IF y \in Raised(p) THEN seed[p][y]
                                        ELSE counter[y]]
     /\ boot' = [boot EXCEPT ![p] = IF overtaken THEN "down" ELSE "up"]
     /\ UNCHANGED <<rows, year, seed, raise, memory, requestVars, dbFailures>>

\* The process dies: a request it serves is lost, an open transaction is
\* rolled back, and the in-memory counter starts from zero again.
Crash(p) ==
  /\ boot[p] # "down"
  /\ boot' = [boot EXCEPT ![p] = "down"]
  /\ memory' = [memory EXCEPT ![p] = 0]
  /\ pc' = [q \in Request |->
              IF pc[q] \in ActivePcs /\ server[q] = p THEN "failed" ELSE pc[q]]
  /\ UNCHANGED <<dbVars, year, seed, raise, server, floor, counted, number,
                 refYear, dbFailures>>

-----------------------------------------------------------------------------
(* A request. *)

Serving(p) == \E q \in Request : pc[q] \in ActivePcs /\ server[q] = p

\* assign_booking_ref reads the year and the refs already stored for it.
ReadFloor(q, p) ==
  /\ pc[q] = "new"
  /\ boot[p] = "up" /\ ~Serving(p)
  /\ pc' = [pc EXCEPT ![q] = "floored"]
  /\ server' = [server EXCEPT ![q] = p]
  /\ counted' = [counted EXCEPT ![q] = year]
  /\ \E m \in NumbersOf(year) \cup {0} :
       /\ IsHighest(m, year)
       /\ floor' = [floor EXCEPT ![q] = m]
  /\ UNCHANGED <<dbVars, year, processVars, number, refYear, dbFailures>>

\* Fault: the reservation trusts the refs alone.
NextCounterFromFloor(q) == floor[q] + 1

\* last_counter after the insert-on-conflict and the update of
\* _next_booking_ref_counter.
NextCounter(q) == Larger(counter[counted[q]], floor[q]) + 1

Reserve(q) ==
  /\ pc[q] = "floored"
  /\ CounterFree(counted[q])
  /\ pc' = [pc EXCEPT ![q] = "reserved"]
  /\ number' = [number EXCEPT ![q] = NextCounter(q)]
  /\ counter' = IF OwnTransaction(q)
                THEN [counter EXCEPT ![counted[q]] = NextCounter(q)]
                ELSE counter
  /\ UNCHANGED <<rows, year, processVars, server, floor, counted, refYear,
                 dbFailures>>

\* Fault: the API falls back to the process counter too.
ReserveFallsBack(q) ==
  /\ pc[q] = "floored"
  /\ dbFailures < MaxDbFailures
  /\ dbFailures' = dbFailures + 1
  /\ pc' = [pc EXCEPT ![q] = "reserved"]
  /\ number' = [number EXCEPT ![q] = NoNumber]
  /\ UNCHANGED <<dbVars, year, processVars, server, floor, counted, refYear>>

\* The database fails the reservation: the API transaction is rolled back, the
\* WhatsApp handler goes on with the counter of its process.
ReserveFails(q) ==
  /\ pc[q] = "floored"
  /\ dbFailures < MaxDbFailures
  /\ dbFailures' = dbFailures + 1
  /\ pc' = [pc EXCEPT ![q] = IF q \in ApiRequest THEN "failed" ELSE "reserved"]
  /\ number' = [number EXCEPT ![q] = NoNumber]
  /\ UNCHANGED <<dbVars, year, processVars, server, floor, counted, refYear>>

\* Fault: a missing number is not replaced.
NumberAsGiven(q) == number[q]

\* counter_value, or the next number of the process.
NumberFor(q) ==
  IF number[q] = NoNumber THEN memory[server[q]] + 1 ELSE number[q]

\* Booking.assign_ref: a second reading of the clock, and the process counter.
AssignRef(q) ==
  LET p == server[q]
      n == NumberFor(q)
  IN /\ pc[q] = "reserved"
     /\ pc' = [pc EXCEPT ![q] = "assigned"]
     /\ number' = [number EXCEPT ![q] = n]
     /\ memory' = [memory EXCEPT ![p] = Larger(@, n)]
     /\ refYear' = [refYear EXCEPT ![q] = year]
     /\ UNCHANGED <<dbVars, year, boot, seed, raise, server, floor, counted,
                    dbFailures>>

Taken(q) == \E r \in rows : r.year = refYear[q] /\ r.n = number[q]

\* What an API commit makes visible of the counter.
CommitCounter(q) ==
  counter' = IF OwnTransaction(q) THEN counter
             ELSE [counter EXCEPT ![counted[q]] = number[q]]

\* _persist_confirmed_booking_in_session looks the reference up first; the row
\* it finds is returned as if it were the caller's.
Lookup(q) ==
  /\ pc[q] = "assigned"
  /\ IF Taken(q)
     THEN pc' = [pc EXCEPT ![q] = "ignored"] /\ CommitCounter(q)
     ELSE pc' = [pc EXCEPT ![q] = "inserting"] /\ UNCHANGED counter
  /\ UNCHANGED <<rows, year, processVars, server, floor, counted, number,
                 refYear, dbFailures>>

\* The insert and the commit.  The constraint refuses a reference that was
\* stored since the lookup, and the exception rolls the transaction back.
Insert(q) ==
  /\ pc[q] = "inserting"
  /\ IF UniqueRef /\ Taken(q)
     THEN pc' = [pc EXCEPT ![q] = "failed"] /\ UNCHANGED dbVars
     ELSE /\ pc' = [pc EXCEPT ![q] = "stored"]
          /\ rows' = rows \cup {[year |-> refYear[q], n |-> number[q],
                                 owner |-> q]}
          /\ CommitCounter(q)
  /\ UNCHANGED <<year, processVars, server, floor, counted, number, refYear,
                 dbFailures>>

NewYear ==
  /\ year < LastYear
  /\ year' = year + 1
  /\ UNCHANGED <<dbVars, processVars, requestVars, dbFailures>>

-----------------------------------------------------------------------------

Serve(q) ==
  \/ \E p \in Process : ReadFloor(q, p)
  \/ Reserve(q) \/ ReserveFails(q) \/ AssignRef(q) \/ Lookup(q) \/ Insert(q)

Run(p) == BackfillRead(p) \/ BackfillCompare(p) \/ BackfillCommit(p) \/ Crash(p)

Next ==
  \/ \E q \in Request : Serve(q)
  \/ \E p \in Process : Run(p)
  \/ NewYear

Spec == Init /\ [][Next]_vars

-----------------------------------------------------------------------------
(* Properties. *)

Owned(q) ==
  pc[q] \in {"stored", "ignored"} =>
    [year |-> refYear[q], n |-> number[q], owner |-> q] \in rows

\* A customer who is given a reference has a booking of their own under it:
\* the row found by Lookup is never somebody else's ("so a fresh process does
\* not reuse EW-YYYY-0001 and get ignored as an existing persisted row").
GivenRefIsOwn == \A q \in Request : Owned(q)

\* The same for customers of the API, whose reservation never falls back: with
\* one server process it holds through failed reservations and New Year.
ApiRefIsOwn == \A q \in ApiRequest : Owned(q)

\* No two bookings share a reference, with or without the constraint.
RefsAreUnique ==
  \A r, s \in rows : r.year = s.year /\ r.n = s.n => r = s

\* A reservation is above everything stored for its year, also by the other
\* process, and also since its own floor was read.
ReservedAboveStored ==
  [][\A q \in Request :
       Reserve(q) => \A n \in NumbersOf(counted[q]) : n < number'[q]]_vars

\* With one server process no step takes a counter back: neither the backfill
\* that raises a counter row below the refs, which reservations that fell back
\* to the process counter leave behind, nor the one that finds a counter above
\* them, left by requests that died between reservation and insert.
CounterNeverFalls ==
  [][\A y \in Year : counter'[y] >= counter[y]]_vars

\* Numbers are lost only where the reservation is a transaction of its own: an
\* API request that fails after its reservation gives the number back.
ApiLosesNoNumber ==
  \A y \in Year : \A n \in 1..counter[y] :
    \/ \E r \in rows : r.year = y /\ r.n >= n /\ (r.n = n \/ r.owner = Legacy)
    \/ \E q \in Request \ ApiRequest : counted[q] = y /\ number[q] = n

-----------------------------------------------------------------------------
(* The invariants they follow from.  In any case: *)

RequestsAreServed ==
  \A q \in Request :
    /\ pc[q] \in ActivePcs => server[q] \in Process
    /\ pc[q] \in {"assigned", "inserting"} => number[q] # NoNumber

(* While no reservation fails and the year does not turn, however many
   processes overlap: *)

\* Requests whose number is theirs: they keep it until they fail.
Issued == {q \in Request : pc[q] \in {"reserved", "assigned", "inserting", "stored"}}

\* A row is older than the counters or is the row of a stored request.
RowsAreIssued ==
  /\ LegacyRows \subseteq rows
  /\ \A r \in rows \ LegacyRows : /\ r.owner \in Request /\ pc[r.owner] = "stored"
                                 /\ r.year = counted[r.owner] /\ r.n = number[r.owner]
  /\ \A q \in Request : pc[q] # "ignored"
  /\ GivenRefIsOwn

\* A counter row that exists is at or above every reference of its year.
CountersCoverRows ==
  \A y \in Year : IF counter[y] = NoRow
                  THEN \A r \in rows : r.year = y => r \in LegacyRows
                  ELSE \A n \in NumbersOf(y) : n <= counter[y]

\* What was read of the references, however long ago, covers the older rows,
\* and a backfill only ever has counters to insert.
Covers(m, y) ==
  /\ m \in NumbersOf(y) \cup {0}
  /\ \A r \in LegacyRows : r.year = y => r.n <= m

ReadingsCoverLegacy ==
  /\ \A q \in Request : pc[q] \in ActivePcs => Covers(floor[q], counted[q])
  /\ \A p \in Process : boot[p] \in {"read", "compared"} =>
       \A y \in Year : Covers(seed[p][y], y)
  /\ \A p \in Process : boot[p] = "compared" =>
       \A y \in Year : <<y, "update">> \notin raise[p]

\* A number belongs to one request.  It is at or below the counter, unless its
\* transaction is still open: then it is the next one, and nobody else's is.
NumbersAreIssuedOnce ==
  /\ \A q \in Request : pc[q] \in {"new", "floored"} => number[q] = NoNumber
  /\ \A q \in Issued :
       /\ number[q] > 0
       /\ \A r \in LegacyRows : r.year = counted[q] => r.n < number[q]
       /\ IF HoldsCounter(q, counted[q]) THEN number[q] = NextCounter(q)
          ELSE number[q] <= counter[counted[q]]
  /\ \A q, r \in Issued : counted[q] = counted[r] /\ number[q] = number[r] => q = r
  /\ \A q, r \in Request : \A y \in Year : HoldsCounter(q, y) /\ HoldsCounter(r, y) => q = r

OverlapInv ==
  /\ TypeOK /\ RequestsAreServed
  /\ RowsAreIssued /\ CountersCoverRows /\ ReadingsCoverLegacy /\ NumbersAreIssuedOnce
  /\ ApiLosesNoNumber

(* While one process serves, whatever fails and whenever the year turns:
   nothing is stored between the reading of the floor and the insert. *)
OneByOne ==
  /\ \A q, r \in Request : pc[q] \in ActivePcs /\ pc[r] \in ActivePcs => q = r
  /\ \A r \in rows : r.year <= year
  /\ \A q \in Request : pc[q] \in ActivePcs =>
       counted[q] <= year /\ \A r \in rows : r.year <= counted[q]
  /\ \A q \in Request : pc[q] = "floored" => \A n \in NumbersOf(counted[q]) : n <= floor[q]
  /\ \A q \in Request : pc[q] \in {"assigned", "inserting"} => refYear[q] <= year
  /\ \A q \in ApiRequest :
       /\ pc[q] = "reserved" => number[q] > 0 /\ \A n \in NumbersOf(counted[q]) : n < number[q]
       /\ pc[q] \in {"assigned", "inserting"} => ~Taken(q)
       /\ pc[q] # "ignored"
  /\ ApiRefIsOwn

SerialInv == TypeOK /\ RequestsAreServed /\ OneByOne

(* Under the same condition, what keeps the counters from falling: a backfill
   runs while no request does, what it writes is above what it found, and the
   number of an open API transaction is above the counter it will replace. *)
Rising ==
  /\ \A q \in Request : pc[q] \in ActivePcs => boot[server[q]] = "up"
  /\ \A p \in Process : boot[p] = "compared" =>
       \A y \in Raised(p) : counter[y] < seed[p][y]
  /\ \A q \in ApiRequest : pc[q] \in {"reserved", "assigned", "inserting"} =>
       number[q] > counter[counted[q]]

=============================================================================
