---------------------------- MODULE CustomerData ----------------------------
(***************************************************************************)
(* What the database keeps about one customer, and its erasure             *)
(* (app/persistence.py: contact, funnel stage, identity, tokens, booking   *)
(* list, anonymize_customer; the routes of app/api.py and app/admin.py     *)
(* that call them).  Erasing renames the customer to a tombstone derived   *)
(* from the phone and clears details of the bookings; the phone may come   *)
(* back and be erased again, into the same tombstone.                      *)
(*                                                                         *)
(* details stands for the fields of a booking that the erasure clears:     *)
(* name, car, color, addresses, coordinates, note and the raw booking.     *)
(* bookings.geo, the home pin as text, is not among them: it outlives      *)
(* every erasure, and nothing here speaks of it.                           *)
(*                                                                         *)
(* A process serves one request at a time between two awaits, so requests  *)
(* only interleave across the processes that overlap during a deployment.  *)
(* The erasure is one transaction at READ COMMITTED: "cut" is where it has *)
(* deleted and cleared what it found,  "finish" where it renames and       *)
(* commits.  Rows the cut deleted stay locked until then: whoever updates  *)
(* one waits; whoever inserts a new row does not.                          *)
(***************************************************************************)
EXTENDS Integers, Sequences, FiniteSets

CONSTANTS
  Procs,        \* overlapping server processes
  Tokens,       \* tokens that can be minted
  NoToken,      \* no token: nobody walks the booking list
  MaxEra,       \* bound: erasures begun and ended
  MaxBookings,  \* bound: bookings of the phone
  MaxTime,      \* bound: creation times of bookings
  PageSize      \* bookings on a page of the list

ASSUME BoundsAssumption ==
  /\ NoToken \notin Tokens
  /\ MaxEra \in Nat /\ MaxBookings \in Nat
  /\ MaxTime \in Nat \ {0} /\ PageSize \in Nat \ {0}

Owners == {"none",  \* a token not minted yet
           "live",  \* a row of the phone
           "tomb",  \* a row of the tombstone
           "gone"}  \* a token deleted: its value never comes back
Kinds == {"identity",  \* a name or a vehicle: always deleted together
          "session"}   \* a conversation session with its events

VARIABLES
  era,       \* erasures begun plus erasures ended: odd while one is under way
  tombEra,   \* the era that began with the first committed erasure, 0 before
  doneEra,   \* the era that began with the last committed erasure, 0 before
  customer,  \* the customers row of the phone exists
  profile,   \* identity and session rows: [kind, owner, born]
  tokens,    \* per token: [owner, born]
  bookings,  \* by id: [created, owner, born, details]
  pc,        \* per process: what its request still has to do
  pager      \* a client that walks the booking list

vars == <<era, tombEra, doneEra, customer, profile, tokens, bookings, pc, pager>>

Top == <<MaxTime + 1, 1>>  \* no cursor: above every booking
Idle == [token |-> NoToken, phone |-> "none", cursor |-> Top,
         shown |-> {}, twice |-> {}, watched |-> {}]

ProfileRow == [kind: Kinds, owner: {"live", "tomb"}, born: 0..MaxEra]
BookingRow == [created: 1..MaxTime, owner: {"live", "tomb"}, born: 0..MaxEra, details: BOOLEAN]

TypeOK ==
  /\ era \in 0..MaxEra /\ tombEra \in 0..MaxEra /\ doneEra \in 0..MaxEra
  /\ customer \in BOOLEAN
  /\ profile \subseteq ProfileRow
  /\ tokens \in [Tokens -> [owner: Owners, born: 0..MaxEra]]
  /\ bookings \in Seq(BookingRow) /\ Len(bookings) <= MaxBookings
  /\ pc \in [Procs -> {"idle", "mint_live", "mint_tomb", "erasing"}]
  /\ pager \in [token: Tokens \cup {NoToken}, phone: Owners, cursor: (1..(MaxTime + 1)) \X Nat,
                 shown: SUBSET (1..MaxBookings), twice: SUBSET (1..MaxBookings),
                 watched: SUBSET (1..MaxBookings)]

Init ==
  /\ era = 0 /\ tombEra = 0 /\ doneEra = 0
  /\ customer = FALSE
  /\ profile = {}
  /\ tokens = [t \in Tokens |-> [owner |-> "none", born |-> 0]]
  /\ bookings = <<>>
  /\ pc = [p \in Procs |-> "idle"]
  /\ pager = Idle

-----------------------------------------------------------------------------
Erasing == era % 2 = 1

(* Rows of the phone that the erasure under way has deleted or cleared:    *)
(* all that were there when it began.                                      *)
Cut(row) == Erasing /\ row.owner = "live" /\ row.born < era
Fresh(row) == row.owner = "live" /\ row.born = era

Row(kind) == [kind |-> kind, owner |-> "live", born |-> era]
(* A row of each kind is found, or inserted next to the ones being deleted.*)
Keep(kinds) ==
  profile' = profile \cup {Row(k) : k \in {k \in kinds :
                              \A r \in profile : r.kind = k => Cut(r) \/ r.owner # "live"}}

(* A message or a funnel step of the phone creates its customers row.      *)
Contact(p) ==
  /\ pc[p] = "idle"
  /\ customer' = TRUE
  /\ UNCHANGED <<era, tombEra, doneEra, profile, tokens, bookings, pc, pager>>

BotStage(p) ==
  /\ pc[p] = "idle"
  /\ customer' = TRUE
  /\ Keep({"session"})
  /\ UNCHANGED <<era, tombEra, doneEra, tokens, bookings, pc, pager>>

(* The name, and the vehicle once it is known, before the confirmation.    *)
Identify(p) ==
  /\ pc[p] = "idle"
  /\ customer' = TRUE
  /\ Keep({"identity"})
  /\ UNCHANGED <<era, tombEra, doneEra, tokens, bookings, pc, pager>>

(* A booking is stored with its customer, name and vehicle in one          *)
(* transaction; its created_at is the time that transaction began.  The    *)
(* PWA's request then mints a token unless it brought a valid one.         *)
Book(p) ==
  /\ pc[p] = "idle"
  /\ Len(bookings) < MaxBookings
  /\ \E at \in 1..MaxTime :
       bookings' = Append(bookings, [created |-> at, owner |-> "live", born |-> era, details |-> TRUE])
  /\ customer' = TRUE
  /\ Keep({"identity"})
  /\ \E next \in {"idle", "mint_live"} : pc' = [pc EXCEPT ![p] = next]
  /\ UNCHANGED <<era, tombEra, doneEra, tokens, pager>>

-----------------------------------------------------------------------------
(* Tokens.  Verifying one stamps last_used_at, so it waits for an erasure  *)
(* that is deleting it.                                                    *)
Verified(t) == tokens[t].owner \in {"live", "tomb"} /\ ~Cut(tokens[t])
Forgotten == [owner |-> "revoked", born |-> era]
Gone == [owner |-> "gone", born |-> 0]

(* Minting needs the customers row the phone names: after an erasure the   *)
(* insert violates its foreign key and the request fails.                  *)
Mint(p) ==
  /\ pc[p] \in {"mint_live", "mint_tomb"}
  /\ pc' = [pc EXCEPT ![p] = "idle"]
  /\ LET owner == IF pc[p] = "mint_live" THEN "live" ELSE "tomb"
     IN IF owner = "live" /\ ~customer
        THEN UNCHANGED tokens
        ELSE \E t \in Tokens : /\ tokens[t].owner = "none"
                               /\ tokens' = [tokens EXCEPT ![t] = [owner |-> owner, born |-> era]]
  /\ UNCHANGED <<era, tombEra, doneEra, customer, profile, bookings, pager>>

(* Scope "current": the calling token is deleted.                          *)
Revoke(p, t) ==
  /\ pc[p] = "idle" /\ Verified(t)
  /\ tokens' = [tokens EXCEPT ![t] = Gone]
  /\ UNCHANGED <<era, tombEra, doneEra, customer, profile, bookings, pc, pager>>

(* Scope "all": every token of the phone the calling one belongs to, then  *)
(* a new one is minted.                                                    *)
RevokeAll(p, t) ==
  /\ pc[p] = "idle" /\ Verified(t)
  /\ LET phone == tokens[t].owner
     IN /\ \A u \in Tokens : tokens[u].owner = phone => ~Cut(tokens[u])
        /\ tokens' = [u \in Tokens |-> IF tokens[u].owner = phone THEN Gone ELSE tokens[u]]
        /\ pc' = [pc EXCEPT ![p] = IF phone = "live" THEN "mint_live" ELSE "mint_tomb"]
  /\ UNCHANGED <<era, tombEra, doneEra, customer, profile, bookings, pager>>

-----------------------------------------------------------------------------
(* The booking list, newest first, with the id to break ties.              *)
Key(b) == <<bookings[b].created, b>>
BelowByTime(k, l) == k[1] < l[1]
Below(k, l) == k[1] < l[1] \/ (k[1] = l[1] /\ k[2] < l[2])
Owned(phone) == {b \in DOMAIN bookings : bookings[b].owner = phone}
Listed(phone, cursor) == {b \in Owned(phone) : Below(Key(b), cursor)}

(* The page is the newest rows below the cursor.  One row more is fetched; *)
(* the cursor is the last row shown and is returned only if there was one  *)
(* more.                                                                   *)
ReadPage(phone, from) ==
  LET rows == Listed(phone, from.cursor)
  IN \E page \in SUBSET rows :
       /\ Cardinality(page) = IF Cardinality(rows) < PageSize THEN Cardinality(rows) ELSE PageSize
       /\ \A b \in page, c \in rows \ page : ~Below(Key(b), Key(c))
       /\ \/ /\ page = rows
             /\ pager' = [from EXCEPT !.token = NoToken, !.cursor = Top,
                                     !.shown = @ \cup page, !.twice = @ \cup (page \cap from.shown)]
          \/ /\ page # rows
             /\ \E last \in page :
                  /\ \A b \in page : ~Below(Key(b), Key(last))
                  /\ pager' = [from EXCEPT !.cursor = Key(last), !.shown = @ \cup page,
                                          !.twice = @ \cup (page \cap from.shown)]

ListBookings(p, t) ==
  /\ pc[p] = "idle" /\ Verified(t) /\ pager.token = NoToken
  /\ LET phone == tokens[t].owner
     IN ReadPage(phone, [Idle EXCEPT !.token = t, !.phone = phone, !.watched = Owned(phone)])
  /\ UNCHANGED <<era, tombEra, doneEra, customer, profile, tokens, bookings, pc>>

(* The next page is for the phone the token has now; a token that is gone  *)
(* gets a 401 and the walk starts over.                                    *)
NextPage(p) ==
  /\ pc[p] = "idle" /\ pager.token # NoToken
  /\ LET t == pager.token
     IN \/ Verified(t) /\ ReadPage(tokens[t].owner, pager)
        \/ tokens[t].owner = "gone" /\ pager' = Idle
  /\ UNCHANGED <<era, tombEra, doneEra, customer, profile, tokens, bookings, pc>>

-----------------------------------------------------------------------------
(* The erasure, by the customer's token or from the admin portal's list of *)
(* customers.  A second one waits for the rows of the first.  Erasing the  *)
(* tombstone itself, by a token that followed the rename into it, moves    *)
(* its bookings to a tombstone of its own; it touches no row of the phone  *)
(* and is left out.                                                        *)
EraseBegins(p) ==
  /\ pc[p] = "idle" /\ ~Erasing /\ customer
  /\ era + 2 <= MaxEra
  /\ era' = era + 1
  /\ pc' = [pc EXCEPT ![p] = "erasing"]
  /\ UNCHANGED <<tombEra, doneEra, customer, profile, tokens, bookings, pager>>

(* customer_names, customer_vehicles and conversation_sessions do not      *)
(* follow a rename: a row inserted since the cut makes it fail.  When the  *)
(* tombstone exists the customer is deleted instead, with its names,       *)
(* vehicles and tokens; only a new session stands in the way.              *)
Merging == tombEra > 0
NothingInTheWay == {}
InTheWay == {r \in profile : Fresh(r) /\ (Merging => r.kind = "session")}

ScrubAndMoveCut(b) ==
  IF Cut(b) THEN [b EXCEPT !.owner = "tomb", !.details = FALSE] ELSE b
Scrub(b) ==
  IF b.owner = "live" THEN [b EXCEPT !.owner = "tomb", !.details = ~Cut(b)] ELSE b
(* Tokens minted since the cut follow a rename and die with a merge.       *)
Bequeath(token) ==
  IF token.owner # "live" THEN token
  ELSE IF Cut(token) \/ Merging THEN Gone ELSE [token EXCEPT !.owner = "tomb"]

EraseCommits(p) ==
  /\ pc[p] = "erasing" /\ InTheWay = {}
  /\ era' = era + 1
  /\ doneEra' = era + 1
  /\ tombEra' = IF Merging THEN tombEra ELSE era + 1
  /\ customer' = FALSE
  /\ profile' = {r \in profile : r.owner # "live"}
  /\ tokens' = [t \in Tokens |-> Bequeath(tokens[t])]
  /\ bookings' = [b \in DOMAIN bookings |-> Scrub(bookings[b])]
  /\ pc' = [pc EXCEPT ![p] = "idle"]
  /\ UNCHANGED pager

(* A constraint, a lost connection or a stop of the process: nothing of    *)
(* the erasure stays.                                                      *)
EraseRollsBack(p) ==
  /\ pc[p] = "erasing"
  /\ era' = era + 1
  /\ pc' = [pc EXCEPT ![p] = "idle"]
  /\ UNCHANGED <<tombEra, doneEra, customer, profile, tokens, bookings, pager>>

(* A request that ends before its mint.                                    *)
Drop(p) ==
  /\ pc[p] \in {"mint_live", "mint_tomb"}
  /\ pc' = [pc EXCEPT ![p] = "idle"]
  /\ UNCHANGED <<era, tombEra, doneEra, customer, profile, tokens, bookings, pager>>

Next ==
  \E p \in Procs :
    \/ Contact(p) \/ BotStage(p) \/ Identify(p) \/ Book(p)
    \/ Mint(p) \/ Drop(p)
    \/ EraseBegins(p) \/ EraseCommits(p) \/ EraseRollsBack(p)
    \/ NextPage(p)
    \/ \E t \in Tokens : Revoke(p, t) \/ RevokeAll(p, t) \/ ListBookings(p, t)

Spec == Init /\ [][Next]_vars

-----------------------------------------------------------------------------
(* Once an erasure has committed, everything the database has under the    *)
(* phone came afterwards: no old name, vehicle, session, token or booking  *)
(* is found again by a customer who returns (persistence.py:2084-2174).    *)
ErasureIsComplete ==
  /\ \A r \in profile : r.owner = "live" => r.born >= doneEra
  /\ \A t \in Tokens : tokens[t].owner = "live" => tokens[t].born >= doneEra
  /\ \A b \in Owned("live") : bookings[b].born >= doneEra

(* The first erasure of a phone leaves no booking with details, also of    *)
(* those committed while it was under way: the name that comes with such a *)
(* booking makes the rename fail (persistence.py:2137-2157).  A later one  *)
(* clears what was there when it began, and moves as it is, details and    *)
(* all, what was committed since (persistence.py:2158 moves more than 2120 *)
(* read).  Names, vehicles and sessions never reach the tombstone.         *)
MovedByAMerge(b) == bookings[b].born % 2 = 1 /\ bookings[b].born > tombEra
DetailsAreCleared ==
  /\ \A r \in profile : r.owner # "tomb"
  /\ \A b \in Owned("tomb") : bookings[b].details => MovedByAMerge(b)

(* Walking the list shows no booking twice, and when it ends it has shown  *)
(* every booking that was the phone's when it began and still is, however  *)
(* creation times tie (persistence.py:1838-1861).                          *)
PagesShowAll ==
  /\ pager.twice = {}
  /\ pager.token = NoToken => pager.watched \cap Owned(pager.phone) \subseteq pager.shown
-----------------------------------------------------------------------------
(* The invariant the four above follow from.  Erasures follow each other,  *)
(* one process at a time, and none begins that cannot end.                 *)
ErasuresInOrder ==
  /\ tombEra <= doneEra /\ doneEra <= era
  /\ tombEra % 2 = 0 /\ doneEra % 2 = 0
  /\ Erasing => era < MaxEra
  /\ \A p \in Procs : pc[p] = "erasing" =>
       Erasing /\ \A q \in Procs : pc[q] = "erasing" => q = p

(* Nothing is older than the present, and before the first erasure there   *)
(* is no tombstone to hold a booking.                                      *)
BornByNow ==
  /\ \A r \in profile : r.born <= era
  /\ \A t \in Tokens : tokens[t].born <= era
  /\ \A b \in DOMAIN bookings : bookings[b].born <= era
  /\ tombEra = 0 => Owned("tomb") = {}

(* A booking committed under an erasure comes with a name that stands in   *)
(* the way of a rename: only a merge can move it with its details.         *)
BookingsHaveNames ==
  Erasing /\ (\E b \in DOMAIN bookings : Fresh(bookings[b])) =>
    \E r \in profile : r.kind = "identity" /\ Fresh(r)

(* What a walk has shown lies at or above its cursor, what is missing of   *)
(* what it watched lies below; it follows its token into the tombstone,    *)
(* where nothing of the phone's is left to show.                           *)
WalkIsSorted ==
  /\ pager.watched \cup pager.shown \subseteq DOMAIN bookings
  /\ pager.phone = "tomb" => pager.watched \subseteq Owned("tomb")
  /\ pager.token # NoToken =>
       LET owner == tokens[pager.token].owner
       IN /\ pager.phone \in {"live", "tomb"} /\ owner # "none"
          /\ \A b \in pager.shown : ~Below(Key(b), pager.cursor)
          /\ owner = pager.phone =>
               \A b \in pager.watched \cap Owned(owner) : b \in pager.shown \/ Below(Key(b), pager.cursor)
          /\ owner = "tomb" /\ pager.phone = "live" => pager.watched \cap Owned("live") = {}
          /\ ~(owner = "live" /\ pager.phone = "tomb")

IndInv ==
  /\ TypeOK /\ ErasuresInOrder /\ BornByNow /\ BookingsHaveNames
  /\ ErasureIsComplete /\ DetailsAreCleared
  /\ WalkIsSorted /\ PagesShowAll
=============================================================================
