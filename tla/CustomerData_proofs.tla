------------------------- MODULE CustomerData_proofs -------------------------
(* Erasure and the booking list: what CustomerData promises, for any       *)
(* number of processes, tokens, bookings, erasures and page sizes.         *)
EXTENDS CustomerData, TLAPS

-----------------------------------------------------------------------------
(* Operators.                                                              *)

(* The list is sorted by a strict total order: the id breaks every tie.    *)
LEMMA BelowIsOrder ==
  \A k, l, m \in (1..(MaxTime + 1)) \X Nat :
    /\ ~Below(k, k)
    /\ Below(k, l) \/ Below(l, k) \/ k = l
    /\ Below(k, l) /\ Below(l, m) => Below(k, m)
<1> SUFFICES ASSUME NEW k \in (1..(MaxTime + 1)) \X Nat, NEW l \in (1..(MaxTime + 1)) \X Nat,
                    NEW m \in (1..(MaxTime + 1)) \X Nat
             PROVE  /\ ~Below(k, k)
                    /\ Below(k, l) \/ Below(l, k) \/ k = l
                    /\ Below(k, l) /\ Below(l, m) => Below(k, m)
  OBVIOUS
<1>1. /\ k[1] \in Int /\ k[2] \in Int /\ l[1] \in Int /\ l[2] \in Int /\ m[1] \in Int /\ m[2] \in Int
      /\ k = <<k[1], k[2]>> /\ l = <<l[1], l[2]>>
  BY BoundsAssumption
<1> QED BY <1>1 DEF Below

LEMMA KeyTyped ==
  ASSUME TypeOK, NEW b \in DOMAIN bookings
  PROVE  /\ b \in 1..MaxBookings /\ bookings[b] \in BookingRow
         /\ Key(b) \in (1..(MaxTime + 1)) \X Nat
<1>1. Len(bookings) \in Nat /\ DOMAIN bookings = 1..Len(bookings) /\ b \in Nat
  BY DEF TypeOK
<1>2. b \in 1..MaxBookings /\ bookings[b] \in BookingRow
  BY <1>1, BoundsAssumption DEF TypeOK
<1>3. bookings[b].created \in 1..(MaxTime + 1)
  BY <1>2, BoundsAssumption DEF BookingRow
<1> QED BY <1>1, <1>2, <1>3 DEF Key

(* Rows found or inserted are rows of the phone or rows that were there.   *)
LEMMA KeepTyped ==
  ASSUME TypeOK, NEW kinds \in SUBSET Kinds, Keep(kinds)
  PROVE  /\ profile' \subseteq ProfileRow
         /\ profile \subseteq profile'
         /\ \A r \in profile' \ profile : r.owner = "live" /\ r.born = era
  BY DEF Keep, Row, TypeOK, ProfileRow

LEMMA KeepNames ==
  ASSUME TypeOK, BornByNow, Erasing, NEW kinds \in SUBSET Kinds, "identity" \in kinds, Keep(kinds)
  PROVE  \E r \in profile' : r.kind = "identity" /\ r.owner = "live" /\ r.born = era
<1>1. CASE \A r \in profile : r.kind = "identity" => Cut(r) \/ r.owner # "live"
  <2>1. Row("identity") \in profile'
    BY <1>1 DEF Keep
  <2> QED BY <2>1 DEF Row
<1>2. CASE ~\A r \in profile : r.kind = "identity" => Cut(r) \/ r.owner # "live"
  <2>1. PICK r \in profile : r.kind = "identity" /\ ~Cut(r) /\ r.owner = "live"
    BY <1>2
  <2>2. r.born \in Int /\ era \in Int /\ r.born <= era
    BY <2>1 DEF TypeOK, ProfileRow, BornByNow
  <2>3. r.born = era /\ r \in profile'
    BY <2>1, <2>2, KeepTyped DEF Cut
  <2> QED BY <2>1, <2>3
<1> QED BY <1>1, <1>2

(* A booking added changes no other and belongs to the phone.              *)
LEMMA BookAppends ==
  ASSUME TypeOK, NEW p \in Procs, Book(p)
  PROVE  /\ bookings' \in Seq(BookingRow) /\ Len(bookings') = Len(bookings) + 1
         /\ Len(bookings') <= MaxBookings
         /\ DOMAIN bookings' = DOMAIN bookings \cup {Len(bookings) + 1}
         /\ Len(bookings) + 1 \notin DOMAIN bookings
         /\ \A b \in DOMAIN bookings : bookings'[b] = bookings[b]
         /\ bookings'[Len(bookings) + 1].owner = "live"
         /\ bookings'[Len(bookings) + 1].born = era
<1>1. PICK at \in 1..MaxTime :
        bookings' = Append(bookings, [created |-> at, owner |-> "live", born |-> era, details |-> TRUE])
  BY DEF Book
<1> DEFINE row == [created |-> at, owner |-> "live", born |-> era, details |-> TRUE]
<1>2. row \in BookingRow /\ row.owner = "live" /\ row.born = era
  BY DEF BookingRow, TypeOK
<1> HIDE DEF row
<1>3. bookings \in Seq(BookingRow) /\ bookings' = Append(bookings, row)
  BY <1>1 DEF TypeOK, row
<1>4. /\ bookings' \in Seq(BookingRow) /\ Len(bookings') = Len(bookings) + 1
      /\ \A b \in 1..Len(bookings) : bookings'[b] = bookings[b]
      /\ bookings'[Len(bookings) + 1] = row
  BY <1>2, <1>3
<1>5. Len(bookings) \in Nat /\ Len(bookings) < MaxBookings /\ DOMAIN bookings = 1..Len(bookings)
      /\ DOMAIN bookings' = 1..Len(bookings')
  BY <1>3, <1>4 DEF Book
<1> QED BY <1>2, <1>4, <1>5, BoundsAssumption

(* A commit leaves no booking under the phone and rewrites the phone's own.*)
LEMMA CommitScrubs ==
  ASSUME TypeOK, NEW p \in Procs, EraseCommits(p)
  PROVE  /\ bookings' \in Seq(BookingRow) /\ Len(bookings') = Len(bookings)
         /\ DOMAIN bookings' = DOMAIN bookings
         /\ \A b \in DOMAIN bookings :
              /\ bookings'[b].owner = "tomb"
              /\ bookings'[b].created = bookings[b].created /\ bookings'[b].born = bookings[b].born
              /\ bookings[b].owner = "live" => bookings'[b].details = ~Cut(bookings[b])
              /\ bookings[b].owner # "live" => bookings'[b] = bookings[b]
<1>1. bookings' = [b \in 1..Len(bookings) |-> Scrub(bookings[b])] /\ Len(bookings) \in Nat
  BY DEF EraseCommits, TypeOK
<1>2. ASSUME NEW b \in 1..Len(bookings)
      PROVE  /\ bookings[b] \in BookingRow
             /\ Scrub(bookings[b]) \in BookingRow
             /\ Scrub(bookings[b]).owner = "tomb"
             /\ Scrub(bookings[b]).created = bookings[b].created
             /\ Scrub(bookings[b]).born = bookings[b].born
             /\ bookings[b].owner = "live" => Scrub(bookings[b]).details = ~Cut(bookings[b])
             /\ bookings[b].owner # "live" => Scrub(bookings[b]) = bookings[b]
  <2>1. bookings[b] \in BookingRow
    BY DEF TypeOK
  <2>2. Cut(bookings[b]) \in BOOLEAN
    BY DEF Cut
  <2> QED BY <2>1, <2>2 DEF Scrub, BookingRow
<1>3. bookings' \in Seq(BookingRow) /\ Len(bookings') = Len(bookings) /\ DOMAIN bookings' = 1..Len(bookings)
  BY <1>1, <1>2
<1> QED BY <1>1, <1>2, <1>3 DEF TypeOK

(* At a commit a token follows the rename only if it was minted under the  *)
(* erasure, and no token of the phone is left.                             *)
LEMMA BequeathTyped ==
  ASSUME TypeOK, NEW t \in Tokens
  PROVE  /\ Bequeath(tokens[t]) \in [owner: Owners, born: 0..MaxEra]
         /\ Bequeath(tokens[t]).owner # "live"
         /\ tokens[t].owner # "live" => Bequeath(tokens[t]) = tokens[t]
         /\ tokens[t].owner = "live" => Bequeath(tokens[t]).owner \in {"tomb", "gone"}
         /\ Bequeath(tokens[t]).born \in {0, tokens[t].born}
<1>1. tokens[t] \in [owner: Owners, born: 0..MaxEra]
  BY DEF TypeOK
<1> QED BY <1>1, BoundsAssumption DEF Bequeath, Gone, Owners

-----------------------------------------------------------------------------
(* A page of the booking list.                                             *)

(* A walk that is sorted stays sorted, shows nothing twice, and misses     *)
(* nothing it has passed, whichever phone its token has by now.            *)
SortedWalk(pg, phone) ==
  /\ pg.twice = {}
  /\ pg.watched \cup pg.shown \subseteq DOMAIN bookings
  /\ pg.cursor \in (1..(MaxTime + 1)) \X Nat
  /\ \A b \in pg.shown : ~Below(Key(b), pg.cursor)
  /\ phone = pg.phone =>
       \A b \in pg.watched \cap Owned(phone) : b \in pg.shown \/ Below(Key(b), pg.cursor)
  /\ phone # pg.phone => pg.watched \cap Owned(pg.phone) = {}

WalkTyped(pg) ==
  pg \in [token: Tokens, phone: Owners, cursor: (1..(MaxTime + 1)) \X Nat,
          shown: SUBSET (1..MaxBookings), twice: SUBSET (1..MaxBookings),
          watched: SUBSET (1..MaxBookings)]
PagerTyped ==
  pager \in [token: Tokens \cup {NoToken}, phone: Owners, cursor: (1..(MaxTime + 1)) \X Nat,
             shown: SUBSET (1..MaxBookings), twice: SUBSET (1..MaxBookings),
             watched: SUBSET (1..MaxBookings)]

LEMMA PageKeepsWalk ==
  ASSUME TypeOK, NEW from, NEW phone \in {"live", "tomb"},
         WalkTyped(from), SortedWalk(from, phone), ReadPage(phone, from)
  PROVE  /\ PagerTyped'
         /\ pager'.token \in {from.token, NoToken}
         /\ pager'.phone = from.phone /\ pager'.watched = from.watched
         /\ pager'.twice = {} /\ pager'.shown \subseteq DOMAIN bookings
         /\ pager'.token # NoToken => SortedWalk(pager', phone)
         /\ pager'.token = NoToken => pager'.watched \cap Owned(pager'.phone) \subseteq pager'.shown
<1> DEFINE rows == Listed(phone, from.cursor)
<1>1. PICK page \in SUBSET rows :
        /\ \A b \in page, c \in rows \ page : ~Below(Key(b), Key(c))
        /\ \/ /\ page = rows
              /\ pager' = [from EXCEPT !.token = NoToken, !.cursor = Top,
                                      !.shown = @ \cup page, !.twice = @ \cup (page \cap from.shown)]
           \/ /\ page # rows
              /\ \E last \in page :
                   /\ \A b \in page : ~Below(Key(b), Key(last))
                   /\ pager' = [from EXCEPT !.cursor = Key(last), !.shown = @ \cup page,
                                           !.twice = @ \cup (page \cap from.shown)]
  BY DEF ReadPage
<1>2. /\ \A b \in rows : b \in DOMAIN bookings /\ bookings[b].owner = phone /\ Below(Key(b), from.cursor)
      /\ \A b \in DOMAIN bookings :
           bookings[b].owner = phone /\ Below(Key(b), from.cursor) => b \in rows
  BY DEF Listed, Owned
<1>3. page \subseteq DOMAIN bookings /\ page \subseteq 1..MaxBookings
  BY <1>2, KeyTyped
<1>4. page \cap from.shown = {}
  BY <1>2 DEF SortedWalk
<1>5. from.watched \cap Owned(phone) \subseteq from.shown \cup rows \/ phone # from.phone
  BY <1>2 DEF SortedWalk, Owned
<1> HIDE DEF rows
<1>6. Top \in (1..(MaxTime + 1)) \X Nat
  BY BoundsAssumption DEF Top
<1>7. CASE /\ page = rows
           /\ pager' = [from EXCEPT !.token = NoToken, !.cursor = Top,
                                   !.shown = @ \cup page, !.twice = @ \cup (page \cap from.shown)]
  <2>1. /\ pager'.token = NoToken /\ pager'.phone = from.phone /\ pager'.cursor = Top
        /\ pager'.shown = from.shown \cup page /\ pager'.twice = {} /\ pager'.watched = from.watched
    BY <1>4, <1>7 DEF SortedWalk
  <2>2. pager'.watched \cap Owned(pager'.phone) \subseteq pager'.shown
    BY <1>5, <1>7, <2>1 DEF SortedWalk
  <2>3. PagerTyped'
    BY <1>3, <1>6, <1>7 DEF WalkTyped, PagerTyped
  <2> QED BY <1>3, <2>1, <2>2, <2>3 DEF SortedWalk
<1>8. ASSUME page # rows, NEW last \in page,
             \A b \in page : ~Below(Key(b), Key(last)),
             pager' = [from EXCEPT !.cursor = Key(last), !.shown = @ \cup page,
                                  !.twice = @ \cup (page \cap from.shown)]
      PROVE  /\ PagerTyped'
             /\ pager'.token = from.token
             /\ pager'.phone = from.phone /\ pager'.watched = from.watched
             /\ SortedWalk(pager', phone)
  <2>1. /\ pager'.token = from.token /\ pager'.phone = from.phone /\ pager'.cursor = Key(last)
        /\ pager'.shown = from.shown \cup page /\ pager'.twice = {} /\ pager'.watched = from.watched
    BY <1>4, <1>8 DEF SortedWalk
  <2>2. Key(last) \in (1..(MaxTime + 1)) \X Nat /\ last \in rows /\ Below(Key(last), from.cursor)
    BY <1>2, <1>3, <1>8, KeyTyped
  <2>3. PagerTyped'
    BY <1>3, <1>8, <2>2 DEF WalkTyped, PagerTyped
  <2>4. ASSUME NEW b \in from.shown PROVE ~Below(Key(b), Key(last))
    <3>1. ~Below(Key(b), from.cursor) /\ Key(b) \in (1..(MaxTime + 1)) \X Nat
      BY KeyTyped DEF SortedWalk
    <3> QED BY <2>2, <3>1, BelowIsOrder DEF SortedWalk
  <2>5. ASSUME NEW b \in rows \ page PROVE Below(Key(b), Key(last))
    <3>1. ~Below(Key(last), Key(b))
      BY <1>1, <2>5
    <3>2. Key(b) \in (1..(MaxTime + 1)) \X Nat
      BY <1>2, KeyTyped
    <3>3. b # last
      BY <2>5
    <3>4. Key(b) # Key(last)
      BY <3>3 DEF Key
    <3> QED BY <2>2, <3>1, <3>2, <3>4, BelowIsOrder
  <2>6. phone = from.phone =>
          \A b \in from.watched \cap Owned(phone) : b \in pager'.shown \/ Below(Key(b), Key(last))
    BY <1>5, <2>1, <2>5
  <2>7. SortedWalk(pager', phone)
    BY <1>3, <1>8, <2>1, <2>2, <2>4, <2>6 DEF SortedWalk
  <2> QED BY <2>1, <2>3, <2>7
<1>9. CASE page # rows
  <2>1. from.token # NoToken
    BY BoundsAssumption DEF WalkTyped
  <2>2. PICK last \in page :
          /\ \A b \in page : ~Below(Key(b), Key(last))
          /\ pager' = [from EXCEPT !.cursor = Key(last), !.shown = @ \cup page,
                                  !.twice = @ \cup (page \cap from.shown)]
    BY <1>1, <1>9
  <2> QED BY <1>8, <1>9, <2>1, <2>2 DEF SortedWalk
<1> QED BY <1>1, <1>7, <1>9

(* A walk over the rows below the top begins sorted, and a page of a walk  *)
(* keeps what IndInv says of it.                                           *)
Begun(t, phone) == [Idle EXCEPT !.token = t, !.phone = phone, !.watched = Owned(phone)]

LEMMA WalkBegins ==
  ASSUME TypeOK, NEW t \in Tokens, NEW phone \in {"live", "tomb"}
  PROVE  /\ WalkTyped(Begun(t, phone)) /\ SortedWalk(Begun(t, phone), phone)
         /\ Begun(t, phone).phone = phone /\ Begun(t, phone).watched = Owned(phone)
<1> DEFINE begun == Begun(t, phone)
<1>1. /\ begun.token = t /\ begun.phone = phone /\ begun.watched = Owned(phone)
      /\ begun.shown = {} /\ begun.twice = {} /\ begun.cursor = Top
  BY DEF Idle, Begun
<1>2. Owned(phone) \subseteq DOMAIN bookings /\ Owned(phone) \subseteq 1..MaxBookings
  BY KeyTyped DEF Owned
<1>3. Top \in (1..(MaxTime + 1)) \X Nat
  BY BoundsAssumption DEF Top
<1>4. WalkTyped(begun)
  BY <1>2, <1>3 DEF WalkTyped, Idle, Owners, Begun
<1>5. ASSUME NEW b \in Owned(phone) PROVE Below(Key(b), Top)
  <2>1. bookings[b] \in BookingRow
    BY <1>5, KeyTyped DEF Owned
  <2>2. bookings[b].created \in 1..MaxTime
    BY <2>1 DEF BookingRow
  <2> QED BY <2>2, BoundsAssumption DEF Below, Key, Top
<1> HIDE DEF begun
<1>6. SortedWalk(begun, phone)
  BY <1>1, <1>2, <1>3, <1>5 DEF SortedWalk
<1> QED BY <1>1, <1>4, <1>6 DEF begun

LEMMA WalkContinues ==
  ASSUME TypeOK, WalkIsSorted, PagesShowAll, pager.token # NoToken, Verified(pager.token)
  PROVE  /\ pager.token \in Tokens /\ WalkTyped(pager)
         /\ tokens[pager.token].owner \in {"live", "tomb"}
         /\ SortedWalk(pager, tokens[pager.token].owner)
<1>1. pager.token \in Tokens /\ WalkTyped(pager) /\ pager.cursor \in (1..(MaxTime + 1)) \X Nat
  BY DEF TypeOK, WalkTyped
<1>2. tokens[pager.token].owner \in {"live", "tomb"}
  BY DEF Verified
<1>3. SortedWalk(pager, tokens[pager.token].owner)
  BY <1>1, <1>2 DEF SortedWalk, WalkIsSorted, PagesShowAll
<1> QED BY <1>1, <1>2, <1>3

-----------------------------------------------------------------------------
(* Every state is type correct.                                            *)
LEMMA TypeInit == Init => TypeOK
<1> SUFFICES ASSUME Init PROVE TypeOK
  OBVIOUS
<1>1. Top \in (1..(MaxTime + 1)) \X Nat
  BY BoundsAssumption DEF Top
<1>2. pager \in [token: Tokens \cup {NoToken}, phone: Owners, cursor: (1..(MaxTime + 1)) \X Nat,
                 shown: SUBSET (1..MaxBookings), twice: SUBSET (1..MaxBookings),
                 watched: SUBSET (1..MaxBookings)]
  BY <1>1 DEF Init, Idle, Owners
<1>3. bookings \in Seq(BookingRow) /\ Len(bookings) = 0
  BY DEF Init
<1>4. tokens \in [Tokens -> [owner: Owners, born: 0..MaxEra]]
  BY BoundsAssumption DEF Init, Owners
<1>5. era \in 0..MaxEra /\ tombEra \in 0..MaxEra /\ doneEra \in 0..MaxEra /\ Len(bookings) <= MaxBookings
  BY <1>3, BoundsAssumption DEF Init
<1>6. /\ customer \in BOOLEAN /\ profile \subseteq ProfileRow
      /\ pc \in [Procs -> {"idle", "mint_live", "mint_tomb", "erasing"}]
  BY DEF Init
<1> QED BY <1>2, <1>3, <1>4, <1>5, <1>6 DEF TypeOK

LEMMA TypeStep == IndInv /\ [Next]_vars => TypeOK'
<1> SUFFICES ASSUME IndInv, [Next]_vars PROVE TypeOK'
  OBVIOUS
<1>0. TypeOK
  BY DEF IndInv
<1> USE DEF TypeOK
<1>1. ASSUME NEW p \in Procs, Contact(p) PROVE TypeOK'
  BY <1>0, <1>1 DEF Contact
<1>2. ASSUME NEW p \in Procs, BotStage(p) PROVE TypeOK'
  <2>1. profile' \subseteq ProfileRow
    BY <1>0, <1>2, KeepTyped DEF BotStage, Kinds
  <2> QED BY <1>0, <1>2, <2>1 DEF BotStage
<1>3. ASSUME NEW p \in Procs, Identify(p) PROVE TypeOK'
  <2>1. profile' \subseteq ProfileRow
    BY <1>0, <1>3, KeepTyped DEF Identify, Kinds
  <2> QED BY <1>0, <1>3, <2>1 DEF Identify
<1>4. ASSUME NEW p \in Procs, Book(p) PROVE TypeOK'
  <2>1. profile' \subseteq ProfileRow
    BY <1>0, <1>4, KeepTyped DEF Book, Kinds
  <2>2. bookings' \in Seq(BookingRow) /\ Len(bookings') <= MaxBookings
    BY <1>0, <1>4, BookAppends
  <2> QED BY <1>0, <1>4, <2>1, <2>2 DEF Book
<1>5. ASSUME NEW p \in Procs, Mint(p) PROVE TypeOK'
  <2>1. tokens' = tokens \/ \E t \in Tokens, owner \in {"live", "tomb"} :
                               tokens' = [tokens EXCEPT ![t] = [owner |-> owner, born |-> era]]
    BY <1>5 DEF Mint
  <2>2. tokens' \in [Tokens -> [owner: Owners, born: 0..MaxEra]]
    BY <1>0, <2>1 DEF Owners
  <2> QED BY <1>0, <1>5, <2>2 DEF Mint
<1>6. ASSUME NEW p \in Procs, Drop(p) PROVE TypeOK'
  BY <1>0, <1>6 DEF Drop
<1>7. ASSUME NEW p \in Procs, EraseBegins(p) PROVE TypeOK'
  BY <1>0, <1>7, BoundsAssumption DEF EraseBegins
<1>8. ASSUME NEW p \in Procs, EraseCommits(p) PROVE TypeOK'
  <2>1. era < MaxEra
    BY <1>8 DEF IndInv, ErasuresInOrder, EraseCommits
  <2>2. /\ era' \in 0..MaxEra /\ doneEra' \in 0..MaxEra
        /\ tombEra' \in 0..MaxEra
    BY <1>0, <1>8, <2>1, BoundsAssumption DEF EraseCommits
  <2>3. tokens' \in [Tokens -> [owner: Owners, born: 0..MaxEra]]
    BY <1>0, <1>8, BequeathTyped DEF EraseCommits
  <2>4. bookings' \in Seq(BookingRow) /\ Len(bookings') = Len(bookings)
    BY <1>0, <1>8, CommitScrubs
  <2> QED BY <1>0, <1>8, <2>2, <2>3, <2>4 DEF EraseCommits
<1>9. ASSUME NEW p \in Procs, EraseRollsBack(p) PROVE TypeOK'
  <2>1. era < MaxEra
    BY <1>9 DEF IndInv, ErasuresInOrder, EraseRollsBack
  <2> QED BY <1>0, <1>9, <2>1, BoundsAssumption DEF EraseRollsBack
<1>10. ASSUME NEW p \in Procs, NextPage(p) PROVE TypeOK'
  <2>1. CASE Verified(pager.token) /\ ReadPage(tokens[pager.token].owner, pager)
    <3>1. /\ WalkTyped(pager) /\ tokens[pager.token].owner \in {"live", "tomb"}
          /\ SortedWalk(pager, tokens[pager.token].owner)
      BY <1>0, <1>10, <2>1, WalkContinues DEF NextPage, IndInv
    <3>2. PagerTyped'
      BY <1>0, <2>1, <3>1, PageKeepsWalk
    <3> QED BY <1>0, <1>10, <3>2 DEF NextPage, PagerTyped
  <2>2. CASE pager' = Idle
    <3>1. Top \in (1..(MaxTime + 1)) \X Nat
      BY BoundsAssumption DEF Top
    <3>2. Idle \in [token: Tokens \cup {NoToken}, phone: Owners, cursor: (1..(MaxTime + 1)) \X Nat,
                    shown: SUBSET (1..MaxBookings), twice: SUBSET (1..MaxBookings),
                    watched: SUBSET (1..MaxBookings)]
      BY <3>1 DEF Idle, Owners
    <3> QED BY <1>0, <1>10, <2>2, <3>2 DEF NextPage
  <2> QED BY <1>10, <2>1, <2>2 DEF NextPage
<1>11. ASSUME NEW p \in Procs, NEW t \in Tokens, Revoke(p, t) PROVE TypeOK'
  BY <1>0, <1>11, BoundsAssumption DEF Revoke, Gone, Owners
<1>12. ASSUME NEW p \in Procs, NEW t \in Tokens, RevokeAll(p, t) PROVE TypeOK'
  <2>1. Gone \in [owner: Owners, born: 0..MaxEra]
    BY BoundsAssumption DEF Gone, Owners
  <2> QED BY <1>0, <1>12, <2>1 DEF RevokeAll
<1>13. ASSUME NEW p \in Procs, NEW t \in Tokens, ListBookings(p, t) PROVE TypeOK'
  <2>1. tokens[t].owner \in {"live", "tomb"}
    BY <1>13 DEF ListBookings, Verified
  <2> DEFINE phone == tokens[t].owner
  <2>2. WalkTyped(Begun(t, phone)) /\ SortedWalk(Begun(t, phone), phone)
    BY <1>0, <2>1, WalkBegins
  <2>3. ReadPage(phone, Begun(t, phone))
    BY <1>13 DEF ListBookings, Begun
  <2>4. PagerTyped'
    BY <1>0, <2>1, <2>2, <2>3, PageKeepsWalk
  <2> QED BY <1>0, <1>13, <2>4 DEF ListBookings, PagerTyped
<1>14. CASE UNCHANGED vars
  BY <1>0, <1>14 DEF vars
<1> QED
  BY <1>1, <1>2, <1>3, <1>4, <1>5, <1>6, <1>7, <1>8, <1>9, <1>10, <1>11, <1>12, <1>13, <1>14 DEF Next

-----------------------------------------------------------------------------
(* Erasures follow each other.                                             *)
LEMMA ErasuresStep == IndInv /\ [Next]_vars => ErasuresInOrder'
<1> SUFFICES ASSUME IndInv, [Next]_vars PROVE ErasuresInOrder'
  OBVIOUS
<1>0. /\ TypeOK /\ ErasuresInOrder
      /\ era \in Int /\ tombEra \in Int /\ doneEra \in Int /\ MaxEra \in Int
      /\ tombEra >= 0
  BY BoundsAssumption DEF IndInv, TypeOK
<1>1. ASSUME NEW p \in Procs, EraseBegins(p) PROVE ErasuresInOrder'
  <2>1. /\ era' = era + 1 /\ tombEra' = tombEra /\ doneEra' = doneEra
        /\ era % 2 # 1 /\ era + 2 <= MaxEra /\ pc' = [pc EXCEPT ![p] = "erasing"]
    BY <1>1 DEF EraseBegins, Erasing
  <2>2. \A q \in Procs : pc[q] # "erasing"
    BY <1>0, <2>1 DEF ErasuresInOrder, Erasing
  <2>3. \A q \in Procs : pc'[q] = "erasing" => q = p
    BY <1>0, <2>1, <2>2 DEF TypeOK
  <2>4. era' % 2 = 1 /\ era' < MaxEra /\ tombEra' <= doneEra' /\ doneEra' <= era'
    BY <1>0, <2>1 DEF ErasuresInOrder
  <2> QED BY <1>0, <2>1, <2>3, <2>4 DEF ErasuresInOrder, Erasing
<1>2. ASSUME NEW p \in Procs, EraseCommits(p) \/ EraseRollsBack(p) PROVE ErasuresInOrder'
  <2>1. /\ era' = era + 1 /\ pc[p] = "erasing" /\ pc' = [pc EXCEPT ![p] = "idle"]
        /\ \/ tombEra' = tombEra /\ doneEra' \in {doneEra, era + 1}
           \/ tombEra' = era + 1 /\ doneEra' = era + 1
    BY <1>0, <1>2 DEF EraseCommits, EraseRollsBack
  <2>2. era % 2 = 1 /\ \A q \in Procs : pc'[q] # "erasing"
    BY <1>0, <2>1 DEF ErasuresInOrder, Erasing, TypeOK
  <2>3. /\ tombEra <= doneEra /\ doneEra <= era /\ tombEra % 2 = 0 /\ doneEra % 2 = 0
        /\ (era + 1) % 2 = 0
    BY <1>0, <2>2 DEF ErasuresInOrder
  <2>4. tombEra' <= doneEra' /\ doneEra' <= era'
    BY <1>0, <2>1, <2>3
  <2>5. tombEra' % 2 = 0 /\ doneEra' % 2 = 0 /\ era' % 2 # 1
    BY <1>0, <2>1, <2>3
  <2> QED BY <2>2, <2>4, <2>5 DEF ErasuresInOrder, Erasing
<1>3. ASSUME UNCHANGED <<era, tombEra, doneEra>>,
             \A q \in Procs : pc'[q] = "erasing" => pc[q] = "erasing"
      PROVE  ErasuresInOrder'
  BY <1>0, <1>3 DEF ErasuresInOrder, Erasing
<1>4. ASSUME NEW p \in Procs,
             Contact(p) \/ BotStage(p) \/ Identify(p) \/ Book(p) \/ Mint(p) \/ Drop(p) \/ NextPage(p)
      PROVE  ErasuresInOrder'
  BY <1>0, <1>3, <1>4 DEF TypeOK, Contact, BotStage, Identify, Book, Mint, Drop, NextPage
<1>5. ASSUME NEW p \in Procs, NEW t \in Tokens, Revoke(p, t) \/ RevokeAll(p, t) \/ ListBookings(p, t)
      PROVE  ErasuresInOrder'
  BY <1>0, <1>3, <1>5 DEF TypeOK, Revoke, RevokeAll, ListBookings
<1>6. CASE UNCHANGED vars
  BY <1>3, <1>6 DEF vars
<1> QED BY <1>1, <1>2, <1>4, <1>5, <1>6 DEF Next

-----------------------------------------------------------------------------
(* What an erasure leaves, and what comes after it.                        *)
Kept == BornByNow /\ BookingsHaveNames /\ ErasureIsComplete /\ DetailsAreCleared

(* A request adds names and sessions of the present.                       *)
LEMMA KeepKeeps ==
  ASSUME IndInv, TypeOK', NEW kinds \in SUBSET Kinds, Keep(kinds),
         UNCHANGED <<era, tombEra, doneEra, tokens, bookings>>
  PROVE  Kept'
<1>1. /\ profile \subseteq profile'
      /\ \A r \in profile' \ profile : r.owner = "live" /\ r.born = era
  BY KeepTyped DEF IndInv
<1>2. era \in Int /\ doneEra \in Int /\ doneEra <= era
  BY DEF IndInv, TypeOK, ErasuresInOrder
<1>3. BornByNow'
  BY <1>1, <1>2 DEF IndInv, BornByNow, Owned
<1>4. BookingsHaveNames'
  BY <1>1 DEF IndInv, BookingsHaveNames, Erasing, Fresh
<1>5. ErasureIsComplete'
  BY <1>1, <1>2 DEF IndInv, ErasureIsComplete, Owned
<1>6. DetailsAreCleared'
  BY <1>1 DEF IndInv, DetailsAreCleared, Owned, MovedByAMerge
<1> QED BY <1>3, <1>4, <1>5, <1>6 DEF Kept

LEMMA BookKeeps ==
  ASSUME IndInv, NEW p \in Procs, Book(p)
  PROVE  Kept'
<1>1. TypeOK /\ Keep({"identity"}) /\ {"identity"} \in SUBSET Kinds /\ "identity" \in {"identity"}
  BY DEF IndInv, Book, Kinds
<1>2. /\ profile \subseteq profile'
      /\ \A r \in profile' \ profile : r.owner = "live" /\ r.born = era
  BY <1>1, KeepTyped
<1>3. /\ DOMAIN bookings' = DOMAIN bookings \cup {Len(bookings) + 1}
      /\ \A b \in DOMAIN bookings : bookings'[b] = bookings[b]
      /\ bookings'[Len(bookings) + 1].owner = "live"
      /\ bookings'[Len(bookings) + 1].born = era
  BY <1>1, BookAppends
<1>4. /\ UNCHANGED <<era, tombEra, doneEra, tokens>>
      /\ era \in Int /\ doneEra \in Int /\ doneEra <= era
  BY DEF Book, IndInv, TypeOK, ErasuresInOrder
<1>5. BornByNow'
  BY <1>2, <1>3, <1>4 DEF IndInv, BornByNow, Owned
<1>6. BookingsHaveNames'
  <2>1. Erasing => \E r \in profile' : r.kind = "identity" /\ r.owner = "live" /\ r.born = era
    BY <1>1, KeepNames DEF IndInv
  <2> QED BY <1>4, <2>1 DEF BookingsHaveNames, Erasing, Fresh
<1>7. ErasureIsComplete'
  BY <1>2, <1>3, <1>4 DEF IndInv, ErasureIsComplete, Owned
<1>8. DetailsAreCleared'
  BY <1>2, <1>3, <1>4 DEF IndInv, DetailsAreCleared, Owned, MovedByAMerge
<1> QED BY <1>5, <1>6, <1>7, <1>8 DEF Kept

(* A token minted, revoked or left alone.                                  *)
LEMMA TokensKeep ==
  ASSUME IndInv, UNCHANGED <<era, tombEra, doneEra, profile, bookings>>,
         \A t \in Tokens : /\ tokens'[t].born \in {0, era, tokens[t].born}
                           /\ tokens'[t].owner = "live" =>
                                tokens'[t].born = era \/ tokens'[t] = tokens[t]
  PROVE  Kept'
<1>1. era \in Int /\ doneEra \in Int /\ doneEra <= era /\ 0 <= era
  BY DEF IndInv, TypeOK, ErasuresInOrder
<1>2. BornByNow'
  BY <1>1 DEF IndInv, BornByNow, Owned
<1>3. ErasureIsComplete'
  BY <1>1 DEF IndInv, ErasureIsComplete, Owned
<1> QED BY <1>2, <1>3
        DEF Kept, IndInv, BookingsHaveNames, Erasing, Fresh, DetailsAreCleared, Owned,
            MovedByAMerge

(* An erasure that begins or is rolled back touches no row: those of the   *)
(* past are all older than it.                                             *)
LEMMA EraPasses ==
  ASSUME IndInv, era' = era + 1,
         UNCHANGED <<tombEra, doneEra, profile, tokens, bookings>>
  PROVE  Kept'
<1>1. era \in Int /\ TypeOK
  BY DEF IndInv, TypeOK
<1>2. BornByNow'
  <2>1. \A r \in profile : r.born \in Int /\ r.born <= era
    BY DEF IndInv, BornByNow, TypeOK, ProfileRow
  <2>2. \A t \in Tokens : tokens[t].born \in Int /\ tokens[t].born <= era
    BY DEF IndInv, BornByNow, TypeOK
  <2>3. \A b \in DOMAIN bookings : bookings[b].born \in Int /\ bookings[b].born <= era
    BY <1>1, KeyTyped DEF IndInv, BornByNow, BookingRow
  <2> QED BY <1>1, <2>1, <2>2, <2>3 DEF IndInv, BornByNow, Owned
<1>3. BookingsHaveNames'
  <2>1. \A b \in DOMAIN bookings : bookings[b].born \in Int /\ bookings[b].born <= era
    BY <1>1, KeyTyped DEF IndInv, BornByNow, BookingRow
  <2> QED BY <1>1, <2>1 DEF BookingsHaveNames, Fresh
<1> QED BY <1>2, <1>3 DEF Kept, IndInv, ErasureIsComplete, DetailsAreCleared, Owned,
                          MovedByAMerge

(* The commit: a booking it moves with details was committed under it, so a*)
(* rename would have met its name; it is a merge, and the tombstone older. *)
LEMMA CommitKeeps ==
  ASSUME IndInv, NEW p \in Procs, EraseCommits(p)
  PROVE  Kept'
<1>1. /\ TypeOK /\ era \in Int /\ doneEra \in Int /\ tombEra \in Int /\ 0 <= tombEra /\ tombEra <= era
      /\ era' = era + 1 /\ doneEra' = era + 1 /\ tombEra' = IF tombEra > 0 THEN tombEra ELSE era + 1
      /\ profile' = {r \in profile : r.owner # "live"}
      /\ tokens' = [t \in Tokens |-> Bequeath(tokens[t])]
  BY DEF IndInv, TypeOK, ErasuresInOrder, EraseCommits, Merging
<1>2. Erasing /\ era % 2 = 1 /\ era' % 2 # 1 /\ tombEra % 2 = 0 /\ tombEra # era
  BY <1>1 DEF IndInv, ErasuresInOrder, EraseCommits, Erasing
<1>3. /\ DOMAIN bookings' = DOMAIN bookings
      /\ \A b \in DOMAIN bookings :
           /\ bookings'[b].owner = "tomb" /\ bookings'[b].born = bookings[b].born
           /\ bookings[b].owner = "live" => bookings'[b].details = ~Cut(bookings[b])
           /\ bookings[b].owner # "live" => bookings'[b] = bookings[b]
  BY <1>1, CommitScrubs
<1>4. \A b \in DOMAIN bookings : bookings[b].born \in Int /\ bookings[b].born <= era
  BY <1>1, KeyTyped DEF IndInv, BornByNow, BookingRow
<1>5. BornByNow'
  <2>1. \A r \in profile' : r.born <= era'
    BY <1>1 DEF IndInv, BornByNow, TypeOK, ProfileRow
  <2>2. \A t \in Tokens : tokens'[t].born <= era'
    <3> TAKE t \in Tokens
    <3>1. tokens'[t].born \in {0, tokens[t].born}
      BY <1>1, BequeathTyped
    <3>2. tokens[t].born \in Int /\ tokens[t].born <= era /\ 0 <= era
      BY DEF IndInv, BornByNow, TypeOK
    <3> QED BY <1>1, <3>1, <3>2
  <2>3. \A b \in DOMAIN bookings' : bookings'[b].born <= era'
    BY <1>1, <1>3, <1>4
  <2>4. tombEra' # 0
    BY <1>1
  <2> QED BY <2>1, <2>2, <2>3, <2>4 DEF BornByNow
<1>6. BookingsHaveNames'
  BY <1>2 DEF BookingsHaveNames, Erasing
<1>7. ErasureIsComplete'
  <2>1. \A r \in profile' : r.owner # "live"
    BY <1>1
  <2>2. \A t \in Tokens : tokens'[t].owner # "live"
    BY <1>1, BequeathTyped
  <2>3. Owned("live")' = {}
    BY <1>3 DEF Owned
  <2> QED BY <2>1, <2>2, <2>3 DEF ErasureIsComplete
<1>8. DetailsAreCleared'
  <2>1. \A r \in profile' : r.owner # "tomb"
    BY <1>1 DEF IndInv, DetailsAreCleared
  <2>2. ASSUME NEW b \in DOMAIN bookings
        PROVE  bookings'[b].details => MovedByAMerge(b)'
    <3>1. CASE bookings[b].owner # "live"
      <4>1. bookings[b].owner = "tomb"
        BY <1>1, <3>1, KeyTyped DEF BookingRow
      <4>2. tombEra > 0
        BY <1>1, <4>1 DEF IndInv, BornByNow, Owned
      <4>3. bookings'[b] = bookings[b] /\ tombEra' = tombEra
        BY <1>1, <1>3, <3>1, <4>2
      <4>4. bookings[b].details => MovedByAMerge(b)
        BY <4>1 DEF IndInv, DetailsAreCleared, Owned
      <4> QED BY <4>3, <4>4 DEF MovedByAMerge
    <3>2. CASE bookings[b].owner = "live" /\ Cut(bookings[b])
      BY <1>3, <3>2
    <3>3. CASE bookings[b].owner = "live" /\ ~Cut(bookings[b])
      <4>1. bookings[b].born = era
        BY <1>1, <1>2, <1>4, <3>3 DEF Cut
      <4>2. PICK r \in profile : r.kind = "identity" /\ Fresh(r)
        BY <1>2, <3>3, <4>1 DEF IndInv, BookingsHaveNames, Fresh
      <4>3. tombEra > 0
        BY <4>2 DEF EraseCommits, InTheWay, Merging
      <4>4. bookings'[b].born = era /\ tombEra' = tombEra /\ era > tombEra
        BY <1>1, <1>2, <1>3, <4>1, <4>3
      <4> QED BY <1>2, <4>4 DEF MovedByAMerge
    <3> QED BY <3>1, <3>2, <3>3
  <2> QED BY <1>3, <2>1, <2>2 DEF DetailsAreCleared, Owned
<1> QED BY <1>5, <1>6, <1>7, <1>8 DEF Kept

LEMMA KeptStep == IndInv /\ [Next]_vars => Kept'
<1> SUFFICES ASSUME IndInv, [Next]_vars PROVE Kept'
  OBVIOUS
<1>0. TypeOK /\ TypeOK'
  BY TypeStep DEF IndInv
<1>1. ASSUME NEW p \in Procs, Contact(p) \/ Drop(p) \/ NextPage(p) PROVE Kept'
  BY <1>1, TokensKeep DEF Contact, Drop, NextPage
<1>2. ASSUME NEW p \in Procs, BotStage(p) PROVE Kept'
  BY <1>0, <1>2, KeepKeeps DEF BotStage, Kinds
<1>3. ASSUME NEW p \in Procs, Identify(p) PROVE Kept'
  BY <1>0, <1>3, KeepKeeps DEF Identify, Kinds
<1>4. ASSUME NEW p \in Procs, Book(p) PROVE Kept'
  BY <1>4, BookKeeps
<1>5. ASSUME NEW p \in Procs, Mint(p) PROVE Kept'
  <2>1. tokens' = tokens \/ \E t \in Tokens, owner \in {"live", "tomb"} :
                              tokens' = [tokens EXCEPT ![t] = [owner |-> owner, born |-> era]]
    BY <1>5 DEF Mint
  <2>2. \A t \in Tokens : /\ tokens'[t].born \in {0, era, tokens[t].born}
                          /\ tokens'[t].owner = "live" =>
                               tokens'[t].born = era \/ tokens'[t] = tokens[t]
    BY <1>0, <2>1 DEF TypeOK
  <2> QED BY <1>5, <2>2, TokensKeep DEF Mint
<1>6. ASSUME NEW p \in Procs, NEW t \in Tokens, Revoke(p, t) \/ RevokeAll(p, t) PROVE Kept'
  <2>1. \A u \in Tokens : tokens'[u] \in {Gone, tokens[u]}
    BY <1>0, <1>6 DEF Revoke, RevokeAll, TypeOK
  <2>2. \A u \in Tokens : /\ tokens'[u].born \in {0, era, tokens[u].born}
                          /\ tokens'[u].owner = "live" =>
                               tokens'[u].born = era \/ tokens'[u] = tokens[u]
    BY <2>1 DEF Gone
  <2> QED BY <1>6, <2>2, TokensKeep DEF Revoke, RevokeAll
<1>7. ASSUME NEW p \in Procs, NEW t \in Tokens, ListBookings(p, t) PROVE Kept'
  BY <1>7, TokensKeep DEF ListBookings
<1>8. ASSUME NEW p \in Procs, EraseBegins(p) \/ EraseRollsBack(p) PROVE Kept'
  BY <1>8, EraPasses DEF EraseBegins, EraseRollsBack
<1>9. ASSUME NEW p \in Procs, EraseCommits(p) PROVE Kept'
  BY <1>9, CommitKeeps
<1>10. CASE UNCHANGED vars
  BY <1>10, TokensKeep DEF vars
<1> QED BY <1>1, <1>2, <1>3, <1>4, <1>5, <1>6, <1>7, <1>8, <1>9, <1>10 DEF Next

-----------------------------------------------------------------------------
(* Walks.  The walk stays where it is while its bookings only gain a new   *)
(* one, and its token, if it changes, is deleted.                          *)
Walks == WalkIsSorted /\ PagesShowAll

LEMMA WalkStays ==
  ASSUME IndInv, UNCHANGED pager,
         DOMAIN bookings \subseteq DOMAIN bookings',
         \A b \in DOMAIN bookings : bookings'[b] = bookings[b],
         \A t \in Tokens : \/ tokens[t].owner \in {"none", tokens'[t].owner}
                           \/ tokens'[t].owner = "gone"
  PROVE  Walks'
<1>1. TypeOK /\ WalkIsSorted /\ PagesShowAll /\ pager.watched \subseteq DOMAIN bookings
  BY DEF IndInv, WalkIsSorted
<1>2. \A b \in DOMAIN bookings : Key(b)' = Key(b)
  BY DEF Key
<1>3. \A phone \in Owners : pager.watched \cap Owned(phone)' = pager.watched \cap Owned(phone)
  BY <1>1 DEF Owned
<1>4. pager.phone \in Owners
  BY <1>1 DEF TypeOK
<1>5. PagesShowAll'
  BY <1>1, <1>3, <1>4 DEF PagesShowAll
<1>6. CASE pager.token = NoToken
  <2>1. pager.phone = "tomb" => pager.watched \subseteq Owned("tomb")'
    BY <1>1, <1>3 DEF WalkIsSorted, Owners
  <2> QED BY <1>1, <1>5, <1>6, <2>1 DEF Walks, WalkIsSorted
<1>7. CASE pager.token # NoToken
  <2> DEFINE t == pager.token
  <2>1. t \in Tokens /\ tokens[t].owner # "none" /\ pager.phone \in {"live", "tomb"}
    BY <1>1, <1>7 DEF TypeOK, WalkIsSorted
  <2>2. tokens'[t].owner = tokens[t].owner \/ tokens'[t].owner = "gone"
    BY <2>1
  <2>3. \A b \in pager.shown : ~Below(Key(b)', pager.cursor)
    BY <1>1, <1>2, <1>7 DEF WalkIsSorted
  <2>4. pager.phone = "tomb" => pager.watched \subseteq Owned("tomb")'
    BY <1>1, <1>3 DEF WalkIsSorted, Owners
  <2>5. tokens'[t].owner = pager.phone =>
          \A b \in pager.watched \cap Owned(pager.phone)' : b \in pager.shown \/ Below(Key(b)', pager.cursor)
    BY <1>1, <1>2, <1>3, <1>4, <1>7, <2>1, <2>2 DEF WalkIsSorted
  <2>6. tokens'[t].owner = "tomb" /\ pager.phone = "live" => pager.watched \cap Owned("live")' = {}
    BY <1>1, <1>3, <1>4, <1>7, <2>1, <2>2 DEF WalkIsSorted
  <2>7. ~(tokens'[t].owner = "live" /\ pager.phone = "tomb") /\ tokens'[t].owner # "none"
    BY <1>1, <1>7, <2>1, <2>2 DEF WalkIsSorted
  <2>8. WalkIsSorted'
    BY <1>1, <2>1, <2>3, <2>4, <2>5, <2>6, <2>7 DEF WalkIsSorted
  <2> QED BY <1>5, <2>8 DEF Walks
<1> QED BY <1>6, <1>7

(* A commit moves every booking of the phone under the tombstone and the   *)
(* token with it, or the token is gone.                                    *)
LEMMA WalkOfErased ==
  ASSUME IndInv, NEW p \in Procs, EraseCommits(p)
  PROVE  Walks'
<1>1. /\ TypeOK /\ WalkIsSorted /\ PagesShowAll
      /\ pager' = pager /\ pager.watched \cup pager.shown \subseteq DOMAIN bookings
  BY DEF IndInv, WalkIsSorted, EraseCommits
<1>2. /\ DOMAIN bookings' = DOMAIN bookings
      /\ \A b \in DOMAIN bookings : bookings'[b].owner = "tomb" /\ Key(b)' = Key(b)
  BY <1>1, CommitScrubs DEF Key
<1>3. Owned("tomb")' = DOMAIN bookings /\ \A phone \in Owners \ {"tomb"} : Owned(phone)' = {}
  BY <1>2 DEF Owned
<1>4. pager.phone \in Owners /\ (pager.phone = "tomb" => pager.watched \subseteq Owned("tomb"))
  BY <1>1 DEF TypeOK, WalkIsSorted
<1>5. PagesShowAll'
  BY <1>1, <1>3, <1>4 DEF PagesShowAll
<1>6. CASE pager.token = NoToken
  BY <1>1, <1>2, <1>3, <1>5, <1>6 DEF Walks, WalkIsSorted
<1>7. CASE pager.token # NoToken
  <2> DEFINE t == pager.token
  <2>1. t \in Tokens /\ tokens[t].owner # "none" /\ pager.phone \in {"live", "tomb"}
    BY <1>1, <1>7 DEF TypeOK, WalkIsSorted
  <2>2. /\ tokens'[t].owner \in {"tomb", "gone"}
        /\ tokens'[t].owner = "tomb" => tokens[t].owner \in {"live", "tomb"}
    <3>1. tokens' = [u \in Tokens |-> Bequeath(tokens[u])] /\ tokens[t].owner \in Owners
      BY <1>1, <2>1 DEF EraseCommits, TypeOK
    <3> QED BY <1>1, <2>1, <3>1, BequeathTyped DEF Owners
  <2>3. \A b \in pager.shown : ~Below(Key(b)', pager.cursor)
    BY <1>1, <1>2, <1>7 DEF WalkIsSorted
  <2>4. ASSUME pager.phone = "tomb", tokens'[t].owner = "tomb"
        PROVE  \A b \in pager.watched : b \in pager.shown \/ Below(Key(b)', pager.cursor)
    <3>1. tokens[t].owner = "tomb"
      BY <1>1, <1>7, <2>2, <2>4 DEF WalkIsSorted
    <3> QED BY <1>1, <1>2, <1>4, <1>7, <2>4, <3>1 DEF WalkIsSorted
  <2>5. /\ pager.watched \cap Owned("live")' = {}
        /\ pager.phone = "tomb" => pager.watched \subseteq Owned("tomb")'
    BY <1>1, <1>3 DEF Owners
  <2>6. tokens'[t].owner = pager.phone =>
          \A b \in pager.watched \cap Owned(pager.phone)' : b \in pager.shown \/ Below(Key(b)', pager.cursor)
    BY <2>2, <2>4, <2>1
  <2>8. WalkIsSorted'
    BY <1>1, <1>2, <2>1, <2>2, <2>3, <2>5, <2>6 DEF WalkIsSorted
  <2> QED BY <1>5, <2>8 DEF Walks
<1> QED BY <1>6, <1>7

(* A page.                                                                 *)
LEMMA WalkGoesOn ==
  ASSUME IndInv, NEW from, NEW phone \in {"live", "tomb"},
         WalkTyped(from), SortedWalk(from, phone), ReadPage(phone, from),
         UNCHANGED <<tokens, bookings>>,
         tokens[from.token].owner = phone, from.phone \in {"live", "tomb"},
         phone = "live" => from.phone = "live",
         from.phone = "tomb" => from.watched \subseteq Owned("tomb")
  PROVE  Walks'
<1>1. TypeOK /\ from.token \in Tokens
  BY DEF IndInv, WalkTyped
<1>2. /\ pager'.token \in {from.token, NoToken}
      /\ pager'.phone = from.phone /\ pager'.watched = from.watched
      /\ pager'.twice = {} /\ pager'.shown \subseteq DOMAIN bookings
      /\ pager'.token # NoToken => SortedWalk(pager', phone)
      /\ pager'.token = NoToken => pager'.watched \cap Owned(pager'.phone) \subseteq pager'.shown
  BY <1>1, PageKeepsWalk
<1>3. (\A b : Key(b)' = Key(b)) /\ \A o : Owned(o)' = Owned(o)
  BY DEF Key, Owned
<1>4. PagesShowAll'
  BY <1>2, <1>3 DEF PagesShowAll
<1>5. pager'.watched \cup pager'.shown \subseteq DOMAIN bookings'
  BY <1>2 DEF SortedWalk
<1>6. pager'.phone = "tomb" => pager'.watched \subseteq Owned("tomb")'
  BY <1>2, <1>3
<1>7. ASSUME pager'.token # NoToken
      PROVE  /\ tokens'[pager'.token].owner = phone
             /\ \A b \in pager'.shown : ~Below(Key(b), pager'.cursor)
             /\ phone = pager'.phone =>
                  \A b \in pager'.watched \cap Owned(phone) : b \in pager'.shown \/ Below(Key(b), pager'.cursor)
             /\ phone # pager'.phone => pager'.watched \cap Owned(pager'.phone) = {}
  BY <1>2, <1>7 DEF SortedWalk
<1>8. WalkIsSorted'
  BY <1>2, <1>3, <1>5, <1>6, <1>7 DEF WalkIsSorted
<1> QED BY <1>4, <1>8 DEF Walks

LEMMA WalksStep == IndInv /\ [Next]_vars => Walks'
<1> SUFFICES ASSUME IndInv, [Next]_vars PROVE Walks'
  OBVIOUS
<1>0. TypeOK /\ WalkIsSorted /\ PagesShowAll
  BY DEF IndInv
<1>1. ASSUME NEW p \in Procs,
             Contact(p) \/ BotStage(p) \/ Identify(p) \/ Drop(p) \/ EraseBegins(p) \/ EraseRollsBack(p)
      PROVE  Walks'
  BY <1>1, WalkStays DEF Contact, BotStage, Identify, Drop, EraseBegins, EraseRollsBack
<1>2. ASSUME NEW p \in Procs, Book(p) PROVE Walks'
  <2>1. UNCHANGED <<tokens, pager>>
    BY <1>2 DEF Book
  <2> QED BY <1>0, <1>2, <2>1, BookAppends, WalkStays
<1>3. ASSUME NEW p \in Procs, Mint(p) PROVE Walks'
  <2>1. tokens' = tokens \/ \E t \in Tokens, owner \in {"live", "tomb"} :
                              /\ tokens[t].owner = "none"
                              /\ tokens' = [tokens EXCEPT ![t] = [owner |-> owner, born |-> era]]
    BY <1>3 DEF Mint
  <2>2. \A t \in Tokens : tokens[t].owner \in {"none", tokens'[t].owner}
    BY <1>0, <2>1 DEF TypeOK
  <2> QED BY <1>3, <2>2, WalkStays DEF Mint
<1>4. ASSUME NEW p \in Procs, NEW t \in Tokens, Revoke(p, t) \/ RevokeAll(p, t) PROVE Walks'
  <2>1. \A u \in Tokens : tokens'[u] \in {Gone, tokens[u]}
    BY <1>0, <1>4 DEF Revoke, RevokeAll, TypeOK
  <2>2. \A u \in Tokens : tokens[u].owner \in {"none", tokens'[u].owner} \/ tokens'[u].owner = "gone"
    BY <2>1 DEF Gone
  <2> QED BY <1>4, <2>2, WalkStays DEF Revoke, RevokeAll
<1>5. ASSUME NEW p \in Procs, NEW t \in Tokens, ListBookings(p, t) PROVE Walks'
  <2> DEFINE phone == tokens[t].owner
  <2>1. phone \in {"live", "tomb"}
    BY <1>5 DEF ListBookings, Verified
  <2>2. /\ WalkTyped(Begun(t, phone)) /\ SortedWalk(Begun(t, phone), phone)
        /\ Begun(t, phone).phone = phone /\ Begun(t, phone).watched = Owned(phone)
    BY <1>0, <2>1, WalkBegins
  <2>3. Begun(t, phone).token = t
    BY DEF Begun, Idle
  <2>4. ReadPage(phone, Begun(t, phone)) /\ UNCHANGED <<tokens, bookings>>
    BY <1>5 DEF ListBookings, Begun
  <2> QED BY <2>1, <2>2, <2>3, <2>4, WalkGoesOn
<1>6. ASSUME NEW p \in Procs, NextPage(p) PROVE Walks'
  <2>1. CASE Verified(pager.token) /\ ReadPage(tokens[pager.token].owner, pager)
    <3> DEFINE phone == tokens[pager.token].owner
    <3>1. pager.token # NoToken /\ UNCHANGED <<tokens, bookings>>
      BY <1>6 DEF NextPage
    <3>2. WalkTyped(pager) /\ phone \in {"live", "tomb"} /\ SortedWalk(pager, phone)
      BY <1>0, <2>1, <3>1, WalkContinues
    <3>3. /\ pager.phone \in {"live", "tomb"} /\ (phone = "live" => pager.phone = "live")
          /\ pager.phone = "tomb" => pager.watched \subseteq Owned("tomb")
      BY <1>0, <3>1 DEF WalkIsSorted
    <3> QED BY <2>1, <3>1, <3>2, <3>3, WalkGoesOn
  <2>2. CASE pager' = Idle
    BY <2>2 DEF Idle, Walks, WalkIsSorted, PagesShowAll
  <2> QED BY <1>6, <2>1, <2>2 DEF NextPage
<1>7. ASSUME NEW p \in Procs, EraseCommits(p) PROVE Walks'
  BY <1>7, WalkOfErased
<1>8. CASE UNCHANGED vars
  BY <1>8, WalkStays DEF vars
<1> QED BY <1>1, <1>2, <1>3, <1>4, <1>5, <1>6, <1>7, <1>8 DEF Next

-----------------------------------------------------------------------------
LEMMA IndInit == Init => IndInv
<1> SUFFICES ASSUME Init PROVE IndInv
  OBVIOUS
<1>1. TypeOK
  BY TypeInit
<1>2. /\ era = 0 /\ tombEra = 0 /\ doneEra = 0 /\ profile = {} /\ DOMAIN bookings = {}
      /\ \A t \in Tokens : tokens[t].owner = "none" /\ tokens[t].born = 0
      /\ \A p \in Procs : pc[p] = "idle"
      /\ pager.token = NoToken /\ pager.watched = {} /\ pager.shown = {} /\ pager.twice = {}
      /\ pager.phone = "none"
  BY DEF Init, Idle
<1>3. ErasuresInOrder
  BY <1>2 DEF ErasuresInOrder, Erasing
<1>4. BornByNow /\ BookingsHaveNames /\ ErasureIsComplete /\ DetailsAreCleared
  BY <1>2 DEF BornByNow, BookingsHaveNames, ErasureIsComplete, DetailsAreCleared, Owned
<1>5. WalkIsSorted /\ PagesShowAll
  BY <1>2 DEF WalkIsSorted, PagesShowAll
<1> QED BY <1>1, <1>3, <1>4, <1>5 DEF IndInv

(* The strengthened invariant of the erasure and the walks.                *)
THEOREM InductiveInvariant == Spec => []IndInv
<1>1. IndInv /\ [Next]_vars => IndInv'
  BY TypeStep, ErasuresStep, KeptStep, WalksStep DEF IndInv, Kept, Walks
<1> QED BY IndInit, <1>1, PTL DEF Spec

(* Every state is type correct.                                            *)
THEOREM TypeCorrect == Spec => []TypeOK
<1>1. IndInv => TypeOK
  BY DEF IndInv
<1> QED BY InductiveInvariant, <1>1, PTL

(* Whatever requests of other processes fall between the deletions of an   *)
(* erasure and its commit, nothing older than the commit is found again    *)
(* under the phone (anonymize_customer, persistence.py:2084-2174).         *)
THEOREM NothingOldIsFound == Spec => []ErasureIsComplete
<1>1. IndInv => ErasureIsComplete
  BY DEF IndInv
<1> QED BY InductiveInvariant, <1>1, PTL

(* No name reaches the tombstone, and details of bookings only with a      *)
(* second erasure or a later one, from what was committed under it         *)
(* (persistence.py:2116-2165).                                             *)
THEOREM DetailsLeaveWithTheFirstErasure == Spec => []DetailsAreCleared
<1>1. IndInv => DetailsAreCleared
  BY DEF IndInv
<1> QED BY InductiveInvariant, <1>1, PTL

(* The cursor of the booking list skips nothing and repeats nothing, with  *)
(* any ties, for pages of any size, while bookings are added and the phone *)
(* is erased (list_bookings_for_token, persistence.py:1817-1862).          *)
THEOREM WalksAreComplete == Spec => []PagesShowAll
<1>1. IndInv => PagesShowAll
  BY DEF IndInv
<1> QED BY InductiveInvariant, <1>1, PTL

(* What a commit took from the customer it never gives back: a booking of  *)
(* the tombstone is never moved or rewritten again, by no later erasure,   *)
(* and a deleted token is never valid again (persistence.py:2084-2174).    *)
NothingErasedReturns ==
  /\ \A b \in Owned("tomb") : b \in DOMAIN bookings' /\ bookings'[b] = bookings[b]
  /\ \A t \in Tokens : tokens[t].owner = "gone" => tokens'[t].owner = "gone"

LEMMA ErasedStep == IndInv /\ [Next]_vars => NothingErasedReturns
<1> SUFFICES ASSUME IndInv, [Next]_vars PROVE NothingErasedReturns
  OBVIOUS
<1>0. TypeOK
  BY DEF IndInv
<1>1. CASE UNCHANGED <<tokens, bookings>>
  BY <1>1 DEF NothingErasedReturns, Owned
<1>2. ASSUME NEW p \in Procs, Contact(p) \/ BotStage(p) \/ Identify(p) \/ Drop(p) \/ EraseBegins(p)
                              \/ EraseRollsBack(p) \/ NextPage(p)
      PROVE  NothingErasedReturns
  BY <1>1, <1>2 DEF Contact, BotStage, Identify, Drop, EraseBegins, EraseRollsBack, NextPage
<1>3. ASSUME NEW p \in Procs, Book(p) PROVE NothingErasedReturns
  <2>1. UNCHANGED tokens
    BY <1>3 DEF Book
  <2> QED BY <1>0, <1>3, <2>1, BookAppends DEF NothingErasedReturns, Owned
<1>4. ASSUME NEW p \in Procs, Mint(p) PROVE NothingErasedReturns
  <2>1. tokens' = tokens \/ \E t \in Tokens, owner \in {"live", "tomb"} :
                              /\ tokens[t].owner = "none"
                              /\ tokens' = [tokens EXCEPT ![t] = [owner |-> owner, born |-> era]]
    BY <1>4 DEF Mint
  <2>2. \A t \in Tokens : tokens[t].owner \in {"none", tokens'[t].owner}
    BY <1>0, <2>1 DEF TypeOK
  <2> QED BY <1>4, <2>2 DEF NothingErasedReturns, Owned, Mint
<1>5. ASSUME NEW p \in Procs, NEW t \in Tokens, Revoke(p, t) \/ RevokeAll(p, t)
      PROVE  NothingErasedReturns
  <2>1. \A u \in Tokens : tokens'[u] \in {Gone, tokens[u]}
    BY <1>0, <1>5 DEF Revoke, RevokeAll, TypeOK
  <2> QED BY <1>5, <2>1 DEF NothingErasedReturns, Owned, Revoke, RevokeAll, Gone
<1>6. ASSUME NEW p \in Procs, NEW t \in Tokens, ListBookings(p, t) PROVE NothingErasedReturns
  BY <1>1, <1>6 DEF ListBookings
<1>7. ASSUME NEW p \in Procs, EraseCommits(p) PROVE NothingErasedReturns
  <2>1. \A t \in Tokens : tokens[t].owner = "gone" => tokens'[t] = tokens[t]
    BY <1>0, <1>7, BequeathTyped DEF EraseCommits
  <2>2. \A b \in Owned("tomb") : b \in DOMAIN bookings' /\ bookings'[b] = bookings[b]
    BY <1>0, <1>7, CommitScrubs DEF Owned
  <2> QED BY <2>1, <2>2 DEF NothingErasedReturns
<1>8. CASE UNCHANGED vars
  BY <1>1, <1>8 DEF vars
<1> QED BY <1>2, <1>3, <1>4, <1>5, <1>6, <1>7, <1>8 DEF Next

(* No step gives back what an erasure took: the tombstone's bookings stay  *)
(* as they are, and deleted tokens stay deleted.                           *)
THEOREM ErasureIsFinal == Spec => [][NothingErasedReturns]_vars
<1>1. IndInv /\ [Next]_vars => NothingErasedReturns
  BY ErasedStep
<1> QED BY InductiveInvariant, <1>1, PTL DEF Spec
=============================================================================
