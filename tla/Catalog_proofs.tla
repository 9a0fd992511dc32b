--------------------------- MODULE Catalog_proofs ---------------------------
(***************************************************************************)
(* Proofs about Catalog, for any processes, codes, prices, lifetimes and   *)
(* number of edits.  Why the booking screen's prices settle: what an       *)
(* answer holds of the body was read after its request was sent, so an     *)
(* answer whose request is younger than the last disturbance is true; the  *)
(* copy's age is never set back by a 304, so a copy still in use is one    *)
(* whose request was sent at most Ttl and two flights ago.                 *)
(***************************************************************************)
EXTENDS Catalog, WellFoundedInduction, TLAPS

-----------------------------------------------------------------------------
(* Least and greatest elements.                                            *)

(* A set of naturals that is not empty has a least element.                *)
LEMMA Least ==
  ASSUME NEW T \in SUBSET Nat, T # {}
  PROVE  \E x \in T : \A y \in T : x <= y
<1> DEFINE R == OpToRel(<, Nat)
<1>1. IsWellFoundedOn(R, Nat)
  BY NatLessThanWellFounded
<1>2. \A x, y \in Nat : y < x => <<y, x>> \in R
  BY DEF OpToRel
<1> HIDE DEF R
<1>3. PICK x \in T : \A y \in T : <<y, x>> \notin R
  BY <1>1, WFMin
<1>4. \A y \in T : x <= y
  <2> TAKE y \in T
  <2>1. x \in Nat /\ y \in Nat
    OBVIOUS
  <2>2. ~(y < x)
    BY <1>2, <1>3, <2>1
  <2> QED BY <2>1, <2>2
<1> QED BY <1>4

(* One that is bounded as well has a greatest: turn it round under its     *)
(* bound.                                                                  *)
LEMMA Greatest ==
  ASSUME NEW T \in SUBSET Nat, T # {}, NEW b \in Nat, \A y \in T : y <= b
  PROVE  \E x \in T : \A y \in T : y <= x
<1> DEFINE U == {b - y : y \in T}
<1>1. U \in SUBSET Nat /\ U # {}
  <2>1. \A y \in T : y \in Nat /\ b - y \in Nat
    OBVIOUS
  <2>2. U \in SUBSET Nat
    BY <2>1
  <2>3. U # {}
    OBVIOUS
  <2> QED BY <2>2, <2>3
<1>2. PICK u \in U : \A v \in U : u <= v
  <2> HIDE DEF U
  <2> QED BY <1>1, Least
<1>3. PICK x \in T : u = b - x
  OBVIOUS
<1>4. \A y \in T : y <= x
  <2> TAKE y \in T
  <2>1. x \in Nat /\ y \in Nat /\ b - y \in U
    OBVIOUS
  <2>2. b - x <= b - y
    BY <1>2, <1>3, <2>1
  <2> QED BY <2>1, <2>2
<1> QED BY <1>4

(* So Max is the greatest element of such a set.                           *)
LEMMA MaxOf ==
  ASSUME NEW T \in SUBSET Nat, T # {}, NEW b \in Nat, \A y \in T : y <= b
  PROVE  Max(T) \in T /\ \A y \in T : y <= Max(T)
<1>1. PICK x \in T : \A y \in T : y <= x
  BY Greatest
<1>2. \E z \in T : \A y \in T : z >= y
  <2>1. \A y \in T : x >= y
    BY <1>1
  <2> QED BY <2>1
<1>3. Max(T) \in T /\ \A y \in T : Max(T) >= y
  BY <1>2 DEF Max
<1>4. Max(T) \in Nat
  BY <1>3
<1> QED BY <1>3, <1>4

-----------------------------------------------------------------------------
(* Reading the catalogue.                                                  *)

LEMMA PricesTyped ==
  ASSUME TypeOK, NEW d \in BOOLEAN, NEW e \in BOOLEAN
  PROVE  /\ PublicPrice(d) \in Prices /\ PublicPrice(d) # None
         /\ NormalizePromoCode(Asked, d) \in Codes \cup {None}
         /\ DiscountedPrice(Asked, d, e) \in Prices \cup {None}
<1>1. PublicPrice(d) \in Prices /\ PublicPrice(d) # None
  BY CatalogAssumption DEF PublicPrice, TypeOK, PriceRow
<1>2. NormalizePromoCode(Asked, d) \in Codes \cup {None}
  BY CatalogAssumption DEF NormalizePromoCode
<1>3. PromoPrice(Asked, e) \in Prices \cup {None}
  <2>1. discount[Asked] \in Discount \cup {None}
    BY CatalogAssumption DEF TypeOK
  <2> QED BY <2>1, CatalogAssumption DEF PromoPrice, Discount
<1> QED BY <1>1, <1>2, <1>3 DEF DiscountedPrice

(* The newest stamp of a table is one of its stamps.                       *)
LEMMA NewestTyped ==
  ASSUME NEW table, StampsOf(table) \subseteq Stamps
  PROVE  Newest(table) \in Seq(Stamps \cup {0})
<1>1. CASE StampsOf(table) = {}
  BY <1>1 DEF Newest
<1>2. CASE StampsOf(table) # {}
  <2> DEFINE T == StampsOf(table)
  <2>1. T \in SUBSET Nat /\ T # {} /\ \A y \in T : y <= MaxEdits
    BY <1>2 DEF Stamps
  <2> HIDE DEF T
  <2>2. Max(T) \in T
    BY <2>1, CatalogAssumption, MaxOf
  <2>3. Max(T) \in Stamps /\ Newest(table) = <<Max(T)>>
    BY <1>2, <2>2 DEF Newest, T
  <2> QED BY <2>3
<1> QED BY <1>1, <1>2

LEMMA SeedTyped ==
  ASSUME TypeOK, NEW d \in BOOLEAN
  PROVE  EtagSeed(d) \in Seq(Stamps \cup {0})
<1> DEFINE A == {priceRow}
           B == {promoRow[c] : c \in Codes}
           D == {discount[c] : c \in Codes}
           S == Seq(Stamps \cup {0})
<1>1. StampsOf(A) \subseteq Stamps
  BY DEF TypeOK, StampsOf, PriceRow
<1>2. StampsOf(B) \subseteq Stamps
  BY DEF TypeOK, StampsOf, PromoRow
<1>3. StampsOf(D) \subseteq Stamps
  BY DEF TypeOK, StampsOf, Discount
<1>4. Newest(A) \in S /\ Newest(B) \in S /\ Newest(D) \in S
  BY <1>1, <1>2, <1>3, NewestTyped
<1>5. <<>> \in S /\ <<0>> \in S
  OBVIOUS
<1>6. \A s, t \in S : s \o t \in S
  OBVIOUS
<1>7. EtagSeed(d) = IF d THEN <<>> ELSE <<0>> \o Newest(A) \o Newest(B) \o Newest(D)
  BY DEF EtagSeed, TablesRead
<1> HIDE DEF A, B, D, S
<1>8. <<0>> \o Newest(A) \o Newest(B) \o Newest(D) \in S
  BY <1>4, <1>5, <1>6
<1> QED BY <1>5, <1>7, <1>8 DEF S

(* While no row changes, the true answer stays.                            *)
LEMMA SameRowsSameTruth ==
  ASSUME UNCHANGED rows
  PROVE  /\ TrueCode' = TrueCode /\ TrueCut' = TrueCut /\ TruePrice' = TruePrice
         /\ PublicPrice(FALSE)' = PublicPrice(FALSE)
         /\ Truth' = Truth
<1>1. priceRow' = priceRow /\ promoRow' = promoRow /\ discount' = discount
  BY DEF rows
<1>2. PublicPrice(FALSE)' = PublicPrice(FALSE)
  BY <1>1 DEF PublicPrice
<1>3. Known(Asked, FALSE)' = Known(Asked, FALSE) /\ PromoPrice(Asked, FALSE)' = PromoPrice(Asked, FALSE)
  BY <1>1 DEF Known, HasRow, PromoPrice
<1>4. TrueCode' = TrueCode
  BY <1>3 DEF TrueCode, NormalizePromoCode
<1>5. TrueCut' = TrueCut
  BY <1>3, <1>4 DEF TrueCut, DiscountedPrice
<1>6. TruePrice' = TruePrice
  BY <1>2, <1>5 DEF TruePrice
<1> QED BY <1>2, <1>4, <1>5, <1>6 DEF Truth

-----------------------------------------------------------------------------
(* Types.                                                                  *)

LEMMA StaffTyped ==
  ASSUME TypeOK, Staff
  PROVE  TypeOK'
<1> USE CatalogAssumption
<1>1. PICK p \in Procs :
        \/ \E value \in Prices : BeginPublicPrice(p, value)
        \/ CommitPublicPrice(p)
        \/ \E c \in Codes, active \in BOOLEAN, cell \in Prices \cup {None}, down \in BOOLEAN :
             SubmitPromoForm(p, c, active, cell, down)
        \/ BeginPromoCode(p) \/ CommitPromoCode(p) \/ RollBack(p)
  BY DEF Staff
<1>2. ASSUME NEW value \in Prices, BeginPublicPrice(p, value) PROVE TypeOK'
  <2>1. begun' \in Stamps /\ begun' \in 0..MaxEdits
    BY <1>2 DEF BeginPublicPrice, Begins, Stamps, TypeOK
  <2>2. [value |-> value, stamp |-> begun', found |-> priceRow] \in PriceEdit
    BY <2>1 DEF PriceEdit, TypeOK
  <2> QED BY <1>2, <2>1, <2>2 DEF BeginPublicPrice, TypeOK, rows, pwa
<1>3. CASE CommitPublicPrice(p)
  <2>1. priceEdit[p] \in PriceEdit
    BY <1>3 DEF CommitPublicPrice, TypeOK
  <2>2. SavedPrice(priceEdit[p]) \in PriceRow \cup {None}
    BY <2>1 DEF SavedPrice, PriceEdit, PriceRow, TypeOK
  <2>3. 0 \in Quiet
    BY DEF Quiet
  <2> QED BY <1>3, <2>2, <2>3 DEF CommitPublicPrice, TypeOK, pwa
<1>4. ASSUME NEW c \in Codes, NEW active \in BOOLEAN, NEW cell \in Prices \cup {None},
             NEW down \in BOOLEAN, SubmitPromoForm(p, c, active, cell, down)
      PROVE  TypeOK'
  <2>1. [code |-> c, active |-> active, saved |-> SavedAsDiscount(cell, down)] \in PromoForm
    BY DEF SavedAsDiscount, PromoForm
  <2> QED BY <1>4, <2>1 DEF SubmitPromoForm, TypeOK, rows, pwa
<1>5. CASE BeginPromoCode(p)
  <2>1. begun' \in Stamps /\ begun' \in 0..MaxEdits
    BY <1>5 DEF BeginPromoCode, Begins, Stamps, TypeOK
  <2>2. promoForm[p] \in PromoForm /\ promoForm[p].code \in Codes
    BY <1>5 DEF BeginPromoCode, TypeOK, PromoForm
  <2>3. [form |-> promoForm[p], stamp |-> begun', found |-> promoRow[promoForm[p].code],
         discount |-> discount[promoForm[p].code]] \in PromoEdit
    BY <2>1, <2>2 DEF PromoEdit, TypeOK
  <2> QED BY <1>5, <2>1, <2>3 DEF BeginPromoCode, TypeOK, rows, pwa
<1>6. CASE CommitPromoCode(p)
  <2> DEFINE t == promoEdit[p]
  <2>1. t \in PromoEdit /\ t.form \in PromoForm /\ t.form.code \in Codes
    BY <1>6 DEF CommitPromoCode, TypeOK, PromoEdit, PromoForm
  <2>2. SavedPromo(t) \in PromoRow \cup {None}
    BY <2>1 DEF SavedPromo, PromoRow, PromoEdit, PromoForm, TypeOK
  <2>3. SavedDiscounts(t) \subseteq Discount \cup {None}
    BY <2>1 DEF SavedDiscounts, NotSeen, Discount, PromoEdit, PromoForm, TypeOK
  <2>4. 0 \in Quiet
    BY DEF Quiet
  <2> HIDE DEF t
  <2>5. /\ promoRow' = [promoRow EXCEPT ![t.form.code] = SavedPromo(t)]
        /\ \E d \in SavedDiscounts(t) : discount' = [discount EXCEPT ![t.form.code] = d]
        /\ promoEdit' = [promoEdit EXCEPT ![p] = None]
        /\ quiet' = 0
        /\ UNCHANGED <<begun, priceRow, priceEdit, promoForm, fetch, copy>>
    BY <1>6 DEF CommitPromoCode, t, pwa
  <2>6. promoRow' \in [Codes -> PromoRow \cup {None}] /\ discount' \in [Codes -> Discount \cup {None}]
    BY <2>2, <2>3, <2>5 DEF TypeOK
  <2> QED BY <2>4, <2>5, <2>6 DEF TypeOK
<1>7. CASE RollBack(p)
  BY <1>7 DEF RollBack, TypeOK, rows, pwa
<1> QED BY <1>1, <1>2, <1>3, <1>4, <1>5, <1>6, <1>7

(* Staff leaves the PWA's side alone.                                      *)
LEMMA StaffAndThePwa ==
  ASSUME Staff
  PROVE  UNCHANGED pwa /\ (quiet' = 0 \/ UNCHANGED <<rows, quiet>>)
BY DEF Staff, BeginPublicPrice, CommitPublicPrice, SubmitPromoForm, BeginPromoCode,
       CommitPromoCode, RollBack

LEMMA PwaTyped ==
  ASSUME TypeOK, FetchIsFilled, NamedInDate,
         GetBootstrap \/ Readings \/ UseCopy \/ StoreCopy \/ Lost \/ Tick
  PROVE  TypeOK' /\ FetchIsFilled'
<1> USE CatalogAssumption, NoneAssumption
<1>1. SUFFICES /\ UNCHANGED <<rows, edits>>
               /\ fetch' \in Fetch \cup {None} /\ copy' \in Copy \cup {None} /\ quiet' \in Quiet
               /\ FetchIsFilled'
  BY DEF TypeOK, rows, edits
<1>2. /\ fetch \in Fetch \cup {None} /\ copy \in Copy \cup {None} /\ quiet \in Quiet /\ 0 \in Quiet
      /\ 0 \in Ages
  BY DEF TypeOK, Quiet, Ages
<1>3. CASE GetBootstrap
  <2>1. [at |-> "code", age |-> 0, code |-> None, etag |-> None, price |-> None, regular |-> None] \in Fetch
    BY DEF Fetch, Stages
  <2> QED BY <1>2, <1>3, <2>1 DEF GetBootstrap, FetchIsFilled
<1>4. ASSUME NEW down \in BOOLEAN, ReadCode(down)
      PROVE  /\ UNCHANGED <<rows, edits>>
             /\ fetch' \in Fetch \cup {None} /\ copy' \in Copy \cup {None} /\ quiet' \in Quiet
             /\ FetchIsFilled'
  BY <1>2, <1>4, PricesTyped DEF ReadCode, At, Fetch, Stages, FetchIsFilled
<1>5. ASSUME NEW down \in BOOLEAN, ReadSeed(down)
      PROVE  /\ UNCHANGED <<rows, edits>>
             /\ fetch' \in Fetch \cup {None} /\ copy' \in Copy \cup {None} /\ quiet' \in Quiet
             /\ FetchIsFilled'
  <2> DEFINE etag == [seed |-> EtagSeed(down), code |-> fetch.code]
  <2>1. fetch \in Fetch /\ fetch # None
    BY <1>2, <1>5 DEF ReadSeed, At
  <2>2. etag \in Etag /\ etag # None
    BY <2>1, SeedTyped DEF Etag, Fetch
  <2>3. /\ fetch' = [fetch EXCEPT !.at = IF EtagMatches(etag) THEN "confirmed" ELSE "collect",
                                 !.etag = etag]
        /\ UNCHANGED <<rows, edits, copy, quiet>>
    BY <1>5 DEF ReadSeed
  <2> HIDE DEF etag
  <2> QED BY <1>2, <2>1, <2>2, <2>3 DEF Fetch, Stages, FetchIsFilled
<1>6. ASSUME NEW down \in BOOLEAN, CollectServices(down)
      PROVE  /\ UNCHANGED <<rows, edits>>
             /\ fetch' \in Fetch \cup {None} /\ copy' \in Copy \cup {None} /\ quiet' \in Quiet
             /\ FetchIsFilled'
  BY <1>2, <1>6, PricesTyped DEF CollectServices, At, Disturbs, Fetch, Stages, FetchIsFilled
<1>7. ASSUME NEW d \in BOOLEAN, NEW e \in BOOLEAN, ReadDiscount(d, e)
      PROVE  /\ UNCHANGED <<rows, edits>>
             /\ fetch' \in Fetch \cup {None} /\ copy' \in Copy \cup {None} /\ quiet' \in Quiet
             /\ FetchIsFilled'
  <2> DEFINE cut == IF fetch.code = None THEN None ELSE DiscountedPrice(Asked, d, e)
  <2>1. fetch \in Fetch /\ fetch # None /\ fetch.at = "discount"
    BY <1>2, <1>7 DEF ReadDiscount, At
  <2>2. cut \in Prices \cup {None}
    BY PricesTyped
  <2>3. /\ fetch' = [fetch EXCEPT !.at = IF cut = None THEN "public" ELSE "regular", !.price = cut]
        /\ Disturbs(d \/ e) /\ UNCHANGED <<rows, edits, copy>>
    BY <1>7 DEF ReadDiscount
  <2> HIDE DEF cut
  <2> QED BY <1>2, <2>1, <2>2, <2>3 DEF Disturbs, Fetch, Stages, FetchIsFilled
<1>8. ASSUME NEW down \in BOOLEAN, ReadPublic(down)
      PROVE  /\ UNCHANGED <<rows, edits>>
             /\ fetch' \in Fetch \cup {None} /\ copy' \in Copy \cup {None} /\ quiet' \in Quiet
             /\ FetchIsFilled'
  BY <1>2, <1>8, PricesTyped DEF ReadPublic, At, Disturbs, Fetch, Stages, FetchIsFilled
<1>9. ASSUME NEW down \in BOOLEAN, ReadRegular(down)
      PROVE  /\ UNCHANGED <<rows, edits>>
             /\ fetch' \in Fetch \cup {None} /\ copy' \in Copy \cup {None} /\ quiet' \in Quiet
             /\ FetchIsFilled'
  BY <1>2, <1>9, PricesTyped DEF ReadRegular, At, Disturbs, Fetch, Stages, FetchIsFilled
<1>10. CASE UseCopy
  BY <1>2, <1>10 DEF UseCopy, FetchIsFilled
<1>11. CASE StoreCopy
  <2>1. /\ fetch \in Fetch /\ fetch.etag \in Etag /\ fetch.price \in Prices /\ fetch.regular \in Prices
    BY <1>2, <1>11 DEF StoreCopy, At, Fetch, FetchIsFilled
  <2>2. ServiceOut(fetch.code, fetch.price, fetch.regular) \in Body
    BY <2>1 DEF ServiceOut, Body
  <2>3. [etag |-> fetch.etag, age |-> 0,
         body |-> ServiceOut(fetch.code, fetch.price, fetch.regular)] \in Copy
    BY <1>2, <2>1, <2>2 DEF Copy
  <2> QED BY <1>2, <1>11, <2>3 DEF StoreCopy, FetchIsFilled
<1>12. CASE Lost
  BY <1>2, <1>12 DEF Lost, FetchIsFilled
<1>13. CASE Tick
  <2>1. fetch # None => fetch.age \in 0..Flight /\ fetch.age + 1 \in 0..Flight
    BY <1>2, <1>13 DEF Tick, Fetch
  <2>2. fetch' \in Fetch \cup {None} /\ FetchIsFilled'
    BY <1>2, <1>13, <2>1 DEF Tick, Fetch, FetchIsFilled
  <2>3. \A a \in Ages : Older(a, Ttl + Flight + 1) \in Ages
    BY DEF Ages, Older
  <2>4. copy' \in Copy \cup {None}
    BY <1>2, <1>13, <2>3 DEF Tick, Copy
  <2>5. quiet' \in Quiet
    BY <1>2, <1>13 DEF Tick, Quiet, Older
  <2> QED BY <1>13, <2>2, <2>4, <2>5 DEF Tick
<1> QED BY <1>3, <1>4, <1>5, <1>6, <1>7, <1>8, <1>9, <1>10, <1>11, <1>12, <1>13 DEF Readings

-----------------------------------------------------------------------------
(* What is held is true unless it was disturbed.                           *)

LEMMA PwaQuiet ==
  ASSUME IndInv, TypeOK', GetBootstrap \/ Readings \/ UseCopy \/ StoreCopy \/ Lost \/ Tick
  PROVE  FetchIsQuiet' /\ CopyIsQuiet' /\ NamedInDate'
<1> USE CatalogAssumption, NoneAssumption
<1> DEFINE Goal == FetchIsQuiet' /\ CopyIsQuiet' /\ NamedInDate'
<1>1. /\ quiet \in Nat
      /\ fetch # None => fetch \in Fetch /\ fetch.age \in Nat /\ fetch.age <= Flight
      /\ copy # None => copy \in Copy /\ copy.age \in Nat
      /\ fetch' # None => fetch' \in Fetch /\ fetch'.age \in Nat
      /\ copy' # None => copy' \in Copy /\ copy'.age \in Nat
  BY DEF IndInv, TypeOK, Quiet, Fetch, Copy, Ages
<1>2. UNCHANGED rows
  BY DEF GetBootstrap, Readings, ReadCode, ReadSeed, CollectServices, ReadDiscount, ReadPublic,
         ReadRegular, UseCopy, StoreCopy, Lost, Tick
<1>3. /\ TrueCode' = TrueCode /\ TrueCut' = TrueCut /\ TruePrice' = TruePrice
      /\ PublicPrice(FALSE)' = PublicPrice(FALSE) /\ Truth' = Truth
  BY <1>2, SameRowsSameTruth
<1>4. FetchIsQuiet /\ CopyIsQuiet /\ NamedInDate
  BY DEF IndInv
\* A reading leaves the copy and the request's age; one that fails disturbs.
<1>5. ASSUME fetch # None, fetch'.age = fetch.age, fetch'.at # "confirmed",
             copy' = copy, quiet' = 0 \/ (quiet' = quiet /\ FetchIsQuiet')
      PROVE  Goal
  <2>1. FetchIsQuiet'
    <3>1. CASE quiet' = 0
      <4>1. fetch'.age \in Nat
        BY <1>1, <1>5
      <4>2. ~(quiet' > fetch'.age)
        BY <3>1, <4>1
      <4> QED BY <4>2 DEF FetchIsQuiet
    <3> QED BY <1>5, <3>1
  <2>2. CopyIsQuiet'
    BY <1>1, <1>3, <1>4, <1>5 DEF CopyIsQuiet
  <2>3. NamedInDate'
    BY <1>4, <1>5 DEF NamedInDate, At
  <2> QED BY <2>1, <2>2, <2>3
<1>6. CASE GetBootstrap
  <2>1. FetchIsQuiet'
    BY <1>6 DEF GetBootstrap, FetchIsQuiet
  <2>2. CopyIsQuiet'
    BY <1>3, <1>4, <1>6 DEF GetBootstrap, CopyIsQuiet
  <2>3. NamedInDate'
    BY <1>1, <1>6 DEF GetBootstrap, NamedInDate, InDate, At
  <2> QED BY <2>1, <2>2, <2>3
<1>7. ASSUME NEW down \in BOOLEAN, ReadCode(down) PROVE Goal
  <2>1. /\ fetch # None /\ fetch' = [fetch EXCEPT !.at = "seed", !.code = NormalizePromoCode(Asked, down)]
        /\ copy' = copy /\ quiet' = quiet
    BY <1>7 DEF ReadCode, At
  <2>2. fetch'.at = "seed" /\ fetch'.age = fetch.age
    BY <1>1, <2>1 DEF Fetch
  <2>3. FetchIsQuiet'
    BY <2>2 DEF FetchIsQuiet
  <2> QED BY <1>5, <2>1, <2>2, <2>3
<1>8. ASSUME NEW down \in BOOLEAN, ReadSeed(down) PROVE Goal
  <2> DEFINE etag == [seed |-> EtagSeed(down), code |-> fetch.code]
             next == IF EtagMatches(etag) THEN "confirmed" ELSE "collect"
  <2>1. /\ fetch # None /\ fetch' = [fetch EXCEPT !.at = next, !.etag = etag]
        /\ copy' = copy /\ quiet' = quiet
    BY <1>8 DEF ReadSeed, At
  <2>2. (next = "confirmed" /\ copy # None) \/ next = "collect"
    BY DEF EtagMatches
  <2> HIDE DEF etag, next
  <2>3. fetch'.at = next /\ fetch'.age = fetch.age
    BY <1>1, <2>1 DEF Fetch
  <2>4. FetchIsQuiet'
    BY <2>2, <2>3 DEF FetchIsQuiet
  <2>5. CopyIsQuiet'
    BY <1>3, <1>4, <2>1 DEF CopyIsQuiet
  <2>6. NamedInDate'
    BY <1>4, <2>1, <2>2, <2>3 DEF NamedInDate, At
  <2> QED BY <2>4, <2>5, <2>6
<1>9. ASSUME NEW down \in BOOLEAN, CollectServices(down) PROVE Goal
  <2>1. /\ fetch # None /\ fetch' = [fetch EXCEPT !.at = "discount", !.code = NormalizePromoCode(Asked, down)]
        /\ copy' = copy /\ quiet' = IF down THEN 0 ELSE quiet
    BY <1>9 DEF CollectServices, At, Disturbs
  <2>2. fetch'.at = "discount" /\ fetch'.age = fetch.age
        /\ fetch'.code = NormalizePromoCode(Asked, down)
    BY <1>1, <2>1 DEF Fetch
  <2>3. ASSUME ~down PROVE FetchIsQuiet'
    <3>1. fetch'.code = TrueCode
      BY <2>2, <2>3 DEF TrueCode
    <3> QED BY <1>3, <2>2, <3>1 DEF FetchIsQuiet
  <2> QED BY <1>5, <2>1, <2>2, <2>3
<1>10. ASSUME NEW d \in BOOLEAN, NEW e \in BOOLEAN, ReadDiscount(d, e) PROVE Goal
  <2> DEFINE cut == IF fetch.code = None THEN None ELSE DiscountedPrice(Asked, d, e)
             next == IF cut = None THEN "public" ELSE "regular"
  <2>1. /\ fetch # None /\ fetch.at = "discount"
        /\ fetch' = [fetch EXCEPT !.at = next, !.price = cut]
        /\ copy' = copy /\ quiet' = IF d \/ e THEN 0 ELSE quiet
    BY <1>10 DEF ReadDiscount, At, Disturbs
  <2>2. fetch'.at = next /\ fetch'.age = fetch.age /\ fetch'.price = cut
        /\ fetch'.code = fetch.code
    BY <1>1, <2>1 DEF Fetch
  <2>3. ASSUME ~d, ~e, fetch.code = TrueCode PROVE cut = TrueCut
    BY <2>3 DEF TrueCut
  <2>4. ASSUME cut = TrueCut PROVE (next = "public" /\ TrueCut = None) \/ (next = "regular" /\ cut = TruePrice)
    BY <2>4 DEF TruePrice
  <2>5. next \in {"public", "regular"}
    OBVIOUS
  <2> HIDE DEF cut, next
  <2>6. ASSUME ~d, ~e, quiet' > fetch'.age PROVE fetch.code = TrueCode
    BY <1>4, <2>1, <2>2, <2>6 DEF FetchIsQuiet
  <2>7. ASSUME ~d, ~e PROVE FetchIsQuiet'
    BY <1>3, <2>2, <2>3, <2>4, <2>5, <2>6, <2>7 DEF FetchIsQuiet
  <2>8. fetch'.at # "confirmed"
    BY <2>2, <2>5
  <2>9. quiet' = 0 \/ (quiet' = quiet /\ FetchIsQuiet')
    BY <2>1, <2>7
  <2> QED BY <1>5, <2>1, <2>2, <2>8, <2>9
<1>11. ASSUME NEW down \in BOOLEAN, ReadPublic(down) PROVE Goal
  <2>1. /\ fetch # None /\ fetch.at = "public"
        /\ fetch' = [fetch EXCEPT !.at = "regular", !.price = PublicPrice(down)]
        /\ copy' = copy /\ quiet' = IF down THEN 0 ELSE quiet
    BY <1>11 DEF ReadPublic, At, Disturbs
  <2>2. fetch'.at = "regular" /\ fetch'.age = fetch.age
        /\ fetch'.price = PublicPrice(down) /\ fetch'.code = fetch.code
    BY <1>1, <2>1 DEF Fetch
  <2>3. ASSUME ~down PROVE FetchIsQuiet'
    <3>1. ASSUME quiet' > fetch'.age PROVE fetch.code = TrueCode /\ TrueCut = None
      BY <1>4, <2>1, <2>2, <2>3, <3>1 DEF FetchIsQuiet
    <3>2. ASSUME TrueCut = None PROVE fetch'.price = TruePrice
      BY <2>2, <2>3, <3>2 DEF TruePrice
    <3> QED BY <1>3, <2>2, <3>1, <3>2 DEF FetchIsQuiet
  <2> QED BY <1>5, <2>1, <2>2, <2>3
<1>12. ASSUME NEW down \in BOOLEAN, ReadRegular(down) PROVE Goal
  <2>1. /\ fetch # None /\ fetch.at = "regular"
        /\ fetch' = [fetch EXCEPT !.at = "answered", !.regular = PublicPrice(down)]
        /\ copy' = copy /\ quiet' = IF down THEN 0 ELSE quiet
    BY <1>12 DEF ReadRegular, At, Disturbs
  <2>2. fetch'.at = "answered" /\ fetch'.age = fetch.age
        /\ fetch'.price = fetch.price /\ fetch'.code = fetch.code /\ fetch'.regular = PublicPrice(down)
    BY <1>1, <2>1 DEF Fetch
  <2>3. ASSUME ~down PROVE FetchIsQuiet'
    <3>1. ASSUME quiet' > fetch'.age PROVE fetch.code = TrueCode /\ fetch.price = TruePrice
      BY <1>4, <2>1, <2>2, <2>3, <3>1 DEF FetchIsQuiet
    <3>2. fetch'.regular = PublicPrice(FALSE)
      BY <2>2, <2>3
    <3> QED BY <1>3, <2>2, <3>1, <3>2 DEF FetchIsQuiet
  <2> QED BY <1>5, <2>1, <2>2, <2>3
<1>13. CASE UseCopy \/ Lost
  <2>1. fetch' = None /\ copy' = copy /\ quiet' = quiet
    BY <1>13 DEF UseCopy, Lost
  <2>2. CopyIsQuiet'
    BY <1>3, <1>4, <2>1 DEF CopyIsQuiet
  <2> QED BY <2>1, <2>2 DEF FetchIsQuiet, NamedInDate, At
<1>14. CASE StoreCopy
  <2>1. /\ fetch # None /\ fetch.at = "answered" /\ fetch' = None /\ quiet' = quiet
        /\ copy' = [etag |-> fetch.etag, age |-> 0,
                    body |-> ServiceOut(fetch.code, fetch.price, fetch.regular)]
    BY <1>14 DEF StoreCopy, At
  <2>2. ASSUME quiet > Flight PROVE copy'.body = Truth
    <3>1. quiet > fetch.age
      BY <1>1, <2>1, <2>2
    <3>2. fetch.code = TrueCode /\ fetch.price = TruePrice /\ fetch.regular = PublicPrice(FALSE)
      BY <1>4, <2>1, <3>1 DEF FetchIsQuiet
    <3> QED BY <2>1, <3>2 DEF Truth
  <2>3. CopyIsQuiet'
    BY <1>3, <2>1, <2>2 DEF CopyIsQuiet
  <2> QED BY <2>1, <2>3 DEF FetchIsQuiet, NamedInDate, At
<1>15. CASE Tick
  <2>1. /\ fetch' = IF fetch = None THEN None ELSE [fetch EXCEPT !.age = @ + 1]
        /\ copy' = IF copy = None THEN None ELSE [copy EXCEPT !.age = Older(@, Ttl + Flight + 1)]
        /\ quiet' = Older(quiet, Ttl + 2 * Flight + 1)
        /\ fetch # None => fetch.age < Flight
    BY <1>15 DEF Tick
  <2>2. /\ fetch' # None => /\ fetch # None /\ fetch'.age = fetch.age + 1 /\ fetch'.at = fetch.at
                           /\ fetch'.code = fetch.code /\ fetch'.price = fetch.price
                           /\ fetch'.regular = fetch.regular
        /\ copy' # None => /\ copy # None /\ copy'.body = copy.body
                          /\ copy'.age = Older(copy.age, Ttl + Flight + 1)
        /\ copy # None => copy' # None
    <3>1. ASSUME fetch # None
          PROVE  /\ fetch'.age = fetch.age + 1 /\ fetch'.at = fetch.at
                 /\ fetch'.code = fetch.code /\ fetch'.price = fetch.price
                 /\ fetch'.regular = fetch.regular
      BY <1>1, <2>1, <3>1 DEF Fetch
    <3>2. ASSUME copy # None
          PROVE  copy' # None /\ copy'.body = copy.body /\ copy'.age = Older(copy.age, Ttl + Flight + 1)
      <4>1. copy \in Copy /\ copy' = [copy EXCEPT !.age = Older(copy.age, Ttl + Flight + 1)]
        BY <1>1, <2>1, <3>2
      <4>2. Older(copy.age, Ttl + Flight + 1) \in Ages
        BY <4>1 DEF Copy, Ages, Older
      <4>3. copy' \in Copy
        BY <4>1, <4>2 DEF Copy
      <4> QED BY <4>1, <4>3 DEF Copy
    <3> QED BY <2>1, <3>1, <3>2
  <2>3. quiet <= Ttl + 2 * Flight + 1
    BY DEF IndInv, TypeOK, Quiet
  <2>4. ASSUME fetch' # None, quiet' > fetch'.age PROVE quiet > fetch.age
    BY <1>1, <2>1, <2>2, <2>3, <2>4 DEF Older
  <2>5. FetchIsQuiet'
    BY <1>3, <1>4, <2>2, <2>4 DEF FetchIsQuiet
  <2>6. ASSUME copy' # None, copy'.age <= Ttl + Flight, quiet' > copy'.age + Flight
        PROVE  copy.age <= Ttl + Flight /\ quiet > copy.age + Flight
    BY <1>1, <2>1, <2>2, <2>3, <2>6 DEF Older
  <2>7. CopyIsQuiet'
    BY <1>3, <1>4, <2>2, <2>6 DEF CopyIsQuiet
  <2>8. copy' # None /\ fetch' # None => copy'.age <= Ttl + fetch'.age
    BY <1>1, <1>4, <2>2 DEF NamedInDate, Older
  <2>9. NamedInDate'
    BY <1>4, <2>2, <2>8 DEF NamedInDate, At
  <2> QED BY <2>5, <2>7, <2>9
<1> QED BY <1>6, <1>7, <1>8, <1>9, <1>10, <1>11, <1>12, <1>13, <1>14, <1>15 DEF Readings

-----------------------------------------------------------------------------
(* Types, and what a request and a copy hold, in every state.              *)
THEOREM InductiveInvariant == Spec => []IndInv
<1>1. Init => IndInv
  BY CatalogAssumption DEF Init, IndInv, TypeOK, Quiet, FetchIsFilled, FetchIsQuiet, CopyIsQuiet,
                           NamedInDate, At
<1>2. IndInv /\ [Next]_vars => IndInv'
  <2> SUFFICES ASSUME IndInv, [Next]_vars PROVE IndInv'
    OBVIOUS
  <2>1. CASE Staff
    <3>1. TypeOK'
      BY <2>1, StaffTyped DEF IndInv
    <3>2. fetch' = fetch /\ copy' = copy /\ (quiet' = 0 \/ UNCHANGED <<rows, quiet>>)
      BY <2>1, StaffAndThePwa DEF pwa
    <3>3. FetchIsFilled' /\ NamedInDate'
      BY <3>2 DEF IndInv, FetchIsFilled, NamedInDate, At
    <3>4. CASE quiet' = 0
      <4>1. /\ fetch # None => fetch.age \in Nat
            /\ copy # None => copy.age \in Nat
        BY DEF IndInv, TypeOK, Fetch, Copy, Ages
      <4>2. FetchIsQuiet'
        <5>1. ~(fetch' # None /\ quiet' > fetch'.age)
          BY <3>2, <3>4, <4>1
        <5> QED BY <5>1 DEF FetchIsQuiet
      <4>3. CopyIsQuiet'
        <5>1. ~(copy' # None /\ quiet' > copy'.age + Flight)
          BY <3>2, <3>4, <4>1, CatalogAssumption
        <5> QED BY <5>1 DEF CopyIsQuiet
      <4> QED BY <3>1, <3>3, <4>2, <4>3 DEF IndInv
    <3>5. CASE UNCHANGED <<rows, quiet>>
      <4>1. /\ TrueCode' = TrueCode /\ TrueCut' = TrueCut /\ TruePrice' = TruePrice
            /\ PublicPrice(FALSE)' = PublicPrice(FALSE) /\ Truth' = Truth
        BY <3>5, SameRowsSameTruth
      <4>2. FetchIsQuiet' /\ CopyIsQuiet'
        BY <3>2, <3>5, <4>1 DEF IndInv, FetchIsQuiet, CopyIsQuiet
      <4> QED BY <3>1, <3>3, <4>2 DEF IndInv
    <3> QED BY <3>2, <3>4, <3>5
  <2>2. CASE GetBootstrap \/ Readings \/ UseCopy \/ StoreCopy \/ Lost \/ Tick
    <3>1. TypeOK' /\ FetchIsFilled'
      BY <2>2, PwaTyped DEF IndInv
    <3>2. FetchIsQuiet' /\ CopyIsQuiet' /\ NamedInDate'
      BY <2>2, <3>1, PwaQuiet
    <3> QED BY <3>1, <3>2 DEF IndInv
  <2>3. CASE UNCHANGED vars
    <3>1. /\ UNCHANGED <<priceRow, promoRow, discount, begun, priceEdit, promoForm, promoEdit>>
          /\ UNCHANGED <<fetch, copy, quiet, rows>>
      BY <2>3 DEF vars, rows, edits, pwa
    <3>2. /\ TrueCode' = TrueCode /\ TrueCut' = TrueCut /\ TruePrice' = TruePrice
          /\ PublicPrice(FALSE)' = PublicPrice(FALSE) /\ Truth' = Truth
      BY <3>1, SameRowsSameTruth
    <3> QED BY <3>1, <3>2 DEF IndInv, TypeOK, FetchIsFilled, FetchIsQuiet, CopyIsQuiet, NamedInDate, At
  <2> QED BY <2>1, <2>2, <2>3 DEF Next
<1> QED BY <1>1, <1>2, PTL DEF Spec

(* Rows, edits, requests and copies keep their types.                      *)
THEOREM TypeCorrect == Spec => []TypeOK
<1>1. IndInv => TypeOK
  BY DEF IndInv
<1> QED BY <1>1, InductiveInvariant, PTL

(* When nothing was edited and no reading failed for the copy's lifetime   *)
(* and two requests, the booking screen is given what the database says,   *)
(* whatever edits and failures there were before.                          *)
THEOREM PricesSettle == Spec => SettlesWithinADay
<1>1. IndInv /\ [Next]_vars =>
        [(UseCopy \/ StoreCopy) /\ quiet > Ttl + 2 * Flight => copy'.body = Truth]_vars
  <2> SUFFICES ASSUME IndInv, UseCopy \/ StoreCopy, quiet > Ttl + 2 * Flight
               PROVE  copy'.body = Truth
    OBVIOUS
  <2>1. /\ quiet \in Nat
        /\ fetch # None /\ fetch.age \in Nat /\ fetch.age <= Flight
        /\ copy # None => copy.age \in Nat
    BY NoneAssumption, CatalogAssumption DEF IndInv, TypeOK, Quiet, Fetch, Copy, Ages, UseCopy, StoreCopy, At
  <2>2. CASE UseCopy
    <3>1. copy' = copy /\ copy # None
      BY <2>2 DEF UseCopy, IndInv, NamedInDate
    <3>2. copy.age <= Ttl + Flight /\ quiet > copy.age + Flight
      BY <2>1, <3>1, CatalogAssumption DEF IndInv, NamedInDate
    <3> QED BY <3>1, <3>2 DEF IndInv, CopyIsQuiet
  <2>3. CASE StoreCopy
    <3>1. /\ fetch # None /\ fetch.at = "answered"
          /\ copy' = [etag |-> fetch.etag, age |-> 0,
                      body |-> ServiceOut(fetch.code, fetch.price, fetch.regular)]
      BY <2>3 DEF StoreCopy, At
    <3>2. quiet > fetch.age
      BY <2>1, CatalogAssumption
    <3>3. fetch.code = TrueCode /\ fetch.price = TruePrice /\ fetch.regular = PublicPrice(FALSE)
      BY <3>1, <3>2 DEF IndInv, FetchIsQuiet
    <3> QED BY <3>1, <3>3 DEF Truth
  <2> QED BY <2>2, <2>3
<1> QED BY <1>1, InductiveInvariant, PTL DEF Spec, SettlesWithinADay
=============================================================================
