------------------------------ MODULE Catalog ------------------------------
(***************************************************************************)
(* Prices, promo codes and the PWA's copy of the catalogue                 *)
(* (app/catalog.py, the price and promo forms of app/admin.py, the         *)
(* bootstrap request of app/api.py and its cache in mobile-app/api.js).    *)
(* Rows of the database override the static catalogue; a read that fails   *)
(* falls back to it.  The PWA keeps the bootstrap answer for Ttl and asks  *)
(* whether it still holds by an ETag made of the newest updated_at of each *)
(* table, which is the time the writing transaction began.                 *)
(*                                                                         *)
(* One service in one car category, one PWA.  Every reading is a           *)
(* transaction of its own, and edits of overlapping processes commit       *)
(* between any two of them.                                                *)
(***************************************************************************)
EXTENDS Integers, Sequences, FiniteSets, FiniteSetsExt

CONSTANTS
  Procs,           \* processes serving the admin portal, one edit each at a time
  Codes,           \* promo codes
  StaticDiscount,  \* codes of the static catalogue: their price
  Asked,           \* the code the PWA asks the catalogue for
  Prices,          \* prices in DH
  StaticPrice,     \* the static public price
  None,            \* no row, no copy, no edit, no price
  Ttl,             \* how long the PWA uses a copy
  Flight,          \* how long a bootstrap request and its answer take at most
  MaxEdits         \* bound: edits

ASSUME CatalogAssumption ==
  /\ Asked \in Codes /\ None \notin Codes
  /\ Prices \subseteq Nat /\ None \notin Prices /\ StaticPrice \in Prices
  /\ DOMAIN StaticDiscount \subseteq Codes
  /\ \A c \in DOMAIN StaticDiscount : StaticDiscount[c] \in Prices
  /\ Ttl \in Nat /\ Flight \in Nat /\ MaxEdits \in Nat

Stamps == 1..MaxEdits
Ages == 0..(Ttl + Flight + 1)          \* of a copy: beyond Ttl it is not used
Quiet == 0..(Ttl + 2 * Flight + 1)     \* time without a disturbance
PriceRow == [value: Prices, stamp: Stamps]
PromoRow == [active: BOOLEAN, stamp: Stamps]
Discount == [value: Prices, stamp: Stamps]

\* An edit whose transaction has begun: its stamp and what it found.
PriceEdit == [value: Prices, stamp: Stamps, found: PriceRow \cup {None}]
PromoForm == [code: Codes, active: BOOLEAN, saved: Prices \cup {None}]
PromoEdit == [form: PromoForm, stamp: Stamps,
              found: PromoRow \cup {None}, discount: Discount \cup {None}]

Body == [price: Prices, regular: Prices \cup {None}]
Etag == [seed: Seq(Stamps \cup {0}), code: Codes \cup {None}]
Copy == [etag: Etag, body: Body, age: Ages]
Stages == {"code", "seed", "collect", "discount", "public", "regular", "confirmed", "answered"}
Fetch == [at: Stages, age: 0..Flight, code: Codes \cup {None}, etag: Etag \cup {None},
          price: Prices \cup {None}, regular: Prices \cup {None}]

(* None is told from every record.                                         *)
ASSUME NoneAssumption ==
  None \notin PriceRow \cup PromoRow \cup Discount \cup PriceEdit \cup PromoForm
                \cup PromoEdit \cup Body \cup Etag \cup Copy \cup Fetch

VARIABLES
  begun,      \* edit transactions begun; the n-th one stamps its rows with n
  priceRow,   \* the service's price row
  promoRow,   \* per code: its row
  discount,   \* per code: its discount on the service
  priceEdit,  \* per process: a price form's transaction
  promoForm,  \* per process: a promo form submitted, its transaction not begun
  promoEdit,  \* per process: a promo form's transaction
  fetch,      \* the PWA's bootstrap request
  copy,       \* the PWA's copy of an answer
  quiet       \* for how long no edit committed and no reading for a body failed

rows == <<priceRow, promoRow, discount>>
edits == <<begun, priceEdit, promoForm, promoEdit>>
pwa == <<fetch, copy>>
vars == <<rows, edits, pwa, quiet>>

TypeOK ==
  /\ quiet \in Quiet
  /\ begun \in 0..MaxEdits
  /\ priceRow \in PriceRow \cup {None}
  /\ promoRow \in [Codes -> PromoRow \cup {None}]
  /\ discount \in [Codes -> Discount \cup {None}]
  /\ priceEdit \in [Procs -> PriceEdit \cup {None}]
  /\ promoForm \in [Procs -> PromoForm \cup {None}]
  /\ promoEdit \in [Procs -> PromoEdit \cup {None}]
  /\ fetch \in Fetch \cup {None}
  /\ copy \in Copy \cup {None}

Init ==
  /\ quiet = 0
  /\ begun = 0
  /\ priceRow = None
  /\ promoRow = [c \in Codes |-> None]
  /\ discount = [c \in Codes |-> None]
  /\ priceEdit = [p \in Procs |-> None]
  /\ promoForm = [p \in Procs |-> None]
  /\ promoEdit = [p \in Procs |-> None]
  /\ fetch = None /\ copy = None

-----------------------------------------------------------------------------
(* Reading the catalogue.  A reading that fails (down) is answered by the  *)
(* static catalogue.                                                       *)
PublicPrice(down) ==
  IF priceRow = None \/ down THEN StaticPrice ELSE priceRow.value

HasRow(c, down) == promoRow[c] # None /\ ~down
Known(c, down) ==
  IF HasRow(c, down) THEN promoRow[c].active ELSE c \in DOMAIN StaticDiscount
NormalizePromoCode(c, down) == IF Known(c, down) THEN c ELSE None

PromoPrice(c, down) ==
  IF HasRow(c, down) THEN IF discount[c] = None THEN None ELSE discount[c].value
  ELSE IF c \in DOMAIN StaticDiscount THEN StaticDiscount[c] ELSE None

(* service_price looks the code up and then its grid.  A commit between    *)
(* the two gives what one before or after both would.                      *)
DiscountedPrice(c, codeDown, gridDown) ==
  IF Known(c, codeDown) /\ Known(c, gridDown) THEN PromoPrice(c, gridDown) ELSE None

ServiceOut(code, price, regular) ==
  [price |-> price, regular |-> IF code # None /\ price # regular THEN regular ELSE None]

(* The answer of a database that is read without failure.                  *)
TrueCode == NormalizePromoCode(Asked, FALSE)
TrueCut == IF TrueCode = None THEN None ELSE DiscountedPrice(Asked, FALSE, FALSE)
TruePrice == IF TrueCut = None THEN PublicPrice(FALSE) ELSE TrueCut
Truth == ServiceOut(TrueCode, TruePrice, PublicPrice(FALSE))

(* The newest stamp of each table that has rows, joined.  The services are *)
(* seeded at process start and their stamp, 0, stays; the other tables of  *)
(* the seed do not change here.  A failure is the static version.          *)
StampsOf(table) == {r.stamp : r \in table \ {None}}
Newest(table) == IF StampsOf(table) = {} THEN <<>> ELSE <<Max(StampsOf(table))>>
TablesRead == <<{priceRow}, {promoRow[c] : c \in Codes}, {discount[c] : c \in Codes}>>
EtagSeed(down) ==
  IF down THEN <<>>
  ELSE <<0>> \o Newest(TablesRead[1]) \o Newest(TablesRead[2]) \o Newest(TablesRead[3])

-----------------------------------------------------------------------------
(* Staff.  A process runs one form at a time.                              *)
Idle(p) == priceEdit[p] = None /\ promoForm[p] = None /\ promoEdit[p] = None
Begins == begun < MaxEdits /\ begun' = begun + 1
EditsLeft == begun + Cardinality({p \in Procs : promoForm[p] # None}) < MaxEdits

(* The price form: its row is read, the stamp is the transaction's start.  *)
BeginPublicPrice(p, value) ==
  /\ Idle(p) /\ Begins
  /\ priceEdit' = [priceEdit EXCEPT ![p] = [value |-> value, stamp |-> begun', found |-> priceRow]]
  /\ UNCHANGED <<rows, promoForm, promoEdit, pwa, quiet>>

(* A row found with the value it gets is not written.  An insert beside    *)
(* one that came meanwhile breaks uq_service_price_service_category.       *)
SavedPrice(t) ==
  IF t.found # None /\ t.found.value = t.value THEN priceRow
  ELSE [value |-> t.value, stamp |-> t.stamp]

CommitPublicPrice(p) ==
  /\ priceEdit[p] # None
  /\ priceEdit[p].found = None => priceRow = None
  /\ priceRow' = SavedPrice(priceEdit[p])
  /\ priceEdit' = [priceEdit EXCEPT ![p] = None]
  /\ quiet' = 0
  /\ UNCHANGED <<begun, promoRow, discount, promoForm, promoEdit, pwa>>

(* The promo form.  A cell that holds the public price as it is read now,  *)
(* in a transaction before the form's own, is not saved.                   *)
SavedAsDiscount(cell, down) == IF cell = PublicPrice(down) THEN None ELSE cell

SubmitPromoForm(p, c, active, cell, down) ==
  /\ Idle(p) /\ EditsLeft
  /\ promoForm' = [promoForm EXCEPT ![p] =
                     [code |-> c, active |-> active, saved |-> SavedAsDiscount(cell, down)]]
  /\ UNCHANGED <<rows, begun, priceEdit, promoEdit, pwa, quiet>>

BeginPromoCode(p) ==
  /\ promoForm[p] # None /\ Begins
  /\ promoEdit' = [promoEdit EXCEPT ![p] =
                     [form |-> promoForm[p], stamp |-> begun',
                      found |-> promoRow[promoForm[p].code],
                      discount |-> discount[promoForm[p].code]]]
  /\ promoForm' = [promoForm EXCEPT ![p] = None]
  /\ UNCHANGED <<rows, priceEdit, pwa, quiet>>

(* The code's own row is written only if something on it changes.  All its *)
(* discounts are deleted and the saved cell inserted.  The delete does not *)
(* see a discount another edit put there after this one began, if it ran   *)
(* before that commit; an insert beside such a row breaks                  *)
(* uq_promo_discount_code_service_category.                                *)
SavedPromo(t) ==
  IF t.found # None /\ t.found.active = t.form.active THEN promoRow[t.form.code]
  ELSE [active |-> t.form.active, stamp |-> t.stamp]

NotSeen(t) == {discount[t.form.code]} \ {t.discount}
SavedDiscounts(t) ==
  IF t.form.saved = None THEN {None} \cup NotSeen(t)
  ELSE {[value |-> t.form.saved, stamp |-> t.stamp]}

CommitPromoCode(p) ==
  /\ promoEdit[p] # None
  /\ LET t == promoEdit[p]
     IN /\ t.found = None => promoRow[t.form.code] = None
        /\ promoRow' = [promoRow EXCEPT ![t.form.code] = SavedPromo(t)]
        /\ \E d \in SavedDiscounts(t) : discount' = [discount EXCEPT ![t.form.code] = d]
  /\ promoEdit' = [promoEdit EXCEPT ![p] = None]
  /\ quiet' = 0
  /\ UNCHANGED <<begun, priceRow, priceEdit, promoForm, pwa>>

(* A reading, a constraint or the commit fails, or the process dies.       *)
RollBack(p) ==
  /\ ~Idle(p)
  /\ priceEdit' = [priceEdit EXCEPT ![p] = None]
  /\ promoForm' = [promoForm EXCEPT ![p] = None]
  /\ promoEdit' = [promoEdit EXCEPT ![p] = None]
  /\ UNCHANGED <<rows, begun, pwa, quiet>>

-----------------------------------------------------------------------------
(* The PWA asks, naming the ETag of a copy that is in date; one that is    *)
(* not is deleted.                                                         *)
InDate == copy # None /\ copy.age <= Ttl

GetBootstrap ==
  /\ fetch = None
  /\ fetch' = [at |-> "code", age |-> 0, code |-> None, etag |-> None,
               price |-> None, regular |-> None]
  /\ copy' = IF InDate THEN copy ELSE None
  /\ UNCHANGED <<rows, edits, quiet>>

(* The server's readings, one transaction each, in the order of            *)
(* get_bootstrap: the code and the seed make the ETag; if it is not the    *)
(* one the PWA named, the body follows.                                    *)
At(stage) == fetch # None /\ fetch.at = stage
Disturbs(down) == quiet' = IF down THEN 0 ELSE quiet

ReadCode(down) ==
  /\ At("code")
  /\ fetch' = [fetch EXCEPT !.at = "seed", !.code = NormalizePromoCode(Asked, down)]
  /\ UNCHANGED <<rows, edits, copy, quiet>>

EtagMatches(etag) == copy # None /\ copy.etag = etag

ReadSeed(down) ==
  /\ At("seed")
  /\ LET etag == [seed |-> EtagSeed(down), code |-> fetch.code]
     IN fetch' = [fetch EXCEPT !.at = IF EtagMatches(etag) THEN "confirmed" ELSE "collect",
                               !.etag = etag]
  /\ UNCHANGED <<rows, edits, copy, quiet>>

CollectServices(down) ==
  /\ At("collect")
  /\ fetch' = [fetch EXCEPT !.at = "discount", !.code = NormalizePromoCode(Asked, down)]
  /\ Disturbs(down)
  /\ UNCHANGED <<rows, edits, copy>>

ReadDiscount(codeDown, gridDown) ==
  /\ At("discount")
  /\ LET cut == IF fetch.code = None THEN None ELSE DiscountedPrice(Asked, codeDown, gridDown)
     IN fetch' = [fetch EXCEPT !.at = IF cut = None THEN "public" ELSE "regular", !.price = cut]
  /\ Disturbs(codeDown \/ gridDown)
  /\ UNCHANGED <<rows, edits, copy>>

ReadPublic(down) ==
  /\ At("public")
  /\ fetch' = [fetch EXCEPT !.at = "regular", !.price = PublicPrice(down)]
  /\ Disturbs(down)
  /\ UNCHANGED <<rows, edits, copy>>

ReadRegular(down) ==
  /\ At("regular")
  /\ fetch' = [fetch EXCEPT !.at = "answered", !.regular = PublicPrice(down)]
  /\ Disturbs(down)
  /\ UNCHANGED <<rows, edits, copy>>

(* 304: the booking screen gets the copy as it is.                         *)
UseCopyAnew ==
  /\ At("confirmed")
  /\ copy' = [copy EXCEPT !.age = 0]
  /\ fetch' = None
  /\ UNCHANGED <<rows, edits, quiet>>

UseCopy ==
  /\ At("confirmed")
  /\ fetch' = None
  /\ UNCHANGED <<rows, edits, copy, quiet>>

(* 200: the screen gets the answer, which is stored, as new, with the ETag *)
(* computed before it.                                                     *)
StoreCopy ==
  /\ At("answered")
  /\ copy' = [etag |-> fetch.etag, age |-> 0,
               body |-> ServiceOut(fetch.code, fetch.price, fetch.regular)]
  /\ fetch' = None
  /\ UNCHANGED <<rows, edits, quiet>>

(* The request or its answer is lost, or a reading raises.                 *)
Lost ==
  /\ fetch # None /\ fetch' = None
  /\ UNCHANGED <<rows, edits, copy, quiet>>

(* Time passes; an answer older than Flight is given up (the request's     *)
(* timeouts, and the minutes the browser's HTTP cache may answer itself).  *)
Older(age, most) == IF age < most THEN age + 1 ELSE age

Tick ==
  /\ fetch # None => fetch.age < Flight
  /\ fetch' = IF fetch = None THEN None ELSE [fetch EXCEPT !.age = @ + 1]
  /\ copy' = IF copy = None THEN None ELSE [copy EXCEPT !.age = Older(@, Ttl + Flight + 1)]
  /\ quiet' = Older(quiet, Ttl + 2 * Flight + 1)
  /\ UNCHANGED <<rows, edits>>

Staff ==
  \E p \in Procs :
    \/ \E value \in Prices : BeginPublicPrice(p, value)
    \/ CommitPublicPrice(p)
    \/ \E c \in Codes, active \in BOOLEAN, cell \in Prices \cup {None}, down \in BOOLEAN :
         SubmitPromoForm(p, c, active, cell, down)
    \/ BeginPromoCode(p) \/ CommitPromoCode(p) \/ RollBack(p)

Readings ==
  \/ \E down \in BOOLEAN : \/ ReadCode(down) \/ ReadSeed(down) \/ CollectServices(down)
                           \/ ReadPublic(down) \/ ReadRegular(down)
  \/ \E codeDown \in BOOLEAN, gridDown \in BOOLEAN : ReadDiscount(codeDown, gridDown)

Next == Staff \/ GetBootstrap \/ Readings \/ UseCopy \/ StoreCopy \/ Lost \/ Tick

Spec == Init /\ [][Next]_vars

-----------------------------------------------------------------------------
(* An edit can slip past the ETag, although "Any admin edit invalidates    *)
(* the seed" (catalog.py:824): a discount taken away need not move the     *)
(* newest stamp, nor an edit that began before the newest and committed    *)
(* after it.  And a failed reading can put the static prices into the copy *)
(* under the ETag of the database's.  A 304 then goes on confirming what   *)
(* is wrong.  What ends it is the copy's lifetime, which no 304 prolongs   *)
(* (api.js:362-367, 569-572): once nothing has been edited and no reading  *)
(* has failed for that long, and for the two requests at its ends, every   *)
(* answer the booking screen gets is what the database says.               *)
SettlesWithinADay ==
  [][(UseCopy \/ StoreCopy) /\ quiet > Ttl + 2 * Flight => copy'.body = Truth]_vars

-----------------------------------------------------------------------------
(* What makes SettlesWithinADay inductive.  What an answer on its way      *)
(* holds of the body so far is what the database says, unless that was     *)
(* disturbed since the request was sent.                                   *)
FetchIsQuiet ==
  fetch # None /\ quiet > fetch.age =>
    /\ fetch.at \in {"discount", "public", "regular", "answered"} => fetch.code = TrueCode
    /\ fetch.at = "public" => TrueCut = None
    /\ fetch.at \in {"regular", "answered"} => fetch.price = TruePrice
    /\ fetch.at = "answered" => fetch.regular = PublicPrice(FALSE)

(* A copy whose request was sent after the last disturbance is true, and   *)
(* one that a request named was in date when it was sent.                  *)
CopyIsQuiet ==
  copy # None /\ copy.age <= Ttl + Flight /\ quiet > copy.age + Flight => copy.body = Truth

NamedInDate ==
  /\ copy # None /\ fetch # None => copy.age <= Ttl + fetch.age
  /\ At("confirmed") => copy # None

(* The stages fill in what they read.                                      *)
FetchIsFilled ==
  fetch # None =>
    /\ fetch.at \notin {"code", "seed"} => fetch.etag # None
    /\ fetch.at \in {"regular", "answered"} => fetch.price # None
    /\ fetch.at = "answered" => fetch.regular # None

IndInv == TypeOK /\ FetchIsFilled /\ FetchIsQuiet /\ CopyIsQuiet /\ NamedInDate
=============================================================================
