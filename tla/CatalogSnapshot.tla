--------------------------- MODULE CatalogSnapshot ---------------------------
(***************************************************************************)
(* The snapshot a candidate job takes of one product of the Printful       *)
(* catalogue (src/candidates/printful-catalog-provider.ts) and its         *)
(* evaluation (evaluator.ts, domain/product-scoring.ts).  The catalogue is *)
(* read in pages by several requests at once and may change between two of *)
(* them.  A price is the decimal number the response spells: its whole     *)
(* part and the digits of its fraction.                                    *)
(***************************************************************************)
EXTENDS Integers, Sequences, FiniteSets, SequencesExt

CONSTANTS
  Variants,           \* catalog variants; an id has one size and one color
  Markets, Region,    \* countries, and sellingRegion's table for them
  DecimalPrices,      \* the prices a response may quote
  Exponent,           \* decimals of the currency: 0, 2 or 3
  Profiles,           \* the brand profiles to evaluate against; target in per cent
  Seed,               \* its PrintfulCatalogSeed: cost and reserve, minor units
  PageLimit, MaxPages, \* limit=100 and the 100 pages of the code
  Styles,             \* mockup styles of the product
  MaxChanges,         \* bounds what the catalogue does during a fetch
  NoPrice

ASSUME SnapshotAssumption ==
  /\ IsFiniteSet(Variants) /\ Region \in [Markets -> STRING]
  /\ \A m \in Markets : Region[m] \notin {"product", "countries", "variants", "styles", "prices"}
  /\ Styles \in Nat /\ PageLimit \in Nat \ {0} /\ MaxPages \in Nat \ {0} /\ MaxChanges \in Nat
  /\ Exponent \in {0, 2, 3}
  /\ \A p \in DecimalPrices : p.whole \in Nat /\ p.fraction \in Seq(0 .. 9)
  /\ NoPrice \notin DecimalPrices
  /\ \A p \in Profiles : p.markets \subseteq Markets /\ p.min \in Nat /\ p.max \in Nat /\ p.target \in 0 .. 100
  /\ Seed.cost \in Nat \ {0} /\ Seed.reserve \in Nat

VARIABLES
  catalogue,   \* remote: the variants, in the order of the listing
  stock,       \* remote: the variants in stock, per region
  price,       \* remote: the price of each variant
  changes,     \* how often the catalogue changed during the fetch
  phase,       \* where fetchProduct is
  open,        \* the requests of this phase that are not complete
  count, page, \* rows and pages read so far, per listing
  read,        \* what the pages said
  costSource,
  profileOf,   \* the profile of the job
  verdict      \* its evaluation of the product

remoteCatalogue == <<catalogue, stock, price, changes>>
snapshotVars == <<catalogue, stock, price, changes, phase, open, count, page, read,
                  costSource, profileOf, verdict>>

-----------------------------------------------------------------------------
RegionNames == {Region[m] : m \in Markets}
Regions == {Region[m] : m \in profileOf.markets}
Replies == {"product", "countries"}
Listings == {"variants", "styles", "prices"} \cup RegionNames

\* The rows a listing has at the moment.
Size(l) == IF l = "styles" THEN Styles ELSE Len(catalogue)

NoVerdict == [eligible |-> FALSE, reasons |-> {}, retail |-> 0, margin |-> 0, score |-> 0]

SnapshotTypeOK ==
  /\ catalogue \in Seq(Variants) /\ stock \in [RegionNames -> SUBSET Variants]
  /\ price \in [Variants -> DecimalPrices] /\ changes \in 0 .. MaxChanges
  /\ phase \in {"lists", "stock", "prices", "fetched", "failed", "evaluated"}
  /\ open \subseteq Replies \cup Listings
  /\ count \in [Listings -> Nat] /\ page \in [Listings -> 0 .. MaxPages]
  /\ read \in [variants : SUBSET Variants, stocked : [RegionNames -> SUBSET Variants],
               prices : [Variants -> DecimalPrices \cup {NoPrice}]]
  /\ costSource \in {"PRINTFUL_LIVE", "APPROVED_FALLBACK"}
  /\ profileOf \in Profiles

\* Any catalogue without duplicates, any stock and prices, any profile.
SnapshotInit ==
  /\ catalogue \in {s \in UNION {[1 .. n -> Variants] : n \in 0 .. Cardinality(Variants)} :
                      \A i, j \in DOMAIN s : s[i] = s[j] => i = j}
  /\ stock \in [RegionNames -> SUBSET Variants]
  /\ price \in [Variants -> DecimalPrices]
  /\ profileOf \in Profiles
  /\ changes = 0 /\ phase = "lists" /\ open = Replies \cup {"variants", "styles"}
  /\ count = [l \in Listings |-> 0] /\ page = [l \in Listings |-> 0]
  /\ read = [variants |-> {}, stocked |-> [r \in RegionNames |-> {}],
             prices |-> [v \in Variants |-> NoPrice]]
  /\ costSource = "PRINTFUL_LIVE" /\ verdict = NoVerdict

-----------------------------------------------------------------------------
\* Printful withdraws a variant, or quotes a variant another price.
Withdraw(v) ==
  /\ changes < MaxChanges /\ v \in Range(catalogue)
  /\ changes' = changes + 1
  /\ catalogue' = RemoveFirst(catalogue, v)
  /\ UNCHANGED <<stock, price, phase, open, count, page, read, costSource, profileOf, verdict>>

Reprice(v, p) ==
  /\ changes < MaxChanges /\ price[v] # p
  /\ changes' = changes + 1 /\ price' = [price EXCEPT ![v] = p]
  /\ UNCHANGED <<catalogue, stock, phase, open, count, page, read, costSource, profileOf, verdict>>

-----------------------------------------------------------------------------
\* decimalPriceToMinor: pads the fraction to the exponent of the currency; it
\* throws when a digit beyond it is not zero, and for a price of zero.
Digit(p, i) == IF i <= Len(p.fraction) THEN p.fraction[i] ELSE 0
Minor(p) == CASE Exponent = 0 -> p.whole
              [] Exponent = 2 -> 100 * p.whole + 10 * Digit(p, 1) + Digit(p, 2)
              [] Exponent = 3 -> 1000 * p.whole + 100 * Digit(p, 1) + 10 * Digit(p, 2) + Digit(p, 3)
Representable(p) ==
  /\ \A i \in (Exponent + 1) .. Len(p.fraction) : Digit(p, i) = 0
  /\ Minor(p) > 0

\* inStockVariants: the rows of a stock listing that can be bought.
InStock(rows, region) == rows \cap stock[region]

\* What the page of a listing adds to the result: a later row overwrites.
RowsRead(l, rows) ==
  CASE l = "variants" -> [read EXCEPT !.variants = @ \cup rows]
    [] l = "prices" -> [read EXCEPT !.prices = [v \in Variants |-> IF v \in rows THEN price[v] ELSE @[v]]]
    [] l = "styles" -> read
    [] OTHER -> [read EXCEPT !.stocked[l] = @ \cup InStock(rows, l)]

\* The variants stocked in every market of the profile; all without markets.
Available(r) == {v \in r.variants : \A region \in Regions : v \in r.stocked[region]}
Priced(r) == IF Available(r) = {} THEN r.variants ELSE Available(r)
CostKnown(r) ==
  /\ \A v \in Priced(r) : r.prices[v] # NoPrice
  /\ \A v \in Variants : r.prices[v] # NoPrice => Representable(r.prices[v])

\* Mutant: the cost of the cheapest variant.
CheapestCost(r) == Min({Minor(r.prices[v]) : v \in Priced(r)})

\* normalizeLiveCost: the dearest variant sold sets the cost.
LiveCost(r) == Max({Minor(r.prices[v]) : v \in Priced(r)})

FetchThrows == phase' = "failed" /\ open' = {} /\ UNCHANGED costSource

\* A request is complete; the last of a phase starts the next one.  Rows of
\* prices a technique has none of, or one that cannot be converted, throw.
RequestDone(r, l) ==
  IF open # {l} THEN open' = open \ {l} /\ UNCHANGED <<phase, costSource>>
  ELSE CASE phase = "lists" /\ r.variants = {} -> FetchThrows
         [] phase = "lists" /\ r.variants # {} /\ Regions # {} ->
              phase' = "stock" /\ open' = Regions /\ UNCHANGED costSource
         [] (phase = "lists" /\ r.variants # {} /\ Regions = {}) \/ phase = "stock" ->
              phase' = "prices" /\ open' = {"prices"} /\ UNCHANGED costSource
         [] phase = "prices" /\ CostKnown(r) -> phase' = "fetched" /\ open' = {} /\ UNCHANGED costSource
         [] phase = "prices" /\ ~CostKnown(r) -> FetchThrows

Reply(l) ==
  /\ l \in open \cap Replies
  /\ RequestDone(read, l)
  /\ UNCHANGED <<count, page, read, profileOf, verdict, remoteCatalogue>>

\* One turn of fetchArrayPages or fetchPricePages: the offset is the number of
\* rows read.  The server may return less than a full page, and no total.
FetchPage(l, n, total) ==
  LET from == count[l]
      rows == IF l = "styles" THEN {} ELSE {catalogue[i] : i \in (from + 1) .. (from + n)}
      r == RowsRead(l, rows)
  IN /\ l \in open \cap Listings
     /\ n = 0 \/ (n <= PageLimit /\ from + n <= Size(l))
     /\ count' = [count EXCEPT ![l] = from + n]
     /\ page' = [page EXCEPT ![l] = @ + 1]
     /\ read' = r
     /\ \/ (~total \/ from + n >= Size(l)) /\ RequestDone(r, l)
        \/ total /\ from + n < Size(l) /\ (n = 0 \/ page[l] + 1 = MaxPages) /\ FetchThrows
        \/ total /\ from + n < Size(l) /\ n > 0 /\ page[l] + 1 < MaxPages
           /\ UNCHANGED <<phase, open, costSource>>
     /\ UNCHANGED <<profileOf, verdict, remoteCatalogue>>

\* A request fails: with an HTTP status a price request falls back to the cost
\* of the seed, everything else ends the snapshot.
RequestFails(l, status) ==
  /\ l \in open
  /\ IF l = "prices" /\ status
     THEN phase' = "fetched" /\ open' = {} /\ costSource' = "APPROVED_FALLBACK"
     ELSE FetchThrows
  /\ UNCHANGED <<count, page, read, profileOf, verdict, remoteCatalogue>>

BaseCost == IF costSource = "APPROVED_FALLBACK" THEN Seed.cost ELSE LiveCost(read)

-----------------------------------------------------------------------------
\* marginScore, on basis points; below the floor there is none.
MarginFloor == 3000
MarginScore(bp) == CASE bp >= 6000 -> 100 [] bp >= 5000 -> 85 [] bp >= 4000 -> 65 [] OTHER -> 35

ReturnSafety == [LOW |-> 90, MEDIUM |-> 60, HIGH |-> 30]

\* scoreProduct, in hundredths; each variant counts as a size and as a color.
Score(bp) ==
  LET variety == Min({100, 20 * Cardinality(Available(read))})
  IN 30 * MarginScore(bp) + 25 * (IF profileOf.preferred THEN 100 ELSE 40)
     + 15 * 100 + 15 * (IF "front" \in Seed.placements THEN 100 ELSE 75)
     + 10 * variety + 5 * ReturnSafety[Seed.returnRisk]

\* A market is out of stock when its region stocks no variant at all.
Exclusions ==
  {e \in {"CURRENCY_MISMATCH", "PRODUCT_TYPE_EXCLUDED", "PRICE_RANGE_MISSING", "UNSUPPORTED_TARGET_MARKET",
          "OUT_OF_STOCK_TARGET_MARKET", "DESIGN_PLACEMENT_MISSING"} :
     \/ e = "CURRENCY_MISMATCH" /\ ~profileOf.currency
     \/ e = "PRODUCT_TYPE_EXCLUDED" /\ profileOf.excluded
     \/ e = "PRICE_RANGE_MISSING" /\ ~profileOf.ranged
     \/ e = "UNSUPPORTED_TARGET_MARKET" /\ ~(profileOf.markets \subseteq Seed.ships)
     \/ e = "OUT_OF_STOCK_TARGET_MARKET" /\ \E r \in Regions : read.stocked[r] = {}
     \/ e = "DESIGN_PLACEMENT_MISSING" /\ Seed.placements = {}}

\* Math.ceil(cost / (1 - target)): the lowest price with the target margin, or
\* one minor unit more where the quotient is whole and its floating-point value
\* is not; for a target of 100 % a price beyond the range.
RequiredForMargin(cost) ==
  LET d == 100 - profileOf.target
      least == (100 * cost + d - 1) \div d
  IN IF d = 0 THEN {profileOf.max + 1}
     ELSE IF (100 * cost) % d = 0 THEN {least, least + 1} ELSE {least}

Excluded(reasons) == [NoVerdict EXCEPT !.reasons = reasons]

\* evaluateCatalogProduct.
Verdict(required) ==
  LET cost == BaseCost + Seed.reserve
      retail == Max({profileOf.min, required})
      margin == ((retail - cost) * 10000) \div retail
  IN IF Exclusions # {} THEN Excluded(Exclusions)
     ELSE IF profileOf.max < profileOf.min THEN Excluded({"INVALID_PRICE_RANGE"})
     ELSE IF retail > profileOf.max THEN Excluded({"TARGET_MARGIN_UNACHIEVABLE"})
     ELSE IF margin < MarginFloor THEN Excluded({"MARGIN_BELOW_FLOOR"})
     ELSE [eligible |-> TRUE, reasons |-> {}, retail |-> retail, margin |-> margin, score |-> Score(margin)]

Evaluate ==
  /\ phase = "fetched"
  /\ phase' = "evaluated"
  /\ \E required \in RequiredForMargin(BaseCost + Seed.reserve) : verdict' = Verdict(required)
  /\ UNCHANGED <<open, count, page, read, costSource, profileOf, remoteCatalogue>>

SnapshotNext ==
  \/ \E v \in Variants : Withdraw(v) \/ \E p \in DecimalPrices : Reprice(v, p)
  \/ \E l \in Replies : Reply(l)
  \/ \E l \in Listings, n \in 0 .. PageLimit, total \in BOOLEAN : FetchPage(l, n, total)
  \/ \E l \in Replies \cup Listings, status \in BOOLEAN : RequestFails(l, status)
  \/ Evaluate

SnapshotSpec == SnapshotInit /\ [][SnapshotNext]_snapshotVars

-----------------------------------------------------------------------------
\* The exact value of a price, in thousandths of the currency unit, and of an
\* amount in minor units.
Exact(p) == 1000 * p.whole + 100 * Digit(p, 1) + 10 * Digit(p, 2) + Digit(p, 3)
InThousandths(minor) == minor * (CASE Exponent = 0 -> 1000 [] Exponent = 2 -> 10 [] Exponent = 3 -> 1)

\* A product recommended on live costs earns the target margin of the brand, and
\* at least 30 %, on every variant it would be sold in, at the price the last
\* page quoted for that variant, whatever the catalogue did between the pages
\* (printful-catalog-provider.ts:105-120, evaluator.ts:50-62).
EligibleEarnsMargin ==
  phase = "evaluated" /\ verdict.eligible /\ costSource = "PRINTFUL_LIVE" =>
    /\ profileOf.min <= verdict.retail /\ verdict.retail <= profileOf.max
    /\ \A v \in Available(read) :
         LET retail == InThousandths(verdict.retail)
             cost == Exact(read.prices[v]) + InThousandths(Seed.reserve)
         IN /\ 100 * (retail - cost) >= profileOf.target * retail
            /\ 100 * (retail - cost) >= 30 * retail
=============================================================================
