------------------------------- MODULE PriceBoard -------------------------------
(***************************************************************************)
(* How prices are read while they change: the cards of the home screen,    *)
(* one for each product, put together from several statements, and the     *)
(* lists that clients read page by page (PriceService, src/src/price).     *)
(* Nothing holds the table still between two statements or two pages.      *)
(***************************************************************************)
EXTENDS Naturals, FiniteSets, FiniteSetsExt, SequencesExt

CONSTANTS
  Prices,      \* ids of prices: numbers, in the order of createdAt
  Goods,       \* ids of products: numbers, in the order of the column
  Shops,
  NearShops,   \* those within the radius that a reader asks for
  Sellers,     \* users who registered prices
  Amounts,
  PageSize,    \* rows, or cards, of a page
  MaxRows,     \* bound: prices when the read begins
  MaxWrites,   \* bound: changes during the read
  Late,        \* bound: rows that a late save may bring back
  NoGoods, NoShop, NoSeller

ASSUME PriceBoardAssumption ==
  /\ Prices \subseteq Nat /\ Goods \subseteq Nat /\ Amounts \subseteq Nat
  /\ IsFiniteSet(Prices) /\ IsFiniteSet(Goods)
  /\ NearShops \subseteq Shops
  /\ PageSize \in Nat \ {0} /\ MaxRows \in Nat /\ MaxWrites \in Nat
  /\ Late \subseteq [goods : Goods, shop : Shops, seller : Sellers, amount : Amounts,
                     active : BOOLEAN, week : BOOLEAN, confirms : {0}]
  /\ NoGoods \notin Goods /\ NoShop \notin Shops /\ NoSeller \notin Sellers

VARIABLES
  board,     \* rows of prices, each with its confirmations from price_reactions
  reader,    \* the local variables of the read
  writes,
  changed,   \* history: products whose prices changed since the read began
  came,      \* history: prices that came to the list of the read
  gone       \* history: prices that left it, or changed their amount

boardVars == <<board, reader, writes, changed, came, gone>>

NoPrice == [goods |-> NoGoods, shop |-> NoShop, seller |-> NoSeller, amount |-> 0,
            active |-> FALSE, week |-> FALSE, confirms |-> 0]

\* week: created within seven days.
BoardRow ==
  [goods : Goods, shop : Shops, seller : Sellers, amount : Amounts,
   active : BOOLEAN, week : BOOLEAN, confirms : 0..MaxWrites] \cup {NoPrice}

NoRead == [pc |-> "idle", ids |-> <<>>]

Lists == {"recent", "seller", "goods", "shop"}

CardPcs == {"count", "cheapest", "load", "aggregate", "lowest", "confirms", "cards"}

BoardTypeOK ==
  /\ board \in [Prices -> BoardRow]
  /\ reader.pc \in {"idle", "ids", "rows", "total", "listed", "failed"} \cup CardPcs
  /\ reader.pc \in CardPcs \cup {"failed"} =>
       /\ reader.near \in BOOLEAN /\ reader.page \in Nat \ {0} /\ reader.total \in Nat
       /\ Range(reader.ids) \subseteq Prices
       /\ DOMAIN reader.rows \subseteq Prices
       /\ DOMAIN reader.sums \cup DOMAIN reader.lows \subseteq Goods
       /\ DOMAIN reader.votes \subseteq Prices
  /\ reader.pc \in {"ids", "rows", "total", "listed"} =>
       /\ reader.list \in Lists /\ reader.page \in Nat \ {0}
       /\ reader.ids \in Seq(Prices) /\ reader.shown \in Seq(Prices)
       /\ reader.stayed \subseteq Prices /\ reader.tied \subseteq Prices
  /\ writes \in 0..MaxWrites
  /\ changed \subseteq Goods /\ came \subseteq Prices /\ gone \subseteq Prices

BoardInit ==
  /\ \E S \in SUBSET Prices : \E first \in [S -> {r \in BoardRow : r.active /\ r.confirms = 0}] :
       /\ Cardinality(S) <= MaxRows
       /\ \A x, y \in S : x < y /\ first[x].week => first[y].week
       /\ board = [x \in Prices |-> IF x \in S THEN first[x] ELSE NoPrice]
  /\ reader = NoRead
  /\ writes = 0
  /\ changed = {} /\ came = {} /\ gone = {}

-----------------------------------------------------------------------------
(* Changes *)

Priced == {x \in Prices : board[x] # NoPrice}

RecentPrices(row) == row.active

PricesOfUser(row, u) == row.seller = u /\ row.active

PricesOfProduct(row, g) == row.goods = g /\ row.active

PricesOfStore(row, s) == row.shop = s /\ row.active

\* Does the list of the read hold a row?
InList(row) ==
  CASE reader.list = "recent" -> RecentPrices(row)
    [] reader.list = "seller" -> PricesOfUser(row, reader.arg)
    [] reader.list = "goods"  -> PricesOfProduct(row, reader.arg)
    [] reader.list = "shop"   -> PricesOfStore(row, reader.arg)

Listing == reader.pc \in {"ids", "rows", "total"}

\* Does row take, or leave, a place in the list where other stood?
Takes(row, other) == InList(row) /\ (row.amount # other.amount \/ ~ InList(other))

\* A change before the read only gives it another table to begin with.
Become(table) ==
  LET new == {x \in Prices : table[x] # board[x]} IN
  /\ reader.pc \notin {"idle", "cards", "listed", "failed"}
  /\ writes < MaxWrites /\ writes' = writes + 1
  /\ new # {}
  /\ board' = table
  /\ changed' = changed \cup
       (({table[x].goods : x \in new} \cup {board[x].goods : x \in new}) \ {NoGoods})
  /\ came' = came \cup {x \in new : Listing /\ Takes(table[x], board[x])}
  /\ gone' = gone \cup {x \in new : Listing /\ Takes(board[x], table[x])}
  /\ UNCHANGED reader

Change(x, row) == Become([board EXCEPT ![x] = row])

\* The newest, registered now, with an id never used.
Register(x, goods, shop, seller, amount) ==
  /\ x \notin Priced \cup Range(reader.ids) /\ \A y \in Priced : y < x
  /\ Change(x, [goods |-> goods, shop |-> shop, seller |-> seller, amount |-> amount,
                active |-> TRUE, week |-> TRUE, confirms |-> 0])

\* A late save inserts a price that was deleted, at its old place and without its
\* confirmations. (What it was is not remembered: it may come back as another.)
Reinsert(x, row) ==
  /\ x \notin Priced
  /\ \A y \in Priced : /\ y < x /\ board[y].week => row.week
                       /\ x < y /\ row.week => board[y].week
  /\ Change(x, row)

\* The migration merges a product into another and commits.
MergeGoods(from, into) ==
  /\ from # into
  /\ Become([x \in Prices |-> IF board[x].goods = from THEN [board[x] EXCEPT !.goods = into]
                                                       ELSE board[x]])

Reprice(x, amount) == x \in Priced /\ Change(x, [board[x] EXCEPT !.amount = amount])

Deactivate(x) == x \in Priced /\ Change(x, [board[x] EXCEPT !.active = FALSE])

Delete(x) == x \in Priced /\ Change(x, NoPrice)

\* Confirmations and the week show on cards only.
Confirm(x) == x \in Priced /\ ~ Listing /\ Change(x, [board[x] EXCEPT !.confirms = @ + 1])

\* The oldest of the week leaves it.
WeekPasses(x) ==
  /\ x \in Priced /\ ~ Listing
  /\ \A y \in Priced : y < x => ~ board[y].week
  /\ Change(x, [board[x] EXCEPT !.week = FALSE])

-----------------------------------------------------------------------------
(* The cards *)

\* Active prices of a product, near if the reader asks for it.
Offers(goods) ==
  {x \in Priced : /\ board[x].goods = goods /\ board[x].active
                  /\ reader.near => board[x].shop \in NearShops}

Offered == {g \in Goods : Offers(g) # {}}

Amount(x) == board[x].amount

\* DISTINCT ON: the least amount, then the newest.
Cheapest(goods) ==
  CHOOSE x \in Offers(goods) : \A y \in Offers(goods) \ {x} :
    Amount(x) < Amount(y) \/ (Amount(x) = Amount(y) /\ y < x)

Goto(pc, r) ==
  /\ reader' = [r EXCEPT !.pc = pc]
  /\ UNCHANGED <<board, writes, changed, came, gone>>

PageOf(all) ==
  LET from == (reader.page - 1) * PageSize
  IN SubSeq(all, from + 1, Min({from + PageSize, Len(all)}))

Starts(r) ==
  /\ reader.pc = "idle"
  /\ reader' = r
  /\ changed' = {} /\ came' = {} /\ gone' = {}
  /\ UNCHANGED <<board, writes>>

StartCards(near, page) ==
  Starts([pc |-> "count", near |-> near, page |-> page, total |-> 0, ids |-> <<>>,
          rows |-> <<>>, sums |-> <<>>, lows |-> <<>>, votes |-> <<>>])

CountProducts ==
  /\ reader.pc = "count"
  /\ Goto("cheapest", [reader EXCEPT !.total = Cardinality(Offered)])

\* In the order of their products. The library applies the page to raw rows only if
\* the query joins no table: with the location, every product is on every page.
FindCheapest ==
  /\ reader.pc = "cheapest"
  /\ \E all \in SetToSeqs(Offered) :
       /\ \A i \in 1..Len(all) - 1 : all[i] < all[i + 1]
       /\ LET some == IF reader.near THEN all ELSE PageOf(all)
          IN Goto(IF some = <<>> THEN "cards" ELSE "load",
                  [reader EXCEPT !.ids = [i \in DOMAIN some |-> Cheapest(some[i])]])

\* The rows by their ids, whatever they have become.
LoadCheapest ==
  /\ reader.pc = "load"
  /\ Goto("aggregate", [reader EXCEPT !.rows =
       [x \in Range(reader.ids) \cap Priced |-> board[x]]])

ReadGoods == {reader.rows[x].goods : x \in DOMAIN reader.rows}

Aggregated(xs) ==
  [max |-> Max({Amount(x) : x \in xs}), sum |-> SumFunctionOnSet([x \in xs |-> Amount(x)], xs),
   count |-> Cardinality(xs), shops |-> Cardinality({board[x].shop : x \in xs})]

\* No product left: IN () is no SQL.
Aggregate ==
  /\ reader.pc = "aggregate"
  /\ IF ReadGoods = {} THEN Goto("failed", reader)
     ELSE Goto("lowest", [reader EXCEPT !.sums =
       [g \in ReadGoods \cap Offered |-> Aggregated(Offers(g))]])

\* Faulty variant: the week's lowest is taken of every shop.
LowestAnywhere ==
  LET week(g) == {x \in Priced : board[x].goods = g /\ board[x].active /\ board[x].week}
  IN /\ reader.pc = "lowest"
     /\ Goto("confirms", [reader EXCEPT !.lows =
          [g \in {h \in ReadGoods : week(h) # {}} |-> Min({Amount(x) : x \in week(g)})]])

FindLowest ==
  LET week(g) == {x \in Offers(g) : board[x].week}
  IN /\ reader.pc = "lowest"
     /\ Goto("confirms", [reader EXCEPT !.lows =
          [g \in {h \in ReadGoods : week(h) # {}} |-> Min({Amount(x) : x \in week(g)})]])

CountConfirms ==
  /\ reader.pc = "confirms"
  /\ Goto("cards", [reader EXCEPT !.votes =
       [x \in Range(reader.ids) \cap Priced |-> board[x].confirms]])

\* A card: what the statements found, put together.
Card(x) ==
  LET g   == reader.rows[x].goods
      min == reader.rows[x].amount
      sum == IF g \in DOMAIN reader.sums THEN reader.sums[g]
             ELSE [max |-> min, sum |-> 0, count |-> 0, shops |-> 1]
  IN [min |-> min, max |-> sum.max, shops |-> sum.shops, averaged |-> sum.count > 0,
      average |-> IF sum.count = 0 THEN 0 ELSE (2 * sum.sum + sum.count) \div (2 * sum.count),
      lowest7d |-> g \in DOMAIN reader.lows /\ min <= reader.lows[g],
      votes |-> IF x \in DOMAIN reader.votes THEN reader.votes[x] ELSE 0]

-----------------------------------------------------------------------------
(* The lists *)

StartList(list, arg) ==
  Starts([pc |-> "ids", list |-> list, arg |-> arg, page |-> 1, ids |-> <<>>, shown |-> <<>>,
          stayed |-> {}, tied |-> {}])

\* The newest first; those of a product by amount, and in any order if it is the same.
Before(x, y) == IF reader.list = "goods" THEN Amount(x) <= Amount(y) ELSE x > y

ListHeld == {x \in Prices : InList(board[x])}

\* What no column of the order tells from another.
Tied == {x \in ListHeld : \E y \in ListHeld \ {x} : Before(x, y) /\ Before(y, x)}

Ordered(xs) == {s \in SetToSeqs(xs) : \A i \in 1..Len(s) - 1 : Before(s[i], s[i + 1])}

ListIds ==
  /\ reader.pc = "ids"
  /\ \E order \in Ordered(ListHeld) :
       Goto("rows", [reader EXCEPT
         !.ids = PageOf(order),
         !.stayed = IF reader.page = 1 THEN ListHeld ELSE @,
         !.tied = @ \cup Tied])

\* The rows that are still in the list, in the order of now.
LoadRows ==
  /\ reader.pc = "rows"
  /\ \E kept \in Ordered({x \in Range(reader.ids) : InList(board[x])}) :
       Goto("total", [reader EXCEPT !.ids = kept, !.shown = @ \o kept])

\* The client asks for the next page as long as there is one. The library may spare
\* itself the count after a page that is not full.
CountRows ==
  /\ reader.pc = "total"
  /\ \/ reader.page * PageSize < Cardinality(ListHeld) /\ Goto("ids", [reader EXCEPT !.page = @ + 1])
     \/ /\ reader.page * PageSize >= Cardinality(ListHeld) \/ Len(reader.ids) < PageSize
        /\ Goto("listed", reader)

BoardNext ==
  \/ \E x \in Prices :
       \/ \E g \in Goods, s \in Shops, u \in Sellers, n \in Amounts : Register(x, g, s, u, n)
       \/ \E n \in Amounts : Reprice(x, n)
       \/ Deactivate(x) \/ Delete(x) \/ Confirm(x) \/ WeekPasses(x)
       \/ \E row \in Late : Reinsert(x, row)
  \/ \E from, into \in Goods : MergeGoods(from, into)
  \/ \E near \in BOOLEAN, page \in 1..Cardinality(Goods) : StartCards(near, page)
  \/ CountProducts \/ FindCheapest \/ LoadCheapest \/ Aggregate \/ FindLowest \/ CountConfirms
  \/ StartList("recent", 0)
  \/ \E u \in Sellers : StartList("seller", u)
  \/ \E g \in Goods : StartList("goods", g)
  \/ \E s \in Shops : StartList("shop", s)
  \/ ListIds \/ LoadRows \/ CountRows

BoardSpec == BoardInit /\ [][BoardNext]_boardVars

-----------------------------------------------------------------------------
\* Cards show a product twice only if it took in another during the read. The card of a product whose prices did not change
\* during the read shows the least and the greatest of its offers and an average and
\* counts that fit them, and calls it the lowest of the week exactly if the week had an
\* offer. A read fails only if prices changed, and a page without location holds as
\* many cards as are left of the total.
CardsConsistent ==
  /\ reader.pc = "cards" =>
       /\ \A x, y \in DOMAIN reader.rows :
            x # y => \/ reader.rows[x].goods # reader.rows[y].goods
                     \/ reader.rows[x].goods \in changed
       /\ \A x \in DOMAIN reader.rows :
            LET g    == reader.rows[x].goods
                card == Card(x)
            IN g \notin changed =>
                 /\ card.averaged /\ card.min <= card.average /\ card.average <= card.max
                 /\ card.min = Min({Amount(y) : y \in Offers(g)})
                 /\ card.max = Max({Amount(y) : y \in Offers(g)})
                 /\ card.shops \in 1..Cardinality(Offers(g))
                 /\ card.lowest7d <=> \E y \in Offers(g) : board[y].week
                 /\ card.votes = board[x].confirms
       /\ changed = {} /\ ~ reader.near =>
            Cardinality(DOMAIN reader.rows) =
              Cardinality(1..PageSize \cap 1..(reader.total - (reader.page - 1) * PageSize))
  /\ reader.pc = "failed" => changed # {}

Times(x) == Cardinality({i \in DOMAIN reader.shown : reader.shown[i] = x})

\* A list read to its last page shows each price that it held from the first page on:
\* none is missing unless another left the list or changed its amount meanwhile, and
\* none is shown twice unless another came or changed; but for prices of a product that
\* cost the same, which each page may order anew, as no column tells them apart.
PagesWhole ==
  reader.pc = "listed" =>
    \A x \in reader.stayed \ (gone \cup reader.tied) :
      \/ Times(x) = 1
      \/ Times(x) = 0 /\ gone # {}
      \/ Times(x) > 1 /\ came # {}

PricesRead == CardsConsistent /\ PagesWhole
=============================================================================
