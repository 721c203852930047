-------------------------------- MODULE Catalog --------------------------------
(***************************************************************************)
(* Products, the wishes for them and their prices: ProductService          *)
(* (src/src/product), WishlistService (src/src/wishlist), the row that     *)
(* PriceService.create inserts, and the migration MovePriceUnitType        *)
(* (src/src/database/migrations), which merges products that differ only   *)
(* in their unit.                                                          *)
(*                                                                         *)
(* The deployment runs the migration while the new version already         *)
(* answers requests.  It is one transaction at READ COMMITTED: each of its *)
(* statements sees what requests have committed so far, and requests see   *)
(* nothing of it before its end, but wait for the rows it has changed and  *)
(* for table prices, which it has locked.                                  *)
(***************************************************************************)
EXTENDS Naturals, FiniteSets, FiniteSetsExt

CONSTANTS
  ProductIds,  \* numbers, in the order of createdAt
  Names,       \* names of a category, up to case
  OldNames,    \* those of the products before the migration
  Wishers,     \* ids of users
  PriceIds,
  Units,
  Callers,     \* requests that may run at once
  MaxCalls,    \* bound: requests
  NoProduct, NoWisher, NoPriceId

ASSUME CatalogAssumption ==
  /\ OldNames \subseteq Names
  /\ ProductIds \subseteq Nat /\ NoProduct \notin ProductIds \cup Names
  /\ NoWisher \notin Wishers /\ NoPriceId \notin PriceIds
  /\ MaxCalls \in Nat

VARIABLES
  tables,   \* what requests see
  draft,    \* what the migration sees, while it runs
  merge,    \* where the migration is
  call,     \* the local variables of each request
  calls,
  late,     \* history: wishes that came too late for the migration, see below
  doubled   \* history: names that crossing creations or an update may have doubled,
            \* or an update has taken from a product during the migration

catalogVars == <<tables, draft, merge, call, calls, late, doubled>>

\* A product without a row, and a price without one.
NoRow == [name |-> NoProduct, unit |-> NoProduct]

NoPriceRow == [product |-> NoProduct, unit |-> NoProduct]

Empty == [products |-> [p \in ProductIds |-> NoRow], wishes |-> {},
          prices   |-> [x \in PriceIds |-> NoPriceRow]]

NoCall == [pc |-> "idle", product |-> NoProduct, row |-> NoRow, wisher |-> NoWisher,
           price |-> NoPriceId, crossed |-> FALSE]

Tables ==
  [products : [ProductIds -> [name : Names, unit : Units \cup {NoProduct}] \cup {NoRow}],
   wishes   : SUBSET (Wishers \X ProductIds),
   prices   : [PriceIds -> [product : ProductIds, unit : Units \cup {NoProduct}]
                             \cup {NoPriceRow}]]

CatalogTypeOK ==
  /\ tables \in Tables /\ draft \in Tables
  /\ merge \in {"due", "backfill", "prices", "forget", "wishes", "products", "commit",
                "merged", "failed"}
  /\ call \in [Callers ->
       [pc      : {"idle", "create", "reload", "update", "reinsert", "wish", "price"},
        product : ProductIds \cup {NoProduct},
        row     : [name : Names, unit : Units \cup {NoProduct}] \cup {NoRow},
        wisher  : Wishers \cup {NoWisher},
        price   : PriceIds \cup {NoPriceId},
        crossed : BOOLEAN]]
  /\ calls \in 0..MaxCalls
  /\ late \subseteq Wishers \X ProductIds
  /\ doubled \subseteq Names

StoredIn(db) == {p \in ProductIds : db.products[p] # NoRow}

\* The old schema: products of one name differ in their unit, prices have none.
CatalogInit ==
  /\ \E S \in SUBSET ProductIds :
     \E products \in [ProductIds -> [name : OldNames, unit : Units] \cup {NoRow}] :
     \E wishes \in SUBSET (Wishers \X S), of \in [PriceIds -> S \cup {NoProduct}] :
       /\ S = {p \in ProductIds : products[p] # NoRow}
       /\ \A p, q \in S : products[p] = products[q] => p = q
       /\ tables = [products |-> products, wishes |-> wishes,
                    prices |-> [x \in PriceIds |-> [NoPriceRow EXCEPT !.product = of[x]]]]
  /\ draft = Empty
  /\ merge = "due"
  /\ call = [c \in Callers |-> NoCall]
  /\ calls = 0
  /\ late = {} /\ doubled = {}

-----------------------------------------------------------------------------
(* What a request may do while the migration runs *)

Merging == ~ merge \in {"due", "merged", "failed"}

\* The schema that the requests expect: prices have a unit.
Migrated == merge = "merged"

\* Rows that the migration has deleted or moved, for which a request would wait.
LocksProduct(p) == Merging /\ tables.products[p] # NoRow /\ draft.products[p] = NoRow

LocksWish(w) == Merging /\ (w \in tables.wishes <=> w \notin draft.wishes)

WithProduct(db, p, row) == [db EXCEPT !.products[p] = row]

WithWish(db, w) == [db EXCEPT !.wishes = @ \cup {w}]

WithoutWish(db, w) == [db EXCEPT !.wishes = @ \ {w}]

\* A request commits: the migration sees it too.
Commits(db1, db2) == tables' = db1 /\ draft' = IF Merging THEN db2 ELSE draft

Called == calls < MaxCalls /\ calls' = calls + 1

Idle(c) == call[c].pc = "idle"

Steps(c, l) == call' = [call EXCEPT ![c] = l]

Replies(c) == Steps(c, NoCall)

-----------------------------------------------------------------------------
(* Products *)

Named(db, name) == {p \in StoredIn(db) : db.products[p].name = name}

Creates(name) == {c \in Callers : call[c].pc = "create" /\ call[c].row.name = name}

NewRow(name) == [NoRow EXCEPT !.name = name]

\* Faulty variant: the name is not looked up.
FindNothing(c, name) ==
  /\ Idle(c) /\ Called
  /\ Steps(c, [NoCall EXCEPT !.pc = "create", !.row = NewRow(name)])
  /\ UNCHANGED <<tables, draft, merge, late, doubled>>

\* Create: a product of the same name, whatever its case, is the answer. Two creations
\* of one name cross if both look before either inserts.
FindExisting(c, name) ==
  /\ Idle(c) /\ Called
  /\ IF Named(tables, name) # {} THEN UNCHANGED call
     ELSE call' = [d \in Callers |->
       IF d = c THEN [NoCall EXCEPT !.pc = "create", !.row = NewRow(name),
                                    !.crossed = Creates(name) # {}]
       ELSE IF d \in Creates(name) THEN [call[d] EXCEPT !.crossed = TRUE] ELSE call[d]]
  /\ UNCHANGED <<tables, draft, merge, late, doubled>>

InsertProduct(c) ==
  /\ call[c].pc = "create"
  /\ \E p \in ProductIds :
       /\ tables.products[p] = NoRow
       /\ \A q \in StoredIn(tables) : q < p      \* the newest, with an id never used
       /\ \A d \in Callers : call[d].product # p
       /\ Commits(WithProduct(tables, p, call[c].row), WithProduct(draft, p, call[c].row))
  /\ doubled' = IF call[c].crossed THEN doubled \cup {call[c].row.name} ELSE doubled
  /\ Replies(c)
  /\ UNCHANGED <<merge, calls, late>>

\* Update: the entity is loaded, changed and saved.
LoadProduct(c, p, name) ==
  /\ Idle(c) /\ Called
  /\ tables.products[p] # NoRow
  /\ Steps(c, [NoCall EXCEPT !.pc = "reload", !.product = p,
                             !.row = [tables.products[p] EXCEPT !.name = name]])
  /\ UNCHANGED <<tables, draft, merge, late, doubled>>

ReloadProduct(c) ==
  /\ call[c].pc = "reload"
  /\ Steps(c, [call[c] EXCEPT !.pc =
       IF tables.products[call[c].product] = NoRow THEN "reinsert" ELSE "update"])
  /\ UNCHANGED <<tables, draft, merge, calls, late, doubled>>

\* Nothing stops a name that another product has; a row that is gone is not missed.
WriteProduct(c) ==
  LET p == call[c].product
  IN /\ call[c].pc = "update"
     /\ ~ LocksProduct(p)
     /\ IF tables.products[p] = NoRow THEN UNCHANGED <<tables, draft, doubled>>
        ELSE LET row == [tables.products[p] EXCEPT !.name = call[c].row.name]
             IN /\ Commits(WithProduct(tables, p, row), WithProduct(draft, p, row))
                /\ doubled' = doubled \cup {row.name} \cup
                     IF Merging THEN {tables.products[p].name} ELSE {}
     /\ Replies(c)
     /\ UNCHANGED <<merge, calls, late>>

\* The row was gone: save inserts the entity again.
ReinsertProduct(c) ==
  LET p == call[c].product
  IN /\ call[c].pc = "reinsert"
     /\ IF tables.products[p] # NoRow THEN UNCHANGED <<tables, draft, doubled>>
        ELSE /\ Commits(WithProduct(tables, p, call[c].row), WithProduct(draft, p, call[c].row))
             /\ doubled' = doubled \cup {call[c].row.name}
     /\ Replies(c)
     /\ UNCHANGED <<merge, calls, late>>

\* Its wishes and prices go with it; those of prices wait for the migration.
RemoveProduct(p) ==
  /\ Called
  /\ tables.products[p] # NoRow /\ ~ Merging
  /\ tables' = [products |-> [tables.products EXCEPT ![p] = NoRow],
                wishes   |-> {w \in tables.wishes : w[2] # p},
                prices   |-> [x \in PriceIds |-> IF tables.prices[x].product = p
                                                 THEN NoPriceRow ELSE tables.prices[x]]]
  /\ UNCHANGED <<draft, merge, call, late, doubled>>

-----------------------------------------------------------------------------
(* Wishes and prices *)

FindWished(c, u, p) ==
  /\ Idle(c) /\ Called
  /\ tables.products[p] # NoRow
  /\ Steps(c, [NoCall EXCEPT !.pc = "wish", !.wisher = u, !.product = p])
  /\ UNCHANGED <<tables, draft, merge, late, doubled>>

\* A second wish is a conflict, and a product that is gone an error.
AddWish(c) ==
  LET w == <<call[c].wisher, call[c].product>>
  IN /\ call[c].pc = "wish"
     /\ ~ LocksWish(w) /\ ~ LocksProduct(w[2])
     /\ IF tables.products[w[2]] = NoRow \/ w \in tables.wishes
        THEN UNCHANGED <<tables, draft, late>>
        ELSE /\ Commits(WithWish(tables, w), WithWish(draft, w))
             /\ late' = IF merge \in {"products", "commit"} THEN late \cup {w} ELSE late
     /\ Replies(c)
     /\ UNCHANGED <<merge, calls, doubled>>

RemoveWish(w) ==
  /\ Called
  /\ w \in tables.wishes /\ ~ LocksWish(w)
  /\ Commits(WithoutWish(tables, w), WithoutWish(draft, w))
  /\ late' = (late \ {w}) \cup
       IF merge \in {"wishes", "products", "commit"}
       THEN {v \in tables.wishes \ {w} :
               v[1] = w[1] /\ tables.products[v[2]].name = tables.products[w[2]].name}
       ELSE {}
  /\ UNCHANGED <<merge, call, doubled>>

FindPriced(c, x, p) ==
  /\ Idle(c) /\ Called
  /\ Migrated
  /\ tables.products[p] # NoRow /\ tables.prices[x] = NoPriceRow
  /\ Steps(c, [NoCall EXCEPT !.pc = "price", !.price = x, !.product = p])
  /\ UNCHANGED <<tables, draft, merge, late, doubled>>

\* A product that is gone is an error.
InsertPrice(c) ==
  /\ call[c].pc = "price"
  /\ \E unit \in Units :
       tables' = IF tables.products[call[c].product] = NoRow
                    \/ tables.prices[call[c].price] # NoPriceRow THEN tables
                 ELSE [tables EXCEPT !.prices[call[c].price] =
                         [product |-> call[c].product, unit |-> unit]]
  /\ Replies(c)
  /\ UNCHANGED <<draft, merge, calls, late, doubled>>

-----------------------------------------------------------------------------
(* The migration *)

\* Of the products of one name, the oldest stays.
Keeper(db, p) == Min(Named(db, db.products[p].name))

Dups(db) == {p \in StoredIn(db) : Keeper(db, p) # p}

MergeStep(from, to, db) ==
  /\ merge = from /\ merge' = to
  /\ draft' = db
  /\ UNCHANGED <<tables, call, calls, late, doubled>>

\* Column unitType is added to prices, which locks the table.
StartMerge == MergeStep("due", "backfill", tables)

BackfillUnits ==
  MergeStep("backfill", "prices", [draft EXCEPT !.prices = [x \in PriceIds |->
    IF draft.prices[x] = NoPriceRow THEN NoPriceRow
    ELSE [draft.prices[x] EXCEPT !.unit = draft.products[draft.prices[x].product].unit]]])

RepointPrices ==
  MergeStep("prices", "forget", [draft EXCEPT !.prices = [x \in PriceIds |->
    IF draft.prices[x].product \in Dups(draft)
    THEN [draft.prices[x] EXCEPT !.product = Keeper(draft, @)] ELSE draft.prices[x]]])

\* Faulty variant: every wish for a duplicate is dropped.
ForgetAllWishes ==
  MergeStep("forget", "wishes", [draft EXCEPT !.wishes =
    {w \in @ : w[2] \notin Dups(draft)}])

\* Wishes for a duplicate of users who wish for the keeper too.
ForgetWishes ==
  MergeStep("forget", "wishes", [draft EXCEPT !.wishes =
    {w \in @ : w[2] \notin Dups(draft) \/ <<w[1], Keeper(draft, w[2])>> \notin @}])

Moved(w) == IF w[2] \in Dups(draft) THEN <<w[1], Keeper(draft, w[2])>> ELSE w

\* Two wishes of one user that become the same violate the unique key.
Collide == \E v, w \in draft.wishes : v # w /\ Moved(v) = Moved(w)

RepointWishes ==
  /\ ~ Collide
  /\ MergeStep("wishes", "products", [draft EXCEPT !.wishes = {Moved(w) : w \in @}])

\* Everything is rolled back; the next deployment tries again.
FailMerge ==
  /\ Collide
  /\ MergeStep("wishes", "failed", Empty)

\* With them go the wishes and prices that still name them.
DeleteProducts ==
  MergeStep("products", "commit",
    [products |-> [p \in ProductIds |-> IF p \in Dups(draft) THEN NoRow ELSE draft.products[p]],
     wishes   |-> {w \in draft.wishes : w[2] \notin Dups(draft)},
     prices   |-> [x \in PriceIds |-> IF draft.prices[x].product \in Dups(draft)
                                      THEN NoPriceRow ELSE draft.prices[x]]])

CommitMerge ==
  /\ merge = "commit" /\ merge' = "merged"
  /\ tables' = draft /\ draft' = Empty
  /\ UNCHANGED <<call, calls, late, doubled>>

CatalogNext ==
  \/ \E c \in Callers :
       \/ \E name \in Names :
            FindExisting(c, name) \/ \E p \in ProductIds : LoadProduct(c, p, name)
       \/ InsertProduct(c) \/ ReloadProduct(c) \/ WriteProduct(c) \/ ReinsertProduct(c)
       \/ \E p \in ProductIds :
            \/ \E u \in Wishers : FindWished(c, u, p)
            \/ \E x \in PriceIds : FindPriced(c, x, p)
       \/ AddWish(c) \/ InsertPrice(c)
  \/ \E p \in ProductIds : RemoveProduct(p)
  \/ \E w \in Wishers \X ProductIds : RemoveWish(w)
  \/ StartMerge \/ BackfillUnits \/ RepointPrices \/ ForgetWishes \/ RepointWishes
  \/ FailMerge \/ DeleteProducts \/ CommitMerge

CatalogSpec == CatalogInit /\ [][CatalogNext]_catalogVars

-----------------------------------------------------------------------------
NameOf(db, p) == db.products[p].name

\* What the migration is about to commit keeps, under the same name, every wish that
\* its users still have and every price with the unit of the product it was for. The
\* exceptions: wishes made after the wishes were moved, which go with their product;
\* wishes forgotten for one of the same name that their user then removed; and the
\* products of a name that an update moved meanwhile.
MergeKeepsAll ==
  merge = "commit" =>
    /\ \A w \in tables.wishes \ late : NameOf(tables, w[2]) \notin doubled =>
         \E p \in ProductIds :
           <<w[1], p>> \in draft.wishes /\ NameOf(draft, p) = NameOf(tables, w[2])
    /\ \A x \in PriceIds : tables.prices[x] # NoPriceRow =>
         LET p == tables.prices[x].product
         IN NameOf(tables, p) \notin doubled =>
              /\ draft.prices[x].unit = tables.products[p].unit
              /\ NameOf(draft, draft.prices[x].product) = NameOf(tables, p)

\* Once merged, two products have one name only if two creations of it crossed or
\* an update gave it to one of them.
OneProductPerName ==
  merge = "merged" => \A name \in Names \ doubled : Cardinality(Named(tables, name)) <= 1

ProductsWhole == MergeKeepsAll /\ OneProductPerName
=============================================================================
