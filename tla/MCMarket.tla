------------------------------- MODULE MCMarket -------------------------------
(***************************************************************************)
(* Small instances for TLC of what surrounds the prices: the catalogue,    *)
(* the stores, the lists that are read while they change, and the          *)
(* notifications.  As in MCAccounts the components are explored apart:     *)
(* they share no variable.                                                 *)
(***************************************************************************)
EXTENDS Broadcast, BadgeAlerts, Inbox, Catalog, Stores, StoreSearch, PriceBoard, TLC

CONSTANTS q1, q2, q3

\* Two files: a place twice, one of them abroad in the first.
MCRow(place, inKorea) ==
  [place |-> place, inKorea |-> inKorea, named |-> TRUE, typed |-> TRUE]

MCFiles == <<
  <<MCRow(q1, TRUE), MCRow(q3, FALSE), MCRow(q2, TRUE), MCRow(q1, TRUE)>>,
  <<MCRow(q3, TRUE)>> >>

\* Chains in both spellings, alone and with another word, and one that hides another.
MCSigns ==
  { <<"gs">>, <<"jieseu">>, <<"gs", "25">>, <<"jieseu", "25">>, <<"jieseu", "deopeuresi">>,
    <<"emart">>, <<"imateu">>, <<"lott", "emart">>, <<"lottemateu">> }

MCKeywords == MCSigns \cup {<<"25">>, <<"gs", "deopeuresi">>, <<"gs", "thefresh">>}

\* What a late save may bring back: an offer near by, of either product, cheap and of
\* this week or dear and older.
MCLate ==
  {r \in [goods : Goods, shop : NearShops, seller : Sellers, amount : Amounts,
          active : {TRUE}, week : BOOLEAN, confirms : {0}] : r.week <=> r.amount = 1}

VARIABLE component

vars == <<component, broadcastVars, alertVars, inboxVars, catalogVars, storeVars,
          searchVars, boardVars>>

\* A single initial state of each component at rest.
BroadcastAtRest == BroadcastInit /\ \A u \in Users : account[u] = "unused"

\* Units are told apart by nothing, so that their order among the products is any.
UnitsInOrder ==
  \A p, q \in StoredIn(tables) :
    p < q => tables.products[p].unit < tables.products[q].unit

CatalogAtRest == CatalogInit /\ tables = Empty

BoardAtRest == BoardInit /\ Priced = {}

SearchAtRest ==
  /\ SearchInit
  /\ branch = [b \in Branches |->
       [name |-> CHOOSE s \in Signs : TRUE, distance |-> CHOOSE d \in Distances : TRUE]]

Init ==
  \/ /\ component = "broadcast"
     /\ CatalogAtRest /\ StoresInit /\ SearchAtRest /\ BoardAtRest
     /\ BadgeAlertsInit /\ InboxInit /\ BroadcastInit
  \/ /\ component = "catalog"
     /\ BroadcastAtRest /\ StoresInit /\ SearchAtRest /\ BoardAtRest
     /\ BadgeAlertsInit /\ InboxInit /\ CatalogInit /\ UnitsInOrder
  \/ /\ component = "search"
     /\ BroadcastAtRest /\ CatalogAtRest /\ StoresInit /\ BoardAtRest
     /\ BadgeAlertsInit /\ InboxInit /\ SearchInit
  \/ /\ component = "board"
     /\ BroadcastAtRest /\ CatalogAtRest /\ StoresInit /\ SearchAtRest
     /\ BadgeAlertsInit /\ InboxInit /\ BoardInit
  \/ /\ component \in {"alerts", "inbox", "stores"}
     /\ BroadcastAtRest /\ CatalogAtRest /\ SearchAtRest /\ BoardAtRest
     /\ BadgeAlertsInit /\ InboxInit /\ StoresInit

Next ==
  /\ UNCHANGED component
  /\ \/ /\ component = "broadcast" /\ BroadcastNext
        /\ UNCHANGED <<alertVars, inboxVars, catalogVars, storeVars, searchVars, boardVars>>
     \/ /\ component = "alerts" /\ BadgeAlertsNext
        /\ UNCHANGED <<broadcastVars, inboxVars, catalogVars, storeVars, searchVars, boardVars>>
     \/ /\ component = "inbox" /\ InboxNext
        /\ UNCHANGED <<broadcastVars, alertVars, catalogVars, storeVars, searchVars, boardVars>>
     \/ /\ component = "catalog" /\ CatalogNext
        /\ UNCHANGED <<broadcastVars, alertVars, inboxVars, storeVars, searchVars, boardVars>>
     \/ /\ component = "stores" /\ StoresNext
        /\ UNCHANGED <<broadcastVars, alertVars, inboxVars, catalogVars, searchVars, boardVars>>
     \/ /\ component = "search" /\ SearchNext
        /\ UNCHANGED <<broadcastVars, alertVars, inboxVars, catalogVars, storeVars, boardVars>>
     \/ /\ component = "board" /\ BoardNext
        /\ UNCHANGED <<broadcastVars, alertVars, inboxVars, catalogVars, storeVars, searchVars>>

Spec == Init /\ [][Next]_vars

\* One type invariant for all: that of the component explored, as the others rest.
TypeOK ==
  CASE component = "broadcast" -> BroadcastTypeOK
    [] component = "alerts"    -> BadgeAlertsTypeOK
    [] component = "inbox"     -> InboxTypeOK
    [] component = "catalog"   -> CatalogTypeOK
    [] component = "stores"    -> StoresTypeOK
    [] component = "search"    -> SearchTypeOK
    [] component = "board"     -> BoardTypeOK

\* What is offered stays whole: the products with their wishes and prices when they are
\* merged, created and renamed, the stores when the script reads the register, and what a
\* search finds of them.
CatalogWhole == ProductsWhole /\ StoresWhole /\ SearchWhole

\* Two users, requests or tokens are interchangeable; those of the components are
\* swapped together.
Pairs == {Tokens, Verifiers, Callers, Clients}

Symmetry ==
  {[x \in UNION Pairs |-> x], [x \in UNION Pairs |-> CHOOSE y \in UNION {S \in Pairs : x \in S} : y # x]}
=============================================================================
