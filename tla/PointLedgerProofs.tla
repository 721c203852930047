--------------------------- MODULE PointLedgerProofs ---------------------------
(***************************************************************************)
(* The safety of PointLedger for every set of users, prices, calls and     *)
(* verifications and every amount of points: an inductive invariant, the   *)
(* invariants it implies, and the refinement of AtomicLedger.              *)
(***************************************************************************)
EXTENDS PointLedger, SumLemmas

\* The statements of a point transaction, the wallet's lock not yet taken.
Seeking == {"existing", "wallet", "open"}

\* What a call works on: a booking has a real request, its user is a user.
RequestsOK ==
  \A c \in Calls :
    /\ pc[c] = "idle" <=> request[c] = NoRequest
    /\ pc[c] \in Seeking \cup Holding \cup {"loaded", "earned"}
         => request[c] \in Request
    /\ pc[c] = "loaded" => request[c].price \in Prices
    /\ pc[c] \in {"loaded", "earned"} => request[c].kind = "delete"
    /\ pc[c] \in {"summary", "saveEmpty"} => request[c] = SummaryOf(request[c].user)
                                          /\ request[c].user \in Users

\* The lock table and the program counters agree, and a locked wallet belongs
\* to an account that still exists.
LocksOK ==
  /\ \A u \in Users, c \in Calls :
       walletLock[u] = c => pc[c] \in Holding /\ request[c].user = u
  /\ \A c \in Calls : pc[c] \in Holding =>
       /\ walletLock[request[c].user] = c
       /\ entity[c] = wallet[request[c].user]
       /\ account[request[c].user] # "gone"

\* The amount a call is about to book is right for the ledger as it is now.
AmountsOK ==
  \A c \in Calls : pc[c] \in {"insert", "update"} =>
    /\ amount[c] \in Amounts \ {0}
    /\ amount[c] = Payable(request[c], txs, entity[c])

\* A price has one owner for life, a dispute one call.
OwnersOK ==
  /\ \A c \in Calls : request[c].price # NoPrice =>
       /\ priceState[request[c].price] # "unused"
       /\ priceUser[request[c].price] \in {request[c].user, NoUser}
  /\ \A c, d \in Calls :
       request[c].price = request[d].price /\ request[c].price # NoPrice
         => request[c].user = request[d].user
  /\ \A c, d \in Calls :
       /\ request[c].verification = request[d].verification
       /\ request[c].verification # NoVerification
       => c = d
  /\ \A c \in Calls : request[c].kind = "disputed"
       => request[c].verification # NoVerification

\* A row is what a resolved call booked; its user still exists.
RowsOK ==
  \A r \in txs :
    /\ pc[r.id] = "resolved"
    /\ r.request = request[r.id]
    /\ r.request.price \in Prices
    /\ account[r.request.user] # "gone"
    /\ r.request.kind = "create" => r.amount = PRICE_CREATE_POINTS
    /\ r.request.kind = "delete" => r.amount <= PRICE_CREATE_POINTS

\* A call about to book its row still has its key to itself, and a reward that
\* resolved left its row.
KeysOK ==
  /\ \A c \in Calls : pc[c] = "update" =>
       /\ request[c].price \in Prices
       /\ \A r \in txs : ~ SameKey(r.request, request[c])
  /\ OneRowPerKey

\* A deduction for a deletion runs only for a registration that was paid.
PaidBefore(u, p) ==
  \E e \in txs : e.request.kind = "create" /\ e.request.user = u /\ e.request.price = p

RevokesOK ==
  /\ \A c \in Calls :
       /\ request[c].kind = "delete"
       /\ pc[c] \in Seeking \cup Holding
       /\ request[c].price \in Prices
       => account[request[c].user] = "gone" \/ PaidBefore(request[c].user, request[c].price)
  /\ \A r \in txs : r.request.kind = "delete"
       => PaidBefore(r.request.user, r.request.price)

\* What a deduction leaves is never below zero, and is what the other two columns say.
WalletBalances ==
  \A u \in Users :
    /\ wallet[u].availablePoints >= 0
    /\ wallet[u].availablePoints = wallet[u].lifetimeEarned - wallet[u].lifetimeSpent

WalletsOK ==
  /\ WalletBalances
  /\ \A u \in Users : u \notin walletRow =>
       wallet[u] = EmptyWallet /\ RowsOf(txs, u, Kinds) = {}
  /\ \A u \in Users : account[u] = "gone" => u \notin walletRow

IInv == /\ TypeOK /\ RequestsOK /\ LocksOK /\ AmountsOK /\ OwnersOK
        /\ RowsOK /\ KeysOK /\ RevokesOK /\ WalletsOK

-----------------------------------------------------------------------------
(* Actions of the same shape, once each. *)

\* A transaction that ends without writing anything.
LEMMA SettleKeeps ==
  ASSUME IInv, NEW c \in Calls, NEW how \in Ended,
         pc[c] \notin Ended \cup {"idle"},
         Settle(c, how), UNCHANGED tables
  PROVE  IInv'
<1> USE DEF IInv, Settle, tables
<1>1. TypeOK'
  BY DEF TypeOK, Ended, PCs, Wallet, EmptyWallet
<1>2. RequestsOK'
  BY DEF TypeOK, RequestsOK, Ended, Seeking, Holding
<1>3. LocksOK'
  BY LedgerAssumption DEF TypeOK, RequestsOK, LocksOK, Ended, Holding, Request
<1>4. AmountsOK'
  BY DEF TypeOK, AmountsOK, Ended
<1>5. OwnersOK'
  BY DEF OwnersOK
<1>6. RowsOK'
  BY DEF TypeOK, RowsOK, Ended, Row
<1>7. KeysOK'
  BY DEF TypeOK, KeysOK, OneRowPerKey, Ended
<1>8. RevokesOK'
  BY DEF TypeOK, RevokesOK, PaidBefore, Seeking, Holding, Ended
<1>9. WalletsOK'
  BY DEF WalletsOK, WalletBalances
<1> QED BY <1>1, <1>2, <1>3, <1>4, <1>5, <1>6, <1>7, <1>8, <1>9

\* A statement that only reads, or whose insert waits for its COMMIT.
LEMMA GotoKeeps ==
  ASSUME IInv, NEW c \in Calls, NEW to, Goto(c, to),
         \/ /\ pc[c] = "earned" /\ to = "existing"
            /\ EarnedRow(txs, request[c].user, request[c].price)
         \/ pc[c] = "existing" /\ to = "wallet"
         \/ pc[c] = "wallet" /\ to = "open"
         \/ pc[c] = "insert" /\ to = "update" /\ ~ RowRefused(c)
         \/ pc[c] = "summary" /\ to = "saveEmpty"
  PROVE  IInv'
<1> USE DEF IInv, Goto, tables
<1>1. TypeOK'
  BY DEF TypeOK, PCs
<1>2. RequestsOK'
  BY DEF TypeOK, RequestsOK, Seeking, Holding
<1>3. LocksOK'
  BY DEF TypeOK, LocksOK, Holding
<1>4. AmountsOK'
  BY DEF TypeOK, AmountsOK
<1>5. OwnersOK'
  BY DEF OwnersOK
<1>6. RowsOK'
  BY DEF TypeOK, RowsOK, Row
<1>7. KeysOK'
  BY DEF TypeOK, RequestsOK, KeysOK, OneRowPerKey, RowRefused, Request, Holding
<1>8. RevokesOK'
  BY PointAssumption
     DEF TypeOK, RevokesOK, PaidBefore, EarnedRow, RowsOf, Seeking, Holding
<1>9. WalletsOK'
  BY DEF WalletsOK, WalletBalances
<1> QED BY <1>1, <1>2, <1>3, <1>4, <1>5, <1>6, <1>7, <1>8, <1>9

\* A call takes the wallet's lock, by SELECT FOR UPDATE or by its own insert.
LEMMA LockKeeps ==
  ASSUME IInv, NEW c \in Calls,
         pc[c] \in {"wallet", "open"},
         walletLock[request[c].user] = NoCall,
         account[request[c].user] # "gone",
         walletLock' = [walletLock EXCEPT ![request[c].user] = c],
         entity' = [entity EXCEPT ![c] = wallet[request[c].user]],
         pc' = [pc EXCEPT ![c] = "amount"],
         UNCHANGED <<tables, request, amount>>
  PROVE  IInv'
<1> USE DEF IInv, tables
<1>0. request[c] \in Request /\ request[c].user \in Users
  BY DEF RequestsOK, Seeking, Request
<1>1. TypeOK'
  BY <1>0 DEF TypeOK, PCs
<1>2. RequestsOK'
  BY <1>0 DEF TypeOK, RequestsOK, Seeking, Holding
<1>3. LocksOK'
  BY <1>0, LedgerAssumption DEF TypeOK, LocksOK, RequestsOK, Request, Holding
<1>4. AmountsOK'
  BY DEF TypeOK, AmountsOK
<1>5. OwnersOK'
  BY DEF OwnersOK
<1>6. RowsOK'
  BY DEF TypeOK, RowsOK, Row
<1>7. KeysOK'
  BY DEF TypeOK, KeysOK, OneRowPerKey
<1>8. RevokesOK'
  BY DEF TypeOK, RevokesOK, PaidBefore, Seeking, Holding
<1>9. WalletsOK'
  BY DEF WalletsOK, WalletBalances
<1> QED BY <1>1, <1>2, <1>3, <1>4, <1>5, <1>6, <1>7, <1>8, <1>9

\* A wallet row appears, empty, and the call that inserted it ends.
LEMMA OpenKeeps ==
  ASSUME IInv, NEW c \in Calls,
         pc[c] \in {"amount", "saveEmpty"},
         account[request[c].user] # "gone",
         walletRow' = walletRow \cup {request[c].user},
         Settle(c, "resolved"),
         UNCHANGED <<account, priceState, priceUser, wallet, txs>>
  PROVE  IInv'
<1> USE DEF IInv, Settle
<1>0. request[c].user \in Users
  BY DEF RequestsOK, Holding, Request
<1>1. TypeOK'
  BY <1>0 DEF TypeOK, PCs, Wallet, EmptyWallet
<1>2. RequestsOK'
  BY DEF TypeOK, RequestsOK, Seeking, Holding
<1>3. LocksOK'
  BY LedgerAssumption DEF TypeOK, RequestsOK, LocksOK, Holding, Request
<1>4. AmountsOK'
  BY DEF TypeOK, AmountsOK
<1>5. OwnersOK'
  BY DEF OwnersOK
<1>6. RowsOK'
  BY DEF TypeOK, RowsOK, Row
<1>7. KeysOK'
  BY DEF TypeOK, KeysOK, OneRowPerKey
<1>8. RevokesOK'
  BY DEF TypeOK, RevokesOK, PaidBefore, Seeking, Holding
<1>9. WalletsOK'
  BY DEF WalletsOK, WalletBalances
<1> QED BY <1>1, <1>2, <1>3, <1>4, <1>5, <1>6, <1>7, <1>8, <1>9

\* A call begins with a request q, the tables being as they were but for the
\* price that a registration lists.
LEMMA BeginKeeps ==
  ASSUME IInv, NEW c \in Calls, NEW where, NEW q, Begin(c, where, q),
         \/ where \in {"existing", "loaded"} /\ q \in Request /\ q.price \in Prices
         \/ where = "summary" /\ q \in {SummaryOf(u) : u \in Users},
         where = "loaded" => q.kind = "delete",
         q.kind = "delete" => where = "loaded",
         q.kind = "disputed" => q.verification # NoVerification,
         \A d \in Calls : q.verification # NoVerification
                            => request[d].verification # q.verification,
         UNCHANGED <<account, walletRow, wallet, txs>>,
         TypeOK', OwnersOK'
  PROVE  IInv'
<1> USE DEF IInv, Begin
<1>0. q # NoRequest
  BY LedgerAssumption DEF Request, NoRequest, SummaryOf, Q
<1>1. RequestsOK'
  BY <1>0 DEF TypeOK, RequestsOK, Seeking, Holding, SummaryOf, Q
<1>2. LocksOK'
  BY DEF TypeOK, LocksOK, Holding
<1>3. AmountsOK'
  BY DEF TypeOK, AmountsOK
<1>4. RowsOK'
  BY DEF TypeOK, RowsOK, Row
<1>5. KeysOK'
  BY DEF TypeOK, KeysOK, OneRowPerKey
<1>6. RevokesOK'
  BY DEF TypeOK, RevokesOK, PaidBefore, Seeking, Holding
<1>7. WalletsOK'
  BY DEF WalletsOK, WalletBalances
<1> QED BY <1>1, <1>2, <1>3, <1>4, <1>5, <1>6, <1>7

\* A registration keeps the invariant: the price was unused, so its key is.
LEMMA CreatePriceKeeps ==
  ASSUME IInv, NEW c \in Calls, NEW u \in Users, NEW p \in Prices,
         CreatePrice(c, u, p)
  PROVE  IInv'
<1> DEFINE q == Q("create", u, p, NoVerification)
<1> USE DEF IInv, CreatePrice, Begin
<1>1. q \in Request /\ q.kind = "create" /\ q.user = u /\ q.price = p
      /\ q.verification = NoVerification
  BY DEF Q, Request, Kinds
<1> HIDE DEF q
<1>2. TypeOK'
  BY <1>1 DEF TypeOK, PCs, q
<1>3. \A d \in Calls : request[d].price # p
  BY PointAssumption DEF OwnersOK
<1>4. OwnersOK'
  BY <1>1, <1>3, PointAssumption DEF TypeOK, OwnersOK, q
<1> QED
  BY <1>1, <1>2, <1>4, BeginKeeps DEF q

\* A removal that has loaded its price keeps the invariant.
LEMMA LoadPriceKeeps ==
  ASSUME IInv, NEW c \in Calls, NEW u \in Users, NEW p \in Prices,
         LoadPrice(c, u, p)
  PROVE  IInv'
<1> DEFINE q == Q("delete", u, p, NoVerification)
<1> USE DEF IInv, LoadPrice, Begin, tables
<1>1. q \in Request /\ q.kind = "delete" /\ q.user = u /\ q.price = p
      /\ q.verification = NoVerification
  BY DEF Q, Request, Kinds
<1> HIDE DEF q
<1>2. TypeOK'
  BY <1>1 DEF TypeOK, PCs, q
<1>3. OwnersOK'
  BY <1>1, LedgerAssumption DEF TypeOK, OwnersOK, q
<1> QED
  BY <1>1, <1>2, <1>3, BeginKeeps DEF q

\* A dispute starts a call under a verification that no call has used.
LEMMA DisputePriceKeeps ==
  ASSUME IInv, NEW c \in Calls, NEW p \in Prices, NEW v \in Verifications,
         DisputePrice(c, p, v)
  PROVE  IInv'
<1> DEFINE q == Q("disputed", priceUser[p], p, v)
<1> USE DEF IInv, DisputePrice, Begin, tables
<1>1. q \in Request /\ q.kind = "disputed" /\ q.user = priceUser[p]
      /\ q.price = p /\ q.verification = v
  BY DEF TypeOK, Q, Request, Kinds
<1> HIDE DEF q
<1>2. TypeOK'
  BY <1>1 DEF TypeOK, PCs, q
<1>3. OwnersOK'
  BY <1>1, PointAssumption, LedgerAssumption DEF TypeOK, OwnersOK, q
<1>4. Begin(c, "existing", q)
  BY DEF q
<1>5. q.verification # NoVerification
  BY <1>1, PointAssumption
<1>6. \A d \in Calls : request[d].verification # q.verification
  BY <1>1
<1>7. IInv /\ UNCHANGED <<account, walletRow, wallet, txs>>
  OBVIOUS
<1> HIDE DEF IInv, DisputePrice, Begin, tables
<1> QED
  BY <1>1, <1>2, <1>3, <1>4, <1>5, <1>6, <1>7, BeginKeeps DEF IInv

\* GET /points/me carries no key and no price.
LEMMA GetSummaryKeeps ==
  ASSUME IInv, NEW c \in Calls, NEW u \in Users, GetSummary(c, u)
  PROVE  IInv'
<1> USE DEF IInv, GetSummary, Begin, tables
<1>1. /\ SummaryOf(u).kind = "summary" /\ SummaryOf(u).price = NoPrice
      /\ SummaryOf(u).verification = NoVerification
  BY DEF SummaryOf, Q
<1>2. TypeOK'
  BY DEF TypeOK, PCs
<1>3. OwnersOK'
  BY <1>1 DEF TypeOK, OwnersOK
<1> QED
  BY <1>1, <1>2, <1>3, BeginKeeps

-----------------------------------------------------------------------------
(* What an amount is worth. *)

\* A deduction never exceeds what is available, a reward is paid in full.
LEMMA PayableBounds ==
  ASSUME NEW q \in Request, NEW w \in Wallet, NEW rows,
         Payable(q, rows, w) \in Nat
  PROVE  /\ q.kind # "create" => Payable(q, rows, w) <= w.availablePoints
         /\ q.kind = "create" => Payable(q, rows, w) = PRICE_CREATE_POINTS
         /\ q.kind = "delete" => Payable(q, rows, w) <= PRICE_CREATE_POINTS
<1> DEFINE rest == RemainingCap(rows, q.user, q.price)
<1> HIDE DEF rest
<1>1. q.kind = "create" => Payable(q, rows, w) = PRICE_CREATE_POINTS
  BY DEF Payable, Request, Kinds
<1>2. q.kind = "delete" => /\ Payable(q, rows, w) <= w.availablePoints
                           /\ Payable(q, rows, w) <= PRICE_CREATE_POINTS
  BY PointAssumption DEF Payable, Request, Kinds, Least, Wallet
<1>3. ASSUME q.kind = "disputed"
      PROVE  Payable(q, rows, w) <= w.availablePoints
  <2>1. Payable(q, rows, w)
          = Least(Least(PRICE_DISPUTED_PENALTY, rest), w.availablePoints)
    BY <1>3 DEF Payable, rest
  <2> QED BY <2>1, PointAssumption DEF Least, Wallet
<1> QED BY <1>1, <1>2, <1>3 DEF Request, Kinds

\* A wallet stays a wallet if no more is taken than it has.
LEMMA AppliedType ==
  ASSUME NEW w \in Wallet, NEW kind, NEW a \in Nat,
         kind # "create" => a <= w.availablePoints
  PROVE  Applied(w, kind, a) \in Wallet
<1>1. CASE kind = "create"
  BY <1>1 DEF Applied, Wallet
<1>2. CASE kind # "create"
  <2>1. w.availablePoints - a \in Nat
    BY <1>2 DEF Wallet
  <2> QED BY <1>2, <2>1 DEF Applied, Wallet
<1> QED BY <1>1, <1>2

\* The ledger enters only through the user's own penalties.
LEMMA PayableStable ==
  ASSUME NEW q, NEW w, NEW rows, NEW more,
         DisputedRows(rows, q.user, q.price) = DisputedRows(more, q.user, q.price)
  PROVE  Payable(q, rows, w) = Payable(q, more, w)
BY DEF Payable, RemainingCap

\* Rows of other users do not.
LEMMA OthersDoNotCount ==
  ASSUME NEW rows, NEW gone, NEW come, NEW u, NEW p,
         \A r \in gone \cup come : r.request.user # u
  PROVE  DisputedRows((rows \ gone) \cup come, u, p) = DisputedRows(rows, u, p)
BY DEF DisputedRows, RowsOf

-----------------------------------------------------------------------------
(* The remaining actions. *)

\* The removal keeps the invariant, whether or not the deleted entity keeps its id.
LEMMA RemovePriceKeeps ==
  ASSUME IInv, NEW c \in Calls, RemovePrice(c)
  PROVE  IInv'
<1> USE DEF IInv, RemovePrice
<1>0. request[c] \in Request /\ request[c].price \in Prices /\ pc[c] = "loaded"
      /\ request[c].kind = "delete"
  BY DEF RequestsOK
<1>a. /\ request'[c] \in Request
      /\ request'[c].kind = "delete"
      /\ request'[c].price \in {request[c].price, NoPrice}
      /\ request'[c].user = request[c].user
      /\ request'[c].verification = request[c].verification
      /\ \A d \in Calls \ {c} : request'[d] = request[d]
      /\ DOMAIN request' = Calls
  BY <1>0 DEF TypeOK, Request
<1>1. TypeOK'
  BY <1>0, <1>a DEF TypeOK, PCs
<1>2. RequestsOK'
  BY <1>0, <1>a, LedgerAssumption DEF TypeOK, RequestsOK, Seeking, Holding, NoRequest, Request, Q
<1>3. LocksOK'
  BY <1>0, <1>a DEF TypeOK, LocksOK, Holding
<1>4. AmountsOK'
  BY <1>0, <1>a DEF TypeOK, AmountsOK
<1>5. OwnersOK'
  BY <1>0, <1>a DEF TypeOK, OwnersOK
<1>6. RowsOK'
  BY <1>0, <1>a DEF TypeOK, RowsOK, Row
<1>7. KeysOK'
  BY <1>0, <1>a DEF TypeOK, KeysOK, OneRowPerKey
<1>8. RevokesOK'
  BY <1>0, <1>a DEF TypeOK, RevokesOK, PaidBefore, Seeking, Holding
<1>9. WalletsOK'
  BY DEF WalletsOK, WalletBalances
<1> QED BY <1>1, <1>2, <1>3, <1>4, <1>5, <1>6, <1>7, <1>8, <1>9

\* An amount was computed and the row is to be inserted.
LEMMA AmountKeeps ==
  ASSUME IInv, NEW c \in Calls, NEW a \in Amounts,
         pc[c] = "amount", a > 0,
         a = Payable(request[c], txs, entity[c]),
         amount' = [amount EXCEPT ![c] = a],
         pc' = [pc EXCEPT ![c] = "insert"],
         UNCHANGED <<tables, walletLock, request, entity>>
  PROVE  IInv'
<1> USE DEF IInv, tables
<1>1. TypeOK'
  BY PointAssumption DEF TypeOK, PCs, Amounts
<1>2. RequestsOK'
  BY DEF TypeOK, RequestsOK, Seeking, Holding
<1>3. LocksOK'
  BY DEF TypeOK, LocksOK, Holding
<1>4. AmountsOK'
  BY PointAssumption DEF TypeOK, AmountsOK, Amounts
<1>5. OwnersOK'
  BY DEF OwnersOK
<1>6. RowsOK'
  BY DEF TypeOK, RowsOK, Row
<1>7. KeysOK'
  BY DEF TypeOK, KeysOK, OneRowPerKey
<1>8. RevokesOK'
  BY DEF TypeOK, RevokesOK, PaidBefore, Seeking, Holding
<1>9. WalletsOK'
  BY DEF WalletsOK, WalletBalances
<1> QED BY <1>1, <1>2, <1>3, <1>4, <1>5, <1>6, <1>7, <1>8, <1>9

\* The deletion of an account begins, or is given up: only its state changes.
LEMMA AccountStateKeeps ==
  ASSUME IInv, NEW u \in Users,
         account[u] # "gone",
         account' \in {[account EXCEPT ![u] = "closing"], [account EXCEPT ![u] = "live"]},
         UNCHANGED <<priceState, priceUser, walletRow, wallet, txs, locals>>
  PROVE  IInv'
<1> USE DEF IInv, locals
<1>0. \A x \in Users : (account'[x] = "gone") <=> (account[x] = "gone")
  BY DEF TypeOK
<1>1. TypeOK'
  BY DEF TypeOK
<1>2. RequestsOK'
  BY DEF RequestsOK
<1>3. LocksOK'
  BY <1>0 DEF RequestsOK, Request, LocksOK, Holding
<1>4. AmountsOK' /\ OwnersOK' /\ KeysOK'
  BY DEF AmountsOK, OwnersOK, KeysOK, OneRowPerKey
<1>5. RowsOK'
  BY <1>0 DEF TypeOK, Row, Request, RowsOK
<1>6. RevokesOK'
  BY <1>0 DEF RequestsOK, Request, RevokesOK, PaidBefore
<1>7. WalletsOK'
  BY <1>0 DEF WalletsOK, WalletBalances
<1> QED BY <1>1, <1>2, <1>3, <1>4, <1>5, <1>6, <1>7

\* The cascade and its commit.
LEMMA CloseAccountKeeps ==
  ASSUME IInv, NEW u \in Users, CloseAccount(u)
  PROVE  IInv'
<1> USE DEF IInv, CloseAccount, locals
<1>0. \A c \in Calls : pc[c] \in Holding => request[c].user \in Users \ {u}
  BY LedgerAssumption DEF RequestsOK, LocksOK, Request
<1>1. TypeOK'
  BY DEF TypeOK, Wallet, EmptyWallet
<1>2. RequestsOK'
  BY DEF RequestsOK
<1>3. LocksOK'
  BY <1>0 DEF TypeOK, LocksOK
<1>4. AmountsOK'
  <2> SUFFICES ASSUME NEW c \in Calls, pc[c] \in {"insert", "update"}
               PROVE  Payable(request[c], txs', entity[c])
                        = Payable(request[c], txs, entity[c])
    BY DEF AmountsOK
  <2>1. DisputedRows(txs', request[c].user, request[c].price)
          = DisputedRows(txs, request[c].user, request[c].price)
    BY <1>0 DEF Holding, DisputedRows, RowsOf
  <2> QED BY <2>1, PayableStable
<1>5. OwnersOK'
  <2>1. \A c \in Calls : request[c].price # NoPrice => request[c].price \in Prices
    BY DEF TypeOK, Request, SummaryOf, NoRequest, Q
  <2> QED BY <2>1 DEF TypeOK, OwnersOK
<1>6. RowsOK'
  BY DEF TypeOK, Row, Request, RowsOK
<1>7. KeysOK'
  BY DEF KeysOK, OneRowPerKey
<1>8. RevokesOK'
  <2>1. ASSUME NEW x \in Users, x # u, NEW p, PaidBefore(x, p)
        PROVE  PaidBefore(x, p)'
    BY <2>1 DEF PaidBefore
  <2>2. \A c \in Calls : pc[c] \in Seeking \cup Holding => request[c].user \in Users
    BY DEF RequestsOK, Request
  <2>3. \A r \in txs : r.request.user \in Users
    BY DEF TypeOK, Row, Request
  <2> QED BY <2>1, <2>2, <2>3 DEF TypeOK, RevokesOK
<1>9. WalletsOK'
  BY DEF TypeOK, WalletsOK, WalletBalances, EmptyWallet, RowsOf
<1> QED BY <1>1, <1>2, <1>3, <1>4, <1>5, <1>6, <1>7, <1>8, <1>9

\* The row and the wallet are committed together.
LEMMA SaveWalletKeeps ==
  ASSUME IInv, NEW c \in Calls, SaveWallet(c)
  PROVE  IInv'
<1> DEFINE q == request[c]
           u == request[c].user
           row == [id |-> c, request |-> request[c], amount |-> amount[c]]
<1> USE DEF IInv, SaveWallet, Settle, At
<1>a. /\ q \in Request /\ u \in Users /\ q.price \in Prices /\ q.kind \in Kinds
      /\ walletLock[u] = c /\ entity[c] = wallet[u] /\ account[u] # "gone"
      /\ amount[c] \in Nat \ {0} /\ amount[c] = Payable(q, txs, entity[c])
      /\ entity[c] \in Wallet
  BY PointAssumption
     DEF RequestsOK, LocksOK, AmountsOK, KeysOK, Holding, Request, Amounts, TypeOK
<1>b. row \in Row /\ row.id = c /\ row.request = q /\ row.amount = amount[c]
      /\ txs' = txs \cup {row}
  BY <1>a DEF Row
<1>c. /\ q.kind # "create" => amount[c] <= entity[c].availablePoints
      /\ q.kind = "create" => amount[c] = PRICE_CREATE_POINTS
      /\ q.kind = "delete" => amount[c] <= PRICE_CREATE_POINTS
  BY <1>a, PayableBounds
<1>d. \A d \in Calls \ {c} : pc[d] \in Holding => request[d].user # u
  BY <1>a DEF LocksOK
<1>e. Applied(entity[c], q.kind, amount[c]) \in Wallet
  BY <1>a, <1>c, AppliedType
<1> HIDE DEF q, u, row
<1>1. TypeOK'
  BY <1>a, <1>b, <1>e DEF TypeOK, PCs, Wallet, EmptyWallet, q, u
<1>2. RequestsOK'
  BY DEF TypeOK, RequestsOK, Seeking, Holding
<1>3. LocksOK'
  BY <1>a, <1>d, LedgerAssumption DEF TypeOK, RequestsOK, LocksOK, Holding, Request, q, u
<1>4. AmountsOK'
  <2> SUFFICES ASSUME NEW d \in Calls \ {c}, pc[d] \in {"insert", "update"}
               PROVE  Payable(request[d], txs', entity[d])
                        = Payable(request[d], txs, entity[d])
    BY DEF TypeOK, AmountsOK
  <2>1. DisputedRows(txs', request[d].user, request[d].price)
          = DisputedRows(txs, request[d].user, request[d].price)
    BY <1>b, <1>d DEF Holding, DisputedRows, RowsOf, u, q
  <2> QED BY <2>1, PayableStable
<1>5. OwnersOK'
  BY DEF OwnersOK
<1>6. RowsOK'
  BY <1>a, <1>b, <1>c DEF TypeOK, Row, RowsOK, q, u
<1>7. KeysOK'
  <2>1. ASSUME NEW d \in Calls \ {c}, pc[d] = "update"
        PROVE  ~ SameKey(q, request[d])
    <3>1. request[d].user # u /\ request[d].price \in Prices
      BY <1>d, <2>1 DEF Holding, KeysOK
    <3>2. request[d].price # q.price
      BY <1>a, <3>1, PointAssumption DEF OwnersOK, q, u
    <3>3. q.kind = "disputed" => request[d].verification # q.verification
      BY <2>1 DEF OwnersOK, q
    <3> QED BY <3>2, <3>3 DEF SameKey
  <2>2. \A d \in Calls : pc'[d] = "update" => d # c /\ pc[d] = "update"
    BY DEF TypeOK
  <2>3. \A d \in Calls : pc'[d] = "update" =>
          request[d].price \in Prices /\ \A r \in txs' : ~ SameKey(r.request, request[d])
    BY <1>b, <2>1, <2>2 DEF KeysOK
  <2>4. \A r \in txs : ~ SameKey(r.request, q) /\ ~ SameKey(q, r.request)
    BY DEF KeysOK, SameKey, q
  <2>5. OneRowPerKey'
    BY <1>b, <2>4 DEF KeysOK, OneRowPerKey
  <2> QED BY <2>3, <2>5 DEF KeysOK
<1>8. RevokesOK'
  <2>1. \A x, p : PaidBefore(x, p) => PaidBefore(x, p)'
    BY DEF PaidBefore
  <2>2. q.kind = "delete" => PaidBefore(u, q.price)
    BY <1>a DEF RevokesOK, Holding, q, u
  <2> QED BY <1>a, <1>b, <2>1, <2>2 DEF TypeOK, RevokesOK, Seeking, Holding, q, u
<1>9. WalletsOK'
  <2>1. \A x \in Users : x # u => RowsOf(txs', x, Kinds) = RowsOf(txs, x, Kinds)
    BY <1>b DEF RowsOf, u, q
  <2>2. wallet' = [wallet EXCEPT ![u] = Applied(entity[c], q.kind, amount[c])]
        /\ walletRow' = walletRow \cup {u}
    BY DEF q, u
  <2>3. /\ Applied(entity[c], q.kind, amount[c]).availablePoints >= 0
        /\ Applied(entity[c], q.kind, amount[c]).availablePoints
             = Applied(entity[c], q.kind, amount[c]).lifetimeEarned
                 - Applied(entity[c], q.kind, amount[c]).lifetimeSpent
    BY <1>a, <1>c DEF WalletsOK, WalletBalances, Applied, Wallet
  <2>4. wallet'[u] = Applied(entity[c], q.kind, amount[c])
    BY <1>a, <2>2 DEF TypeOK
  <2>5. \A x \in Users \ {u} : wallet'[x] = wallet[x] /\ (x \in walletRow' <=> x \in walletRow)
    BY <2>2 DEF TypeOK
  <2> QED BY <1>a, <2>1, <2>2, <2>3, <2>4, <2>5 DEF TypeOK, WalletsOK, WalletBalances
<1> QED BY <1>1, <1>2, <1>3, <1>4, <1>5, <1>6, <1>7, <1>8, <1>9

-----------------------------------------------------------------------------
(* The invariant holds, and what follows from it. *)

\* The initial states satisfy the invariant.
LEMMA InitEstablishes == Init => IInv
<1> SUFFICES ASSUME Init PROVE IInv
  OBVIOUS
<1> USE DEF Init
<1>1. TypeOK
  BY LedgerAssumption DEF TypeOK, PCs, Wallet, EmptyWallet
<1>2. RequestsOK /\ LocksOK /\ AmountsOK
  BY LedgerAssumption DEF RequestsOK, LocksOK, AmountsOK, Seeking, Holding
<1>3. OwnersOK
  BY DEF OwnersOK, NoRequest, Q
<1>4. RowsOK /\ KeysOK /\ RevokesOK
  BY DEF RowsOK, KeysOK, OneRowPerKey, RevokesOK, NoRequest, Q
<1>5. WalletsOK
  BY DEF WalletsOK, WalletBalances, EmptyWallet, RowsOf
<1> QED BY <1>1, <1>2, <1>3, <1>4, <1>5 DEF IInv

\* The user of a call that seeks the wallet has an account if it has a wallet.
LEMMA StatementKeeps ==
  ASSUME IInv, NEW c \in Calls, Statement(c)
  PROVE  IInv'
<1> DEFINE u == request[c].user
<1>a. \A x \in Users : x \in walletRow => account[x] # "gone"
  BY DEF IInv, WalletsOK
<1>b. \A x \in Users : x \notin walletRow => wallet[x] = EmptyWallet
  BY DEF IInv, WalletsOK
<1>c. pc[c] \in {"wallet", "open"} => u \in Users
  BY DEF IInv, RequestsOK, Seeking, Request
<1>1. CASE RemovePrice(c)
  BY <1>1, RemovePriceKeeps
<1>2. CASE FindEarned(c)
  BY <1>2, GotoKeeps, SettleKeeps DEF FindEarned, At, Ended
<1>3. CASE FindExisting(c)
  BY <1>3, GotoKeeps, SettleKeeps DEF FindExisting, At, Ended
<1>4. CASE LockWallet(c)
  BY <1>4, <1>a, <1>c, LockKeeps DEF LockWallet, At
<1>5. CASE MissWallet(c)
  BY <1>5, GotoKeeps DEF MissWallet, At
<1>6. CASE InsertWallet(c)
  <2>1. CASE Rollback(c)
    BY <1>6, <2>1, SettleKeeps DEF InsertWallet, Rollback, At, Ended
  <2>2. CASE ~ Rollback(c)
    <3>1. wallet[u] = EmptyWallet /\ account[u] # "gone"
      BY <1>6, <2>2, <1>b, <1>c DEF InsertWallet, ForeignKeyHolds, At
    <3> QED BY <1>6, <2>2, <3>1, LockKeeps DEF InsertWallet, At
  <2> QED BY <2>1, <2>2
<1>7. CASE ComputeAmount(c)
  <2>1. account[u] # "gone" /\ pc[c] = "amount"
    BY <1>7 DEF IInv, LocksOK, Holding, ComputeAmount, At
  <2> QED BY <1>7, <2>1, AmountKeeps, OpenKeeps DEF ComputeAmount
<1>8. CASE InsertRow(c)
  BY <1>8, GotoKeeps, SettleKeeps DEF InsertRow, Rollback, At, Ended
<1>9. CASE SaveWallet(c)
  BY <1>9, SaveWalletKeeps
<1>10. CASE ReadSummary(c)
  BY <1>10, GotoKeeps, SettleKeeps DEF ReadSummary, At, Ended
<1>11. CASE SaveEmptyWallet(c)
  BY <1>11, SettleKeeps, OpenKeeps
     DEF SaveEmptyWallet, Rollback, ForeignKeyHolds, At, Ended
<1> QED
  BY <1>1, <1>2, <1>3, <1>4, <1>5, <1>6, <1>7, <1>8, <1>9, <1>10, <1>11 DEF Statement

\* Every step keeps the invariant.
LEMMA StepKeeps == IInv /\ [Next]_vars => IInv'
<1> SUFFICES ASSUME IInv, [Next]_vars PROVE IInv'
  OBVIOUS
<1>1. ASSUME NEW c \in Calls, Start(c) PROVE IInv'
  BY <1>1, CreatePriceKeeps, LoadPriceKeeps, DisputePriceKeeps, GetSummaryKeeps
     DEF Start
<1>2. ASSUME NEW c \in Calls, Statement(c) PROVE IInv'
  BY <1>2, StatementKeeps
<1>3. ASSUME NEW c \in Calls, Crash(c) PROVE IInv'
  BY <1>3, SettleKeeps DEF Crash, Rollback, Ended
<1>4. ASSUME NEW u \in Users, LockAccount(u) \/ AbortClose(u) PROVE IInv'
  BY <1>4, AccountStateKeeps DEF LockAccount, AbortClose
<1>5. ASSUME NEW u \in Users, CloseAccount(u) PROVE IInv'
  BY <1>5, CloseAccountKeeps
<1>6. ASSUME NEW c \in Calls, NEW u \in Users, DeadlockVictim(c, u) PROVE IInv'
  BY <1>6, <1>4, SettleKeeps DEF DeadlockVictim, Deadlocked, Rollback, Ended
<1>7. CASE UNCHANGED vars
  BY <1>7 DEF vars, IInv, TypeOK, RequestsOK, LocksOK, AmountsOK, OwnersOK, RowsOK,
     KeysOK, OneRowPerKey, RevokesOK, PaidBefore, WalletsOK, WalletBalances
<1> QED
  BY <1>1, <1>2, <1>3, <1>4, <1>5, <1>6, <1>7 DEF Next, Quiet

\* The whole invariant is an invariant.
THEOREM Invariance == Spec => []IInv
BY InitEstablishes, StepKeeps, PTL DEF Spec

\* Every variable keeps its type.
THEOREM TypeCorrect == Spec => []TypeOK
<1>1. IInv => TypeOK
  BY DEF IInv
<1> QED BY <1>1, Invariance, PTL

\* No call overwrites a wallet with an entity another call has outdated.
THEOREM NoUpdateLost == Spec => []NoLostUpdate
<1>1. IInv => NoLostUpdate
  BY DEF IInv, LocksOK, NoLostUpdate
<1> QED BY <1>1, Invariance, PTL

\* However many times a request is made, the ledger holds it once.
THEOREM BookedOnce == Spec => []OneRowPerKey
<1>1. IInv => OneRowPerKey
  BY DEF IInv, KeysOK
<1> QED BY <1>1, Invariance, PTL

\* A deletion takes back only what was paid, and no more.
THEOREM RevokesOnlyPaid == Spec => []RevokeFollowsEarn
<1>1. IInv => RevokeFollowsEarn
  BY PointAssumption DEF IInv, RevokesOK, PaidBefore, RowsOK, RevokeFollowsEarn
<1> QED BY <1>1, Invariance, PTL

\* A closed account keeps neither wallet nor rows.
THEOREM AccountLeavesNothing == Spec => []NothingOutlivesAccount
<1>1. IInv => NothingOutlivesAccount
  BY DEF IInv, WalletsOK, NothingOutlivesAccount
<1> QED BY <1>1, Invariance, PTL

-----------------------------------------------------------------------------
(* A reward that resolved is booked. *)

Booked(c) ==
  \E r \in txs : SameKey(r.request, request[c]) /\ r.amount = PRICE_CREATE_POINTS

\* What has ended stays, and a row stays as long as its account.
LEMMA EndedStays ==
  ASSUME IInv, [Next]_vars
  PROVE  /\ \A c \in Calls : pc[c] \in Ended => pc'[c] = pc[c] /\ request'[c] = request[c]
         /\ \A r \in txs : r \in txs' \/ account'[r.request.user] = "gone"
         /\ \A u \in Users : account[u] = "gone" => account'[u] = "gone"
<1> DEFINE Stays == /\ \A c \in Calls : pc[c] \in Ended => pc'[c] = pc[c] /\ request'[c] = request[c]
                    /\ txs \subseteq txs'
                    /\ \A u \in Users : account[u] = "gone" => account'[u] = "gone"
<1>a. TypeOK
  BY DEF IInv
<1>1. ASSUME NEW c \in Calls, Start(c) PROVE Stays
  BY <1>a, <1>1 DEF Start, CreatePrice, LoadPrice, DisputePrice, GetSummary, Begin, Ended,
     TypeOK, tables
<1>2. ASSUME NEW c \in Calls, Rollback(c), pc[c] \notin Ended PROVE Stays
  BY <1>a, <1>2 DEF Rollback, Settle, TypeOK, tables
<1>3. ASSUME NEW c \in Calls, Statement(c) PROVE Stays
  <2>1. CASE RemovePrice(c) \/ FindEarned(c) \/ FindExisting(c)
    BY <1>a, <2>1 DEF RemovePrice, FindEarned, FindExisting, Settle, Goto, At, Ended, TypeOK, tables
  <2>2. CASE LockWallet(c) \/ MissWallet(c) \/ InsertWallet(c)
    BY <1>a, <1>2, <2>2 DEF LockWallet, MissWallet, InsertWallet, Goto, At, Ended, TypeOK, tables
  <2>3. CASE ComputeAmount(c) \/ InsertRow(c) \/ SaveWallet(c)
    BY <1>a, <1>2, <2>3 DEF ComputeAmount, InsertRow, SaveWallet, Settle, Goto, At, Ended, TypeOK, tables
  <2>4. CASE ReadSummary(c) \/ SaveEmptyWallet(c)
    BY <1>a, <1>2, <2>4 DEF ReadSummary, SaveEmptyWallet, Settle, Goto, At, Ended, TypeOK, tables
  <2> QED
    BY <1>3, <2>1, <2>2, <2>3, <2>4 DEF Statement
<1>4. ASSUME NEW u \in Users, LockAccount(u) \/ AbortClose(u) PROVE Stays
  BY <1>a, <1>4 DEF LockAccount, AbortClose, locals, TypeOK
<1>5. ASSUME NEW u \in Users, CloseAccount(u)
      PROVE  /\ \A c \in Calls : pc'[c] = pc[c] /\ request'[c] = request[c]
             /\ \A r \in txs : r \in txs' \/ account'[r.request.user] = "gone"
             /\ \A x \in Users : account[x] = "gone" => account'[x] = "gone"
  BY <1>a, <1>5 DEF CloseAccount, locals, TypeOK
<1>6. CASE UNCHANGED vars
  BY <1>6 DEF vars
<1>7. ASSUME NEW c \in Calls, Crash(c) PROVE Stays
  BY <1>2, <1>7 DEF Crash
<1>8. ASSUME NEW c \in Calls, NEW u \in Users, DeadlockVictim(c, u) PROVE Stays
  BY <1>2, <1>4, <1>8 DEF DeadlockVictim, Deadlocked, Ended
<1> QED
  BY <1>1, <1>3, <1>4, <1>5, <1>6, <1>7, <1>8 DEF Next, Quiet

\* The last statement of a reward books it, or found it booked.
LEMMA RewardResolves ==
  ASSUME IInv, [Next]_vars, NEW c \in Calls, pc[c] # "resolved", pc'[c] = "resolved",
         request'[c].kind = "create"
  PROVE  Booked(c)' /\ request'[c] = request[c]
<1>a. TypeOK
  BY DEF IInv
<1>1. \A d \in Calls : Start(d) \/ Rollback(d) => pc'[c] # "resolved"
  BY <1>a DEF Start, CreatePrice, LoadPrice, DisputePrice, GetSummary, Begin, Rollback, Settle, TypeOK
<1>2. \A u \in Users : LockAccount(u) \/ AbortClose(u) \/ CloseAccount(u) => pc' = pc
  BY DEF LockAccount, AbortClose, CloseAccount, locals
<1>3. PICK d \in Calls : Statement(d)
  BY <1>1, <1>2 DEF Next, Quiet, vars, Crash, DeadlockVictim
<1>4. d = c
  BY <1>a, <1>3 DEF Statement, RemovePrice, FindEarned, FindExisting, LockWallet, MissWallet,
     InsertWallet, ComputeAmount, InsertRow, SaveWallet, ReadSummary, SaveEmptyWallet,
     Rollback, Settle, Goto, TypeOK
<1>5. CASE SaveWallet(c)
  <2> DEFINE row == [id |-> c, request |-> request[c], amount |-> amount[c]]
  <2>1. /\ request[c] \in Request /\ entity[c] \in Wallet /\ amount[c] \in Nat
        /\ amount[c] = Payable(request[c], txs, entity[c])
    BY <1>5, PointAssumption
       DEF IInv, RequestsOK, AmountsOK, TypeOK, Holding, Amounts, SaveWallet, At
  <2>2. request' = request /\ row \in txs' /\ row.request = request[c] /\ row.amount = amount[c]
    BY <1>5 DEF SaveWallet, Settle
  <2>3. amount[c] = PRICE_CREATE_POINTS
    BY <2>1, <2>2, PayableBounds
  <2> QED
    BY <2>2, <2>3 DEF Booked, SameKey
<1>6. CASE FindExisting(c)
  <2>1. PICK r \in txs : SameKey(r.request, request[c])
    BY <1>a, <1>6 DEF FindExisting, Goto, TypeOK
  <2>2. request' = request /\ txs' = txs
    BY <1>6 DEF FindExisting, Goto, Settle, tables
  <2>3. r.amount = PRICE_CREATE_POINTS
    BY <2>1, <2>2 DEF IInv, RowsOK, SameKey
  <2> QED
    BY <2>1, <2>2, <2>3 DEF Booked
<1>7. CASE ComputeAmount(c)
  <2>1. /\ request[c] \in Request /\ entity[c] \in Wallet
        /\ request' = request /\ pc[c] = "amount"
    BY <1>7 DEF IInv, RequestsOK, TypeOK, Holding, ComputeAmount, Settle, At
  <2>2. Payable(request[c], txs, entity[c]) = PRICE_CREATE_POINTS
    BY <2>1 DEF Payable
  <2> QED
    BY <1>a, <1>7, <2>2, PointAssumption DEF ComputeAmount, TypeOK
<1>8. CASE FindEarned(c) \/ ReadSummary(c) \/ SaveEmptyWallet(c)
  <2>1. request' = request
    BY <1>8 DEF FindEarned, ReadSummary, SaveEmptyWallet, Rollback, Settle, Goto
  <2>2. \A u : SummaryOf(u).kind = "summary"
    BY DEF SummaryOf, Q
  <2>3. request[c].kind # "create"
    BY <1>8, <2>2 DEF IInv, RequestsOK, FindEarned, ReadSummary, SaveEmptyWallet, At
  <2> QED
    BY <2>1, <2>3
<1>9. CASE \/ RemovePrice(c) \/ LockWallet(c) \/ MissWallet(c) \/ InsertWallet(c) \/ InsertRow(c)
  BY <1>a, <1>9 DEF RemovePrice, LockWallet, MissWallet, InsertWallet, InsertRow, Rollback,
     Settle, Goto, TypeOK
<1> QED
  BY <1>3, <1>4, <1>5, <1>6, <1>7, <1>8, <1>9 DEF Statement

LEMMA RewardStep ==
  IInv /\ ResolvedRewardIsBooked /\ [Next]_vars => ResolvedRewardIsBooked'
<1> SUFFICES ASSUME IInv, ResolvedRewardIsBooked, [Next]_vars, NEW c \in Calls,
                    pc'[c] = "resolved", request'[c].kind = "create",
                    account'[request'[c].user] # "gone"
             PROVE  Booked(c)'
  BY DEF ResolvedRewardIsBooked, Booked
<1>1. CASE pc[c] # "resolved"
  BY <1>1, RewardResolves
<1>2. CASE pc[c] = "resolved"
  <2>1. request'[c] = request[c]
    BY <1>2, EndedStays DEF Ended
  <2>2. request[c] \in Request
    BY <2>1 DEF IInv, TypeOK, SummaryOf, NoRequest, Q
  <2>3. account[request[c].user] # "gone"
    BY <2>1, <2>2, EndedStays DEF Request
  <2>4. PICK r \in txs : SameKey(r.request, request[c]) /\ r.amount = PRICE_CREATE_POINTS
    BY <1>2, <2>1, <2>3 DEF ResolvedRewardIsBooked
  <2>5. r.request = request[r.id] /\ r.id \in Calls /\ r.request.price \in Prices
    BY <2>4 DEF IInv, RowsOK, TypeOK, Row
  <2>6. r.request.price = request[c].price
    BY <2>1, <2>4 DEF SameKey
  <2>7. r.request.user = request[c].user
    BY <2>5, <2>6, PointAssumption DEF IInv, OwnersOK
  <2>8. r \in txs'
    BY <2>1, <2>4, <2>7, EndedStays
  <2> QED
    BY <2>1, <2>4, <2>8 DEF Booked
<1> QED
  BY <1>1, <1>2

\* A reward that resolved is in the ledger in full, while the account exists.
THEOREM RewardsBooked == Spec => []ResolvedRewardIsBooked
<1>1. Init => ResolvedRewardIsBooked
  BY DEF Init, ResolvedRewardIsBooked
<1> QED
  BY <1>1, RewardStep, Invariance, PTL DEF Spec

-----------------------------------------------------------------------------
(* The refinement of AtomicLedger. *)

Present == {u \in Users : account[u] # "gone"}

\* The rules AtomicLedger extends are the rules PointLedger extends.
LEMMA SameSum == \A rows : Atomic!AmountSum(rows) = AmountSum(rows)
BY DEF AmountSum, Atomic!AmountSum, SumFunctionOnSet, Atomic!SumFunctionOnSet,
       FoldFunctionOnSet, Atomic!FoldFunctionOnSet, MapThenFoldSet, Atomic!MapThenFoldSet

\* The abstract ledger, once its variables are mapped, follows the same rules.
LEMMA SameRules ==
  /\ Atomic!Request = Request
  /\ Atomic!EmptyWallet = EmptyWallet
  /\ Atomic!Amounts = Amounts
  /\ \A a, b : Atomic!SameKey(a, b) <=> SameKey(a, b)
  /\ \A w, k, a : Atomic!Applied(w, k, a) = Applied(w, k, a)
  /\ \A rows, u, k : Atomic!RowsOf(rows, u, k) = RowsOf(rows, u, k)
  /\ \A q, rows, w : Atomic!Payable(q, rows, w) = Payable(q, rows, w)
<1>1. Atomic!Request = Request /\ Atomic!EmptyWallet = EmptyWallet
      /\ Atomic!Amounts = Amounts
  BY DEF Request, Atomic!Request, Kinds, Atomic!Kinds, EmptyWallet,
     Atomic!EmptyWallet, Amounts, Atomic!Amounts
<1>2. \A a, b : Atomic!SameKey(a, b) <=> SameKey(a, b)
  BY DEF SameKey, Atomic!SameKey
<1>3. \A w, k, a : Atomic!Applied(w, k, a) = Applied(w, k, a)
  BY DEF Applied, Atomic!Applied
<1>4. \A rows, u, k : Atomic!RowsOf(rows, u, k) = RowsOf(rows, u, k)
  BY DEF RowsOf, Atomic!RowsOf
<1>5. \A rows, u, p : Atomic!DisputedRows(rows, u, p) = DisputedRows(rows, u, p)
  BY <1>4 DEF DisputedRows, Atomic!DisputedRows
<1>6. \A rows, u, p : Atomic!RemainingCap(rows, u, p) = RemainingCap(rows, u, p)
  BY <1>5, SameSum DEF RemainingCap, Atomic!RemainingCap
<1>7. \A q, rows, w : Atomic!Payable(q, rows, w) = Payable(q, rows, w)
  BY <1>6 DEF Payable, Atomic!Payable, Least, Atomic!Least
<1> QED BY <1>1, <1>2, <1>3, <1>4, <1>7

\* Initial states map to the initial state of the abstract ledger.
LEMMA RefineInit == Init => Atomic!Init
BY SameRules DEF Init, Atomic!Init

\* A step that leaves the committed ledger alone is a stutter.
LEMMA RefineStutter ==
  ASSUME Present' = Present, UNCHANGED <<walletRow, wallet, txs>>
  PROVE  UNCHANGED Atomic!vars
BY DEF Present, Atomic!vars

\* An inserted wallet without a row is Open.
LEMMA RefineOpen ==
  ASSUME NEW u \in Users, account[u] # "gone",
         walletRow' = walletRow \cup {u},
         UNCHANGED <<account, wallet, txs>>
  PROVE  Atomic!Open(u)
BY DEF Atomic!Open

\* The commit of a row is Post: the amount computed under the lock is still the
\* right one.
LEMMA RefinePost ==
  ASSUME IInv, NEW c \in Calls, SaveWallet(c)
  PROVE  Atomic!Post(c, request[c])
<1> DEFINE q == request[c]
           u == request[c].user
           a == amount[c]
<1>1. /\ q \in Request /\ u \in Users
      /\ entity[c] = wallet[u] /\ account[u] # "gone"
      /\ q.price \in Prices
      /\ a \in Amounts \ {0} /\ a = Payable(q, txs, entity[c])
      /\ \A r \in txs : ~ SameKey(r.request, q)
  BY DEF IInv, RequestsOK, LocksOK, AmountsOK, KeysOK, Holding, Request, SaveWallet, At
<1>2. q.kind = "delete" =>
        \E r \in RowsOf(txs, u, {"create"}) : r.request.price = q.price
  BY <1>1 DEF IInv, RevokesOK, PaidBefore, RowsOf, Holding, SaveWallet, At
<1>3. /\ txs' = txs \cup {[id |-> c, request |-> q, amount |-> a]}
      /\ walletRow' = walletRow \cup {u}
      /\ wallet' = [wallet EXCEPT ![u] = Applied(wallet[u], q.kind, a)]
      /\ UNCHANGED account
  BY <1>1 DEF SaveWallet
<1> HIDE DEF q, u, a
<1>4. a = Payable(q, txs, wallet[u])
  BY <1>1
<1>5. u = q.user
  BY DEF u, q
<1>6. Atomic!Post(c, q)
  BY <1>1, <1>2, <1>3, <1>4, <1>5, SameRules DEF Atomic!Post
<1> QED BY <1>6 DEF q

\* The cascade of an account maps to Close, which takes everything at once.
LEMMA RefineClose ==
  ASSUME IInv, NEW u \in Users, CloseAccount(u)
  PROVE  Atomic!Close(u)
<1>1. Present' = Present \ {u} /\ u \in Present
  BY DEF Present, IInv, TypeOK, CloseAccount
<1> QED BY <1>1, SameRules DEF CloseAccount, Present, Atomic!Close

\* Every step maps to a step of the abstract ledger, or changes nothing of it.
LEMMA RefineStep == IInv /\ [Next]_vars => [Atomic!Next]_(Atomic!vars)
<1> SUFFICES ASSUME IInv, [Next]_vars PROVE [Atomic!Next]_(Atomic!vars)
  OBVIOUS
<1>a. ASSUME UNCHANGED tables PROVE UNCHANGED Atomic!vars
  BY <1>a, RefineStutter DEF tables, Present
<1>1. ASSUME NEW c \in Calls, Start(c) PROVE UNCHANGED Atomic!vars
  BY <1>1, RefineStutter
     DEF Start, CreatePrice, LoadPrice, DisputePrice, GetSummary, tables, Present
<1>2. ASSUME NEW c \in Calls, Statement(c) PROVE [Atomic!Next]_(Atomic!vars)
  <2>1. CASE SaveWallet(c)
    <3>1. request[c] \in Request
      BY <2>1 DEF IInv, RequestsOK, Holding, SaveWallet, At
    <3> QED BY <2>1, <3>1, RefinePost, SameRules DEF Atomic!Next
  <2>2. CASE ComputeAmount(c)
    <3>1. request[c].user \in Users /\ account[request[c].user] # "gone"
      BY <2>2 DEF IInv, RequestsOK, LocksOK, Holding, Request, ComputeAmount, At
    <3>2. UNCHANGED tables \/ Atomic!Open(request[c].user)
      BY <2>2, <3>1, RefineOpen DEF ComputeAmount
    <3> QED BY <1>a, <3>1, <3>2 DEF Atomic!Next
  <2>3. CASE SaveEmptyWallet(c)
    <3>1. request[c].user \in Users
      BY <2>3 DEF IInv, RequestsOK, SaveEmptyWallet, At
    <3>2. UNCHANGED tables \/ Atomic!Open(request[c].user)
      BY <2>3, <3>1, RefineOpen DEF SaveEmptyWallet, Rollback, ForeignKeyHolds
    <3> QED BY <1>a, <3>1, <3>2 DEF Atomic!Next
  <2>4. CASE RemovePrice(c)
    BY <2>4, RefineStutter DEF RemovePrice, Present
  <2>5. CASE \/ FindEarned(c) \/ FindExisting(c) \/ LockWallet(c) \/ MissWallet(c)
             \/ InsertWallet(c) \/ InsertRow(c) \/ ReadSummary(c)
    BY <2>5, <1>a DEF FindEarned, FindExisting, LockWallet, MissWallet, InsertWallet,
       InsertRow, ReadSummary, Rollback, Goto, tables
  <2> QED BY <1>2, <2>1, <2>2, <2>3, <2>4, <2>5 DEF Statement
<1>3. ASSUME NEW c \in Calls, Rollback(c) PROVE UNCHANGED Atomic!vars
  BY <1>3, <1>a DEF Rollback
<1>4. ASSUME NEW u \in Users, LockAccount(u) \/ AbortClose(u)
      PROVE  UNCHANGED Atomic!vars
  <2>1. Present' = Present
    BY <1>4 DEF Present, LockAccount, AbortClose, IInv, TypeOK
  <2> QED BY <1>4, <2>1, RefineStutter DEF LockAccount, AbortClose
<1>5. ASSUME NEW u \in Users, CloseAccount(u) PROVE Atomic!Next
  BY <1>5, RefineClose DEF Atomic!Next
<1>6. CASE UNCHANGED vars
  BY <1>6, <1>a DEF vars, tables
<1> QED
  BY <1>1, <1>2, <1>3, <1>4, <1>5, <1>6 DEF Next, Quiet, Crash, DeadlockVictim

\* Every committed step of the service is one step of the abstract ledger.
THEOREM RefinesAtomicLedger == Spec => ImplementsAtomicLedger
<1>1. Spec => Atomic!Init /\ [][Atomic!Next]_(Atomic!vars)
  BY RefineInit, RefineStep, Invariance, PTL DEF Spec
<1> QED BY <1>1 DEF ImplementsAtomicLedger, Atomic!Spec

-----------------------------------------------------------------------------
(* The invariants that speak of sums. *)

LEMMA AmountOfNone == AmountSum({}) = 0
BY SumOfNone DEF AmountSum

LEMMA AmountType ==
  ASSUME NEW S, IsFiniteSet(S), \A r \in S : r.amount \in Nat
  PROVE  AmountSum(S) \in Nat
<1> DEFINE w == [r \in S |-> r.amount]
<1>1. \A r \in S : w[r] \in Nat
  OBVIOUS
<1> QED
  BY <1>1, SumType DEF AmountSum

\* One more row adds its amount.
LEMMA AmountOfMore ==
  ASSUME NEW S, IsFiniteSet(S), NEW x, x \notin S, \A r \in S \cup {x} : r.amount \in Nat
  PROVE  AmountSum(S \cup {x}) = AmountSum(S) + x.amount
<1> PICK w : w = [r \in S \cup {x} |-> r.amount]
  OBVIOUS
<1> PICK v : v = [r \in S |-> r.amount]
  OBVIOUS
<1>1. w[x] = x.amount /\ \A r \in S \cup {x} : w[r] \in Nat
  OBVIOUS
<1>2. SumFunctionOnSet(w, S \cup {x}) = SumFunctionOnSet(w, S) + w[x]
  BY <1>1, SumOfMore
<1>3. \A r \in S : v[r] = w[r]
  OBVIOUS
<1>4. SumFunctionOnSet(v, S) = SumFunctionOnSet(w, S)
  BY <1>3, SumOfSame
<1> QED
  BY <1>1, <1>2, <1>4 DEF AmountSum

\* What WalletMatchesLedger says of a user.
Spent == {"delete", "disputed"}

SumsOf(u, rows) ==
  [availablePoints |-> AmountSum(RowsOf(rows, u, {"create"})) - AmountSum(RowsOf(rows, u, Spent)),
   lifetimeEarned  |-> AmountSum(RowsOf(rows, u, {"create"})),
   lifetimeSpent   |-> AmountSum(RowsOf(rows, u, Spent))]

SumInv == IInv /\ IsFiniteSet(txs) /\ WalletMatchesLedger /\ DisputeCapHeld

LEMMA MatchesMeansSums == WalletMatchesLedger <=> \A u \in Users : wallet[u] = SumsOf(u, txs)
BY DEF WalletMatchesLedger, SumsOf, Spent

\* A further row changes the sums of the sets it belongs to.
LEMMA OneMoreRow ==
  ASSUME NEW rows, IsFiniteSet(rows), NEW row, row \notin rows,
         \A r \in rows \cup {row} : r.amount \in Nat,
         NEW u, NEW kinds
  PROVE  /\ AmountSum(RowsOf(rows, u, kinds)) \in Nat
         /\ AmountSum(RowsOf(rows \cup {row}, u, kinds)) =
              IF row.request.user = u /\ row.request.kind \in kinds
              THEN AmountSum(RowsOf(rows, u, kinds)) + row.amount
              ELSE AmountSum(RowsOf(rows, u, kinds))
<1> DEFINE old == RowsOf(rows, u, kinds)
<1>1. old \in SUBSET rows /\ IsFiniteSet(old)
  BY FS_Subset DEF RowsOf
<1>2. AmountSum(old) \in Nat
  BY <1>1, AmountType
<1>3. CASE row.request.user = u /\ row.request.kind \in kinds
  <2>1. RowsOf(rows \cup {row}, u, kinds) = old \cup {row}
    BY <1>3 DEF RowsOf
  <2> QED
    BY <1>1, <1>2, <1>3, <2>1, AmountOfMore
<1>4. CASE ~ (row.request.user = u /\ row.request.kind \in kinds)
  <2>1. RowsOf(rows \cup {row}, u, kinds) = old
    BY <1>4 DEF RowsOf
  <2> QED
    BY <1>2, <1>4, <2>1
<1> QED
  BY <1>3, <1>4

\* A penalty was cut to what the cap leaves.
LEMMA PayableWithinCap ==
  ASSUME NEW q \in Request, NEW w \in Wallet, NEW rows, q.kind = "disputed",
         AmountSum(DisputedRows(rows, q.user, q.price)) \in Nat,
         Payable(q, rows, w) \in Nat \ {0}
  PROVE  AmountSum(DisputedRows(rows, q.user, q.price)) + Payable(q, rows, w)
           <= PRICE_DISPUTED_PENALTY_CAP
<1> DEFINE sum == AmountSum(DisputedRows(rows, q.user, q.price))
           rest == RemainingCap(rows, q.user, q.price)
<1>1. rest = IF PRICE_DISPUTED_PENALTY_CAP - sum > 0
             THEN PRICE_DISPUTED_PENALTY_CAP - sum ELSE 0
  BY DEF RemainingCap
<1>2. Payable(q, rows, w) = Least(Least(PRICE_DISPUTED_PENALTY, rest), w.availablePoints)
  BY DEF Payable
<1>3. sum \in Nat /\ Payable(q, rows, w) \in Nat \ {0} /\ w.availablePoints \in Nat
  BY DEF Wallet
<1> HIDE DEF sum, rest
<1> QED
  BY <1>1, <1>2, <1>3, PointAssumption DEF Least, sum

\* The row and the wallet are committed together: the sums and the columns move alike.
LEMMA SaveWalletSums ==
  ASSUME SumInv, NEW c \in Calls, SaveWallet(c)
  PROVE  IsFiniteSet(txs') /\ WalletMatchesLedger' /\ DisputeCapHeld'
<1> DEFINE q == request[c]
           u == request[c].user
           row == [id |-> c, request |-> request[c], amount |-> amount[c]]
<1>1. /\ q \in Request /\ u \in Users /\ q.kind \in Kinds /\ q.price \in Prices
      /\ entity[c] = wallet[u] /\ wallet[u] \in Wallet
      /\ amount[c] \in Nat \ {0} /\ amount[c] = Payable(q, txs, wallet[u])
      /\ pc[c] = "update"
  BY PointAssumption
     DEF SumInv, IInv, RequestsOK, LocksOK, AmountsOK, KeysOK, Holding, Request, Amounts,
         TypeOK, SaveWallet, At
<1>2. /\ txs' = txs \cup {row} /\ wallet' = [wallet EXCEPT ![u] = Applied(wallet[u], q.kind, amount[c])]
      /\ row.request = q /\ row.amount = amount[c] /\ row.id = c
  BY <1>1 DEF SaveWallet
<1>3. row \notin txs
  BY <1>1, <1>2 DEF SumInv, IInv, RowsOK
<1>4. IsFiniteSet(txs) /\ \A r \in txs \cup {row} : r.amount \in Nat
  BY <1>1, <1>2 DEF SumInv, IInv, TypeOK, Row
<1> HIDE DEF q, u, row
<1>5. IsFiniteSet(txs')
  BY <1>2, <1>4, FS_AddElement
<1>6. WalletMatchesLedger'
  <2> SUFFICES ASSUME NEW x \in Users PROVE wallet'[x] = SumsOf(x, txs')
    BY DEF WalletMatchesLedger, SumsOf, Spent
  <2>0. ASSUME NEW kinds
        PROVE  /\ AmountSum(RowsOf(txs, x, kinds)) \in Nat
               /\ AmountSum(RowsOf(txs', x, kinds)) =
                    IF row.request.user = x /\ row.request.kind \in kinds
                    THEN AmountSum(RowsOf(txs, x, kinds)) + row.amount
                    ELSE AmountSum(RowsOf(txs, x, kinds))
    BY <1>2, <1>3, <1>4, OneMoreRow
  <2> DEFINE e == AmountSum(RowsOf(txs, x, {"create"}))
             s == AmountSum(RowsOf(txs, x, Spent))
             e1 == AmountSum(RowsOf(txs', x, {"create"}))
             s1 == AmountSum(RowsOf(txs', x, Spent))
  <2>1. e \in Nat /\ e1 = IF u = x /\ q.kind = "create" THEN e + amount[c] ELSE e
    BY <1>2, <2>0 DEF q, u
  <2>2. s \in Nat /\ s1 = IF u = x /\ q.kind # "create" THEN s + amount[c] ELSE s
    BY <1>1, <1>2, <2>0 DEF q, u, Spent, Kinds
  <2>3. wallet[x] = [availablePoints |-> e - s, lifetimeEarned |-> e, lifetimeSpent |-> s]
    BY MatchesMeansSums DEF SumInv, SumsOf
  <2>4. SumsOf(x, txs') = [availablePoints |-> e1 - s1, lifetimeEarned |-> e1, lifetimeSpent |-> s1]
    BY DEF SumsOf
  <2>5. wallet'[x] = IF x = u THEN Applied(wallet[x], q.kind, amount[c]) ELSE wallet[x]
    BY <1>1, <1>2 DEF SumInv, IInv, TypeOK
  <2> HIDE DEF e, s, e1, s1
  <2>6. CASE x # u
    BY <2>1, <2>2, <2>3, <2>4, <2>5, <2>6
  <2>7. CASE x = u /\ q.kind = "create"
    <3>1. wallet'[x] = [availablePoints |-> (e - s) + amount[c], lifetimeEarned |-> e + amount[c],
                        lifetimeSpent |-> s]
      BY <2>3, <2>5, <2>7 DEF Applied
    <3>2. e1 = e + amount[c] /\ s1 = s /\ e1 - s1 = (e - s) + amount[c]
      BY <1>1, <2>1, <2>2, <2>7
    <3> QED
      BY <2>4, <3>1, <3>2
  <2>8. CASE x = u /\ q.kind # "create"
    <3>1. wallet'[x] = [availablePoints |-> (e - s) - amount[c], lifetimeEarned |-> e,
                        lifetimeSpent |-> s + amount[c]]
      BY <2>3, <2>5, <2>8 DEF Applied
    <3>2. e1 = e /\ s1 = s + amount[c] /\ e1 - s1 = (e - s) - amount[c]
      BY <1>1, <2>1, <2>2, <2>8
    <3> QED
      BY <2>4, <3>1, <3>2
  <2> QED
    BY <2>6, <2>7, <2>8
<1>7. DisputeCapHeld'
  <2> SUFFICES ASSUME NEW x \in Users, NEW p \in Prices
               PROVE  AmountSum(DisputedRows(txs', x, p)) <= PRICE_DISPUTED_PENALTY_CAP
    BY DEF DisputeCapHeld
  <2> DEFINE old == DisputedRows(txs, x, p)
  <2>1. old \in SUBSET txs /\ IsFiniteSet(old) /\ row \notin old
    BY <1>3, <1>4, FS_Subset DEF DisputedRows, RowsOf
  <2>2. AmountSum(old) \in Nat /\ AmountSum(old) <= PRICE_DISPUTED_PENALTY_CAP
    BY <1>4, <2>1, AmountType DEF SumInv, DisputeCapHeld
  <2>3. CASE u = x /\ q.kind = "disputed" /\ q.price = p
    <3>1. DisputedRows(txs', x, p) = old \cup {row}
      BY <1>2, <2>3 DEF DisputedRows, RowsOf, u, q
    <3>2. AmountSum(old \cup {row}) = AmountSum(old) + amount[c]
      BY <1>2, <1>4, <2>1, AmountOfMore
    <3>3. AmountSum(old) + amount[c] <= PRICE_DISPUTED_PENALTY_CAP
      BY <1>1, <2>2, <2>3, PayableWithinCap DEF u, q
    <3> QED
      BY <3>1, <3>2, <3>3
  <2>4. CASE ~ (u = x /\ q.kind = "disputed" /\ q.price = p)
    <3>1. DisputedRows(txs', x, p) = old
      BY <1>2, <2>4 DEF DisputedRows, RowsOf, u, q
    <3> QED
      BY <2>2, <3>1
  <2> QED
    BY <2>3, <2>4
<1> QED
  BY <1>5, <1>6, <1>7

\* The cascade empties the wallet and takes every row.
LEMMA CloseAccountSums ==
  ASSUME SumInv, NEW u \in Users, CloseAccount(u)
  PROVE  IsFiniteSet(txs') /\ WalletMatchesLedger' /\ DisputeCapHeld'
<1>1. /\ txs' = {r \in txs : r.request.user # u}
      /\ wallet' = [wallet EXCEPT ![u] = EmptyWallet]
  BY DEF CloseAccount
<1>2. IsFiniteSet(txs')
  BY <1>1, FS_Subset DEF SumInv
<1>3. ASSUME NEW x \in Users, x # u, NEW kinds PROVE RowsOf(txs', x, kinds) = RowsOf(txs, x, kinds)
  BY <1>1, <1>3 DEF RowsOf
<1>4. \A kinds : RowsOf(txs', u, kinds) = {}
  BY <1>1 DEF RowsOf
<1>5. WalletMatchesLedger'
  <2> SUFFICES ASSUME NEW x \in Users PROVE wallet'[x] = SumsOf(x, txs')
    BY DEF WalletMatchesLedger, SumsOf, Spent
  <2>1. CASE x = u
    <3>1. wallet'[x] = EmptyWallet
      BY <1>1, <2>1 DEF SumInv, IInv, TypeOK
    <3>2. SumsOf(x, txs') = [availablePoints |-> 0 - 0, lifetimeEarned |-> 0, lifetimeSpent |-> 0]
      BY <1>4, <2>1, AmountOfNone DEF SumsOf
    <3> QED
      BY <3>1, <3>2 DEF EmptyWallet
  <2>2. CASE x # u
    <3>1. wallet'[x] = wallet[x] /\ wallet[x] = SumsOf(x, txs)
      BY <1>1, <2>2, MatchesMeansSums DEF SumInv, IInv, TypeOK
    <3> QED
      BY <1>3, <2>2, <3>1 DEF SumsOf
  <2> QED
    BY <2>1, <2>2
<1>6. DisputeCapHeld'
  <2> SUFFICES ASSUME NEW x \in Users, NEW p \in Prices
               PROVE  AmountSum(DisputedRows(txs', x, p)) <= PRICE_DISPUTED_PENALTY_CAP
    BY DEF DisputeCapHeld
  <2>1. CASE x = u
    <3>1. DisputedRows(txs', x, p) = {}
      BY <1>4, <2>1 DEF DisputedRows
    <3> QED
      BY <3>1, AmountOfNone, PointAssumption
  <2>2. CASE x # u
    BY <1>3, <2>2 DEF DisputedRows, SumInv, DisputeCapHeld
  <2> QED
    BY <2>1, <2>2
<1> QED
  BY <1>2, <1>5, <1>6

\* Every other step leaves the ledger and the wallets alone.
LEMMA OtherStepsKeepLedger ==
  ASSUME [Next]_vars, \A c \in Calls : ~ SaveWallet(c), \A u \in Users : ~ CloseAccount(u)
  PROVE  UNCHANGED <<txs, wallet>>
<1>1. ASSUME NEW c \in Calls, Start(c) PROVE UNCHANGED <<txs, wallet>>
  BY <1>1 DEF Start, CreatePrice, LoadPrice, DisputePrice, GetSummary, tables
<1>2. ASSUME NEW c \in Calls, Statement(c) PROVE UNCHANGED <<txs, wallet>>
  BY <1>2 DEF Statement, RemovePrice, FindEarned, FindExisting, LockWallet, MissWallet,
     InsertWallet, ComputeAmount, InsertRow, ReadSummary, SaveEmptyWallet, Rollback, Goto, tables
<1>3. ASSUME NEW c \in Calls, Rollback(c) PROVE UNCHANGED <<txs, wallet>>
  BY <1>3 DEF Rollback, tables
<1>4. ASSUME NEW u \in Users, LockAccount(u) \/ AbortClose(u) PROVE UNCHANGED <<txs, wallet>>
  BY <1>4 DEF LockAccount, AbortClose
<1>5. CASE UNCHANGED vars
  BY <1>5 DEF vars
<1> QED
  BY <1>1, <1>2, <1>3, <1>4, <1>5 DEF Next, Quiet, Crash, DeadlockVictim

LEMMA SumsStep == SumInv /\ [Next]_vars => SumInv'
<1> SUFFICES ASSUME SumInv, [Next]_vars PROVE SumInv'
  OBVIOUS
<1>1. IInv'
  BY StepKeeps DEF SumInv
<1>2. CASE \E c \in Calls : SaveWallet(c)
  BY <1>1, <1>2, SaveWalletSums DEF SumInv
<1>3. CASE \E u \in Users : CloseAccount(u)
  BY <1>1, <1>3, CloseAccountSums DEF SumInv
<1>4. CASE UNCHANGED <<txs, wallet>>
  BY <1>1, <1>4 DEF SumInv, WalletMatchesLedger, DisputeCapHeld
<1> QED
  BY <1>2, <1>3, <1>4, OtherStepsKeepLedger

LEMMA SumsInit == Init => SumInv
<1> SUFFICES ASSUME Init PROVE SumInv
  OBVIOUS
<1>1. txs = {} /\ wallet = [u \in Users |-> EmptyWallet] /\ IsFiniteSet(txs)
  BY FS_EmptySet DEF Init
<1>2. \A u, k : RowsOf(txs, u, k) = {}
  BY <1>1 DEF RowsOf
<1>3. WalletMatchesLedger
  BY <1>1, <1>2, AmountOfNone DEF WalletMatchesLedger, EmptyWallet
<1>4. DisputeCapHeld
  BY <1>2, AmountOfNone, PointAssumption DEF DisputeCapHeld, DisputedRows
<1> QED
  BY <1>1, <1>3, <1>4, InitEstablishes DEF SumInv

LEMMA SumsInvariance == Spec => []SumInv
BY SumsInit, SumsStep, PTL DEF Spec

\* The three columns of a wallet are the sums of its user's rows.
THEOREM WalletIsSum == Spec => []WalletMatchesLedger
<1>1. SumInv => WalletMatchesLedger
  BY DEF SumInv
<1> QED
  BY <1>1, SumsInvariance, PTL

\* All disputes of one price together cost its owner at most the cap.
THEOREM DisputesCapped == Spec => []DisputeCapHeld
<1>1. SumInv => DisputeCapHeld
  BY DEF SumInv
<1> QED
  BY <1>1, SumsInvariance, PTL
=============================================================================
