------------------------------ MODULE PointLedger ------------------------------
(***************************************************************************)
(* PointService (src/src/point/point.service.ts) over PostgreSQL, with the *)
(* requests that start its work: PriceService.create and remove,           *)
(* PriceVerificationService.createVerification, UserService.deleteAccount  *)
(* and GET /points/me.                                                     *)
(*                                                                         *)
(* Point work is fire-and-forget: nobody awaits it, so any number of calls *)
(* run at once, in any of the cluster's processes.  One step of a call is  *)
(* one SQL statement, READ COMMITTED.  SELECT ... FOR UPDATE locks the row *)
(* it finds and locks nothing when it finds none; an uncommitted row is    *)
(* invisible to reads but blocks an insert of the same unique key; an      *)
(* insert that references a user shares that user's row, which the         *)
(* deletion of the account needs for itself.                               *)
(***************************************************************************)
EXTENDS PointRules

CONSTANTS
  NoUser, NoCall,
  RemoveKeepsId   \* whether repository.remove(price) leaves price.id set

ASSUME LedgerAssumption ==
  /\ NoUser \notin Users
  /\ NoCall \notin Calls
  /\ RemoveKeepsId \in BOOLEAN

VARIABLES
  account,     \* users: "live", "closing" (row locked by its DELETE), "gone"
  priceState,  \* prices: "unused", "listed", "removed"
  priceUser,   \* prices.user_id
  walletRow,   \* committed: users with a row in point_wallets
  wallet,      \* committed: its columns
  txs,         \* committed: rows of point_transactions
  walletLock,  \* the call that locked, or inserted, a user's wallet row
  pc,          \* the next statement of each call
  request,     \* its arguments
  entity,      \* the wallet entity it loaded
  amount       \* the amount it computed

tables == <<account, priceState, priceUser, walletRow, wallet, txs>>
locals == <<walletLock, pc, request, entity, amount>>
vars == <<account, priceState, priceUser, walletRow, wallet, txs,
          walletLock, pc, request, entity, amount>>

PCs == {"idle", "loaded", "earned", "existing", "wallet", "open", "amount",
        "insert", "update", "summary", "saveEmpty", "resolved", "rejected"}

Ended == {"resolved", "rejected"}      \* the promise settled
Holding == {"amount", "insert", "update"}  \* the wallet row is locked

Q(k, u, p, v) == [kind |-> k, user |-> u, price |-> p, verification |-> v]

SummaryOf(u) == Q("summary", u, NoPrice, NoVerification)
NoRequest == Q("none", NoUser, NoPrice, NoVerification)

TypeOK ==
  /\ account \in [Users -> {"live", "closing", "gone"}]
  /\ priceState \in [Prices -> {"unused", "listed", "removed"}]
  /\ priceUser \in [Prices -> Users \cup {NoUser}]
  /\ walletRow \subseteq Users
  /\ wallet \in [Users -> Wallet]
  /\ txs \subseteq Row
  /\ walletLock \in [Users -> Calls \cup {NoCall}]
  /\ pc \in [Calls -> PCs]
  /\ request \in [Calls -> Request \cup {SummaryOf(u) : u \in Users} \cup {NoRequest}]
  /\ entity \in [Calls -> Wallet]
  /\ amount \in [Calls -> Nat]

Init ==
  /\ account = [u \in Users |-> "live"]
  /\ priceState = [p \in Prices |-> "unused"]
  /\ priceUser = [p \in Prices |-> NoUser]
  /\ walletRow = {}
  /\ wallet = [u \in Users |-> EmptyWallet]
  /\ txs = {}
  /\ walletLock = [u \in Users |-> NoCall]
  /\ pc = [c \in Calls |-> "idle"]
  /\ request = [c \in Calls |-> NoRequest]
  /\ entity = [c \in Calls |-> EmptyWallet]
  /\ amount = [c \in Calls |-> 0]

-----------------------------------------------------------------------------
(* The requests that start a call. *)

Begin(c, where, q) ==
  /\ pc[c] = "idle"
  /\ pc' = [pc EXCEPT ![c] = where]
  /\ request' = [request EXCEPT ![c] = q]
  /\ UNCHANGED <<walletLock, entity, amount>>

\* PriceService.create: the price is saved, then the reward is started.
CreatePrice(c, u, p) ==
  /\ account[u] = "live"
  /\ priceState[p] = "unused"
  /\ priceState' = [priceState EXCEPT ![p] = "listed"]
  /\ priceUser' = [priceUser EXCEPT ![p] = u]
  /\ Begin(c, "existing", Q("create", u, p, NoVerification))
  /\ UNCHANGED <<account, walletRow, wallet, txs>>

\* PriceService.remove, the read: the requester owns the listed price.
LoadPrice(c, u, p) ==
  /\ priceState[p] = "listed"
  /\ priceUser[p] = u
  /\ Begin(c, "loaded", Q("delete", u, p, NoVerification))
  /\ UNCHANGED tables

\* PriceService.remove, the delete, and the deduction it starts. Of two
\* concurrent requests the second deletes no row and still deducts. A closing
\* account holds the row lock of its prices, so the delete waits.
RemovePrice(c) ==
  LET q == request[c] IN
  /\ pc[c] = "loaded"
  /\ account[q.user] # "closing"
  /\ priceState' = [priceState EXCEPT ![q.price] = "removed"]
  /\ pc' = [pc EXCEPT ![c] = "earned"]
  /\ request' = [request EXCEPT ![c].price =
                   IF RemoveKeepsId THEN q.price ELSE NoPrice]
  /\ UNCHANGED <<account, priceUser, walletRow, wallet, txs,
                 walletLock, entity, amount>>

\* createVerification committed a dispute of a price that still has an owner.
DisputePrice(c, p, v) ==
  /\ priceState[p] = "listed"
  /\ priceUser[p] # NoUser
  /\ \A d \in Calls : request[d].verification # v
  /\ Begin(c, "existing", Q("disputed", priceUser[p], p, v))
  /\ UNCHANGED tables

\* GET /points/me.
GetSummary(c, u) ==
  /\ account[u] = "live"
  /\ Begin(c, "summary", SummaryOf(u))
  /\ UNCHANGED tables

-----------------------------------------------------------------------------
(* How a call ends: its transaction commits or rolls back and the wallet   *)
(* row it locked is free again.                                            *)

\* Faulty variant: the lock outlives the transaction.
SettleWithoutRelease(c, how) ==
  /\ pc' = [pc EXCEPT ![c] = how]
  /\ UNCHANGED <<walletLock, request, entity, amount>>

Settle(c, how) ==
  /\ pc' = [pc EXCEPT ![c] = how]
  /\ walletLock' = [u \in Users |-> IF walletLock[u] = c THEN NoCall
                                                         ELSE walletLock[u]]
  /\ entity' = [entity EXCEPT ![c] = EmptyWallet]
  /\ amount' = [amount EXCEPT ![c] = 0]
  /\ UNCHANGED request

Rollback(c) == Settle(c, "rejected") /\ UNCHANGED tables

At(c, where) == pc[c] = where

Goto(c, where) ==
  /\ pc' = [pc EXCEPT ![c] = where]
  /\ UNCHANGED <<tables, walletLock, request, entity, amount>>

\* Faulty variant: no foreign key to users.
ForeignKeyUnchecked(u) == TRUE

\* The insert's reference to the user is good, now. While the account is closing
\* it is neither good nor bad: the insert waits.
ForeignKeyHolds(u) == account[u] = "live"

\* c inserted the wallet row it holds and has not committed it.
Inserted(c) == request[c].user \notin walletRow

-----------------------------------------------------------------------------
(* The statements of a call. *)

\* deductPriceDelete: was the registration ever paid? Outside any transaction.
FindEarned(c) ==
  /\ At(c, "earned")
  /\ IF EarnedRow(txs, request[c].user, request[c].price)
     THEN Goto(c, "existing")
     ELSE Settle(c, "resolved") /\ UNCHANGED tables

\* SELECT by idempotencyKey FOR UPDATE; a row found ends the call.
FindExisting(c) ==
  /\ At(c, "existing")
  /\ IF \E r \in txs : SameKey(r.request, request[c])
     THEN Settle(c, "resolved") /\ UNCHANGED tables
     ELSE Goto(c, "wallet")

\* Faulty variant: the wallet is read without a lock.
ReadWalletOnly(c) ==
  /\ At(c, "wallet")
  /\ request[c].user \in walletRow
  /\ entity' = [entity EXCEPT ![c] = wallet[request[c].user]]
  /\ pc' = [pc EXCEPT ![c] = "amount"]
  /\ UNCHANGED <<tables, walletLock, request, amount>>

\* SELECT the wallet FOR UPDATE: waits for its lock, then reads the row.
LockWallet(c) ==
  LET u == request[c].user IN
  /\ At(c, "wallet")
  /\ u \in walletRow
  /\ walletLock[u] = NoCall
  /\ walletLock' = [walletLock EXCEPT ![u] = c]
  /\ entity' = [entity EXCEPT ![c] = wallet[u]]
  /\ pc' = [pc EXCEPT ![c] = "amount"]
  /\ UNCHANGED <<tables, request, amount>>

\* ... or finds no committed row, and locks nothing.
MissWallet(c) ==
  /\ At(c, "wallet")
  /\ request[c].user \notin walletRow
  /\ Goto(c, "open")

\* INSERT the missing wallet. It waits for another transaction's uncommitted
\* wallet and for a closing account; a wallet that exists by now violates the
\* unique user_id, an account that is gone violates the foreign key.
InsertWallet(c) ==
  LET u == request[c].user IN
  /\ At(c, "open")
  /\ \/ /\ u \in walletRow
        /\ Rollback(c)
     \/ /\ u \notin walletRow
        /\ walletLock[u] = NoCall
        /\ account[u] = "gone"
        /\ Rollback(c)
     \/ /\ u \notin walletRow
        /\ walletLock[u] = NoCall
        /\ ForeignKeyHolds(u)
        /\ walletLock' = [walletLock EXCEPT ![u] = c]
        /\ entity' = [entity EXCEPT ![c] = EmptyWallet]
        /\ pc' = [pc EXCEPT ![c] = "amount"]
        /\ UNCHANGED <<tables, request, amount>>

\* The amount, with the SUM of earlier penalties for a dispute. Nothing to move:
\* the call returns and commits what it has, a wallet it inserted included.
ComputeAmount(c) ==
  /\ At(c, "amount")
  /\ \E a \in Amounts :
       /\ a = Payable(request[c], txs, entity[c])
       /\ \/ /\ a > 0
             /\ amount' = [amount EXCEPT ![c] = a]
             /\ pc' = [pc EXCEPT ![c] = "insert"]
             /\ UNCHANGED <<tables, walletLock, request, entity>>
          \/ /\ a = 0
             /\ walletRow' = walletRow \cup {request[c].user}
             /\ Settle(c, "resolved")
             /\ UNCHANGED <<account, priceState, priceUser, wallet, txs>>

\* Faulty variant: idempotencyKey is not unique.
RowRefusedForNullOnly(c) == request[c].price = NoPrice

\* The row cannot be inserted: its key exists, or its sourceId is NULL.
RowRefused(c) ==
  \/ \E r \in txs : SameKey(r.request, request[c])
  \/ request[c].price = NoPrice

\* INSERT the transaction row. It waits while the account is closing.
InsertRow(c) ==
  /\ At(c, "insert")
  /\ \/ RowRefused(c) /\ Rollback(c)
     \/ /\ ~ RowRefused(c)
        /\ ForeignKeyHolds(request[c].user)
        /\ Goto(c, "update")

\* UPDATE the wallet from the loaded entity, and COMMIT.
SaveWallet(c) ==
  LET q == request[c] IN
  /\ At(c, "update")
  /\ txs' = txs \cup {[id |-> c, request |-> q, amount |-> amount[c]]}
  /\ walletRow' = walletRow \cup {q.user}
  /\ wallet' = [wallet EXCEPT ![q.user] = Applied(entity[c], q.kind, amount[c])]
  /\ Settle(c, "resolved")
  /\ UNCHANGED <<account, priceState, priceUser>>

\* getOrCreateWallet, the read.
ReadSummary(c) ==
  /\ At(c, "summary")
  /\ IF request[c].user \in walletRow
     THEN Settle(c, "resolved") /\ UNCHANGED tables
     ELSE Goto(c, "saveEmpty")

\* getOrCreateWallet, the insert, in a transaction of its own.
SaveEmptyWallet(c) ==
  LET u == request[c].user IN
  /\ At(c, "saveEmpty")
  /\ \/ /\ u \in walletRow
        /\ Rollback(c)
     \/ /\ u \notin walletRow
        /\ walletLock[u] = NoCall
        /\ account[u] = "gone"
        /\ Rollback(c)
     \/ /\ u \notin walletRow
        /\ walletLock[u] = NoCall
        /\ ForeignKeyHolds(u)
        /\ walletRow' = walletRow \cup {u}
        /\ Settle(c, "resolved")
        /\ UNCHANGED <<account, priceState, priceUser, wallet, txs>>

\* The process or its connection dies, and the transaction with it.
Crash(c) ==
  /\ pc[c] \notin Ended \cup {"idle"}
  /\ Rollback(c)

-----------------------------------------------------------------------------
(* UserService.deleteAccount. *)

\* An uncommitted insert of c references the user's row.
SharesUser(c, u) ==
  /\ walletLock[u] = c
  /\ Inserted(c) \/ pc[c] = "update"

\* The prices are made anonymous and DELETE FROM users locks the user's row.
LockAccount(u) ==
  /\ account[u] = "live"
  /\ \A c \in Calls : ~ SharesUser(c, u)
  /\ account' = [account EXCEPT ![u] = "closing"]
  /\ UNCHANGED <<priceState, priceUser, walletRow, wallet, txs, locals>>

\* The cascade needs the wallet row, removes it and the rows, and commits.
CloseAccount(u) ==
  /\ account[u] = "closing"
  /\ walletLock[u] = NoCall
  /\ account' = [account EXCEPT ![u] = "gone"]
  /\ priceUser' = [p \in Prices |-> IF priceUser[p] = u THEN NoUser
                                                        ELSE priceUser[p]]
  /\ walletRow' = walletRow \ {u}
  /\ wallet' = [wallet EXCEPT ![u] = EmptyWallet]
  /\ txs' = {r \in txs : r.request.user # u}
  /\ UNCHANGED <<priceState, locals>>

AbortClose(u) ==
  /\ account[u] = "closing"
  /\ account' = [account EXCEPT ![u] = "live"]
  /\ UNCHANGED <<priceState, priceUser, walletRow, wallet, txs, locals>>

\* c holds the wallet the cascade waits for and waits for the user's row.
Deadlocked(c, u) ==
  /\ account[u] = "closing"
  /\ walletLock[u] = c
  /\ pc[c] = "insert"
  /\ ~ RowRefused(c)

\* PostgreSQL breaks the cycle: either side may be the victim.
DeadlockVictim(c, u) ==
  /\ Deadlocked(c, u)
  /\ Rollback(c) \/ AbortClose(u)

-----------------------------------------------------------------------------
Quiet ==
  /\ \A c \in Calls : pc[c] \in Ended \cup {"idle"}
  /\ UNCHANGED vars

Statement(c) ==
  \/ RemovePrice(c) \/ FindEarned(c) \/ FindExisting(c) \/ LockWallet(c)
  \/ MissWallet(c) \/ InsertWallet(c) \/ ComputeAmount(c) \/ InsertRow(c)
  \/ SaveWallet(c) \/ ReadSummary(c) \/ SaveEmptyWallet(c)

Start(c) ==
  \/ \E u \in Users, p \in Prices : CreatePrice(c, u, p) \/ LoadPrice(c, u, p)
  \/ \E p \in Prices, v \in Verifications : DisputePrice(c, p, v)
  \/ \E u \in Users : GetSummary(c, u)

Next ==
  \/ \E c \in Calls : Start(c) \/ Statement(c) \/ Crash(c)
  \/ \E u \in Users : LockAccount(u) \/ CloseAccount(u) \/ AbortClose(u)
  \/ \E c \in Calls, u \in Users : DeadlockVictim(c, u)
  \/ Quiet

Spec == Init /\ [][Next]_vars

\* PostgreSQL queues lock requests, so a statement that can run again and again
\* does run; the deadlock detector always fires. Users and crashes owe nothing.
FairSpec ==
  /\ Spec
  /\ \A c \in Calls : SF_vars(Statement(c))
  /\ \A u \in Users : WF_vars(CloseAccount(u))
  /\ \A c \in Calls, u \in Users : WF_vars(DeadlockVictim(c, u))

-----------------------------------------------------------------------------
(* Safety *)

\* A call that will overwrite the wallet holds its lock, and the entity it
\* loaded is still what the table holds: no other call's update can be lost.
NoLostUpdate ==
  \A c \in Calls : pc[c] \in Holding =>
    /\ walletLock[request[c].user] = c
    /\ entity[c] = wallet[request[c].user]

\* The wallet never drifts from the ledger: its three columns are the sums of
\* the user's rows, whatever calls interleaved, crashed or were refused.
WalletMatchesLedger ==
  \A u \in Users :
    LET earned == AmountSum(RowsOf(txs, u, {"create"}))
        spent  == AmountSum(RowsOf(txs, u, {"delete", "disputed"}))
    IN  wallet[u] = [availablePoints |-> earned - spent,
                     lifetimeEarned  |-> earned,
                     lifetimeSpent   |-> spent]

\* One request is booked once, however often and however concurrently it is
\* made (two DELETE /prices/:id both reach the deduction).
OneRowPerKey ==
  \A r, s \in txs : SameKey(r.request, s.request) => r = s

\* All disputes of one price together cost its owner at most the cap.
DisputeCapHeld ==
  \A u \in Users, p \in Prices :
    AmountSum(DisputedRows(txs, u, p)) <= PRICE_DISPUTED_PENALTY_CAP

\* A deletion takes back a reward that was paid for that very price, to the
\* same user, and never more than it.
RevokeFollowsEarn ==
  \A r \in txs : r.request.kind = "delete" =>
    \E e \in txs : /\ e.request.kind = "create"
                   /\ e.request.user = r.request.user
                   /\ e.request.price = r.request.price
                   /\ r.amount <= e.amount

\* A reward whose promise resolved is in the ledger in full while the account
\* exists: an early return never swallows it.
ResolvedRewardIsBooked ==
  \A c \in Calls :
    /\ pc[c] = "resolved"
    /\ request[c].kind = "create"
    /\ account[request[c].user] # "gone"
    => \E r \in txs : /\ SameKey(r.request, request[c])
                      /\ r.amount = PRICE_CREATE_POINTS

\* The cascade leaves nothing behind: no call slips a wallet or a row in after
\* the account is gone.
NothingOutlivesAccount ==
  \A u \in Users : account[u] = "gone" =>
    u \notin walletRow /\ RowsOf(txs, u, Kinds) = {}

\* Step by step, over locks and rollbacks, the service does what AtomicLedger
\* does in one step: every amount is right for the moment it is committed.
Atomic == INSTANCE AtomicLedger
            WITH present <- {u \in Users : account[u] # "gone"}
ImplementsAtomicLedger == Atomic!Spec

(* Liveness *)

\* No call waits forever, on a wallet lock, on a closing account or on a cycle
\* of both.
CallsSettle == \A c \in Calls : (pc[c] # "idle") ~> (pc[c] \in Ended)

\* Nor does the deletion of an account.
ClosingEnds == \A u \in Users : (account[u] = "closing") ~> (account[u] # "closing")

=============================================================================
