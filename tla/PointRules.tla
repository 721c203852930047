------------------------------ MODULE PointRules ------------------------------
(***************************************************************************)
(* What a point transaction is worth: the data and the arithmetic of       *)
(* PointService (src/src/point/point.service.ts), free of any state.       *)
(* PointLedger runs these rules step by step inside database transactions, *)
(* AtomicLedger in one step.                                               *)
(***************************************************************************)
EXTENDS Integers, FiniteSets, Functions

CONSTANTS
  Users,                       \* rows of table users
  Prices,                      \* ids of table prices
  Verifications,               \* ids of table price_verifications
  Calls,                       \* calls of PointService and PriceService.remove
  NoPrice, NoVerification,     \* an absent sourceId / verificationId
  PRICE_CREATE_POINTS,
  PRICE_DISPUTED_PENALTY,
  PRICE_DISPUTED_PENALTY_CAP

ASSUME PointAssumption ==
  /\ PRICE_CREATE_POINTS \in Nat \ {0}
  /\ PRICE_DISPUTED_PENALTY \in Nat \ {0}
  /\ PRICE_DISPUTED_PENALTY_CAP \in Nat
  /\ NoPrice \notin Prices
  /\ NoVerification \notin Verifications

\* "create" is an EARN of source price_create, "delete" a REVOKE of source
\* price_delete, "disputed" a DEDUCT of source price_disputed.
Kinds == {"create", "delete", "disputed"}

Request == [kind         : Kinds,
            user         : Users,
            price        : Prices \cup {NoPrice},
            verification : Verifications \cup {NoVerification}]

\* A row of point_transactions; its id is the call that generated its uuid.
Row == [id : Calls, request : Request, amount : Nat \ {0}]

\* Two requests build the same idempotencyKey: price:create:<price>,
\* price:delete:<price> or price:disputed:<verification>.
SameKey(a, b) ==
  /\ a.kind = b.kind
  /\ IF a.kind = "disputed" THEN a.verification = b.verification
                            ELSE a.price = b.price

Wallet == [availablePoints : Nat, lifetimeEarned : Nat, lifetimeSpent : Nat]

EmptyWallet == [availablePoints |-> 0, lifetimeEarned |-> 0, lifetimeSpent |-> 0]

\* The wallet once an amount of the given kind is applied to it.
Applied(w, kind, a) ==
  IF kind = "create"
  THEN [availablePoints |-> w.availablePoints + a,
        lifetimeEarned  |-> w.lifetimeEarned + a,
        lifetimeSpent   |-> w.lifetimeSpent]
  ELSE [availablePoints |-> w.availablePoints - a,
        lifetimeEarned  |-> w.lifetimeEarned,
        lifetimeSpent   |-> w.lifetimeSpent + a]

-----------------------------------------------------------------------------
\* SUM(tx.amount) over a finite set of rows.
AmountSum(rows) == SumFunctionOnSet([r \in rows |-> r.amount], rows)

RowsOf(rows, u, kinds) ==
  {r \in rows : r.request.user = u /\ r.request.kind \in kinds}

\* The rows the dispute query sums: one user's deductions for one price.
DisputedRows(rows, u, p) ==
  {r \in RowsOf(rows, u, {"disputed"}) : r.request.price = p}

Least(a, b) == IF a <= b THEN a ELSE b

\* Faulty variant: earlier penalties are not summed.
RemainingCapOfOneDispute(rows, u, p) == PRICE_DISPUTED_PENALTY_CAP

RemainingCap(rows, u, p) ==
  LET left == PRICE_DISPUTED_PENALTY_CAP - AmountSum(DisputedRows(rows, u, p))
  IN  IF left > 0 THEN left ELSE 0

\* Faulty variant: a reward is cut to the balance as a deduction is.
PayableAlwaysCut(q, rows, w) == Least(w.availablePoints, PRICE_CREATE_POINTS)

\* Faulty variant: a deduction is not cut to the balance.
PayableNeverCut(q, rows, w) ==
  IF q.kind = "disputed" THEN PRICE_DISPUTED_PENALTY ELSE PRICE_CREATE_POINTS

\* The amount a request moves, given the ledger and the user's wallet.
Payable(q, rows, w) ==
  CASE q.kind = "create"   -> PRICE_CREATE_POINTS
    [] q.kind = "delete"   -> Least(w.availablePoints, PRICE_CREATE_POINTS)
    [] q.kind = "disputed" -> Least(Least(PRICE_DISPUTED_PENALTY,
                                          RemainingCap(rows, q.user, q.price)),
                                    w.availablePoints)

\* No amount exceeds this: it bounds the search for Payable, nothing else.
Amounts == 0 .. (PRICE_CREATE_POINTS + PRICE_DISPUTED_PENALTY)

\* Faulty variant: the price is left out of the query.
EarnedRowOfAnyPrice(rows, u, p) == RowsOf(rows, u, {"create"}) # {}

\* A price registration of this user is in the ledger. A missing price id is
\* dropped from the query, which then matches any registration of the user.
EarnedRow(rows, u, p) ==
  \E r \in RowsOf(rows, u, {"create"}) : p \in {r.request.price, NoPrice}
=============================================================================
