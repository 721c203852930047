----------------------------- MODULE AtomicLedger -----------------------------
(***************************************************************************)
(* What the point system promises: every accepted request moves its amount *)
(* in one indivisible step, against the wallet and the ledger of that      *)
(* moment, at most once per idempotency key and only for an existing user. *)
(***************************************************************************)
EXTENDS PointRules

VARIABLES
  present,     \* users that have a row in users
  walletRow,   \* users that have a row in point_wallets
  wallet,      \* its columns (EmptyWallet where there is no row)
  txs          \* rows of point_transactions

vars == <<present, walletRow, wallet, txs>>

Init ==
  /\ present = Users
  /\ walletRow = {}
  /\ wallet = [u \in Users |-> EmptyWallet]
  /\ txs = {}

\* A wallet appears, empty.
Open(u) ==
  /\ u \in present
  /\ walletRow' = walletRow \cup {u}
  /\ UNCHANGED <<present, wallet, txs>>

\* A request is booked: its row and the wallet change together.
Post(id, q) ==
  /\ q.user \in present
  /\ \A r \in txs : ~ SameKey(r.request, q)
  /\ q.kind = "delete" => \E r \in RowsOf(txs, q.user, {"create"}) :
                            r.request.price = q.price
  /\ \E a \in Amounts \ {0} :
       /\ a = Payable(q, txs, wallet[q.user])
       /\ txs' = txs \cup {[id |-> id, request |-> q, amount |-> a]}
       /\ wallet' = [wallet EXCEPT ![q.user] = Applied(@, q.kind, a)]
  /\ walletRow' = walletRow \cup {q.user}
  /\ UNCHANGED present

\* An account goes, and with it its wallet and its rows (ON DELETE CASCADE).
Close(u) ==
  /\ u \in present
  /\ present' = present \ {u}
  /\ walletRow' = walletRow \ {u}
  /\ wallet' = [wallet EXCEPT ![u] = EmptyWallet]
  /\ txs' = {r \in txs : r.request.user # u}

Next ==
  \/ \E u \in Users : Open(u) \/ Close(u)
  \/ \E id \in Calls, q \in Request : Post(id, q)

Spec == Init /\ [][Next]_vars
=============================================================================
