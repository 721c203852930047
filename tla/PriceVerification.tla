--------------------------- MODULE PriceVerification ---------------------------
(***************************************************************************)
(* PriceVerificationService.createVerification                             *)
(* (src/src/price-verification/price-verification.service.ts) against the  *)
(* other writers of the same rows: PriceService.create, update and remove, *)
(* and UserService.deleteAccount.                                          *)
(*                                                                         *)
(* A step of a call is one SQL statement, READ COMMITTED.  Inserting a     *)
(* verification shares its price's row and its verifier's row until the    *)
(* transaction ends: neither can be deleted meanwhile.  Counting the vote  *)
(* locks the price's row against every other update.  repository.save of   *)
(* a loaded entity reads the row again, writes the columns in which the    *)
(* two differ, and inserts the entity when the row is gone.                *)
(***************************************************************************)
EXTENDS Integers, FiniteSets

CONSTANTS
  Users,
  Prices,        \* ids of prices that are registered
  Calls,         \* calls of a service; also the id of the rows a call inserts
  NoUser, NoPrice,
  CountOutcomes  \* where the UPDATE that counts a vote leads: "commit" in a schema
                 \* that has the columns its SQL names, "rollback" in one without

ASSUME VerificationAssumption ==
  /\ NoUser \notin Users
  /\ NoPrice \notin Prices \cup Calls
  /\ Prices \cap Calls = {}
  /\ CountOutcomes \subseteq {"commit", "rollback"} /\ CountOutcomes # {}

Results == {"confirmed", "disputed"}

\* A disputed price spawns a price whose id is the call's.
PriceIds == Prices \cup Calls

VARIABLES
  account,     \* users: "live", "closing" (deleteAccount is open), "gone"
  price,       \* committed rows of prices
  held,        \* prices whose row an open deleteAccount has updated
  rows,        \* committed rows of price_verifications
  pc,          \* the next statement of each call
  request,     \* its arguments
  seen,        \* the price entity it loaded
  dirty,       \* edit: the columns in which the entity differs from the row
  jobs,        \* deductions started (deductPriceDisputed)
  overwritten  \* history: prices whose counters an edit has written

vars == <<account, price, held, rows, pc, request, seen, dirty,
          jobs, overwritten>>

Columns == {"user", "verificationCount", "confirmedCount", "disputedCount"}

PriceRow == [state             : {"unused", "listed", "removed"},
             user              : Users \cup {NoUser},
             verificationCount : Nat,
             confirmedCount    : Nat,
             disputedCount     : Nat]

Fresh(state, u) == [state |-> state, user |-> u, verificationCount |-> 0,
                    confirmedCount |-> 0, disputedCount |-> 0]

Verification == [id : Calls, price : PriceIds, verifier : Users,
                 result : Results, newPrice : PriceIds \cup {NoPrice}]

\* The arguments of a call; an edit or a removal has no result.
Request == [user : Users \cup {NoUser}, price : PriceIds \cup {NoPrice},
            result : Results \cup {"none"}]

NoRequest == [user |-> NoUser, price |-> NoPrice, result |-> "none"]

PCs == {"idle", "existing", "insert", "count", "commit", "rollback",
        "committed", "reload", "write", "reinsert", "delete", "ended"}

TypeOK ==
  /\ account \in [Users -> {"live", "closing", "gone"}]
  /\ price \in [PriceIds -> PriceRow]
  /\ held \subseteq PriceIds
  /\ rows \subseteq Verification
  /\ pc \in [Calls -> PCs]
  /\ request \in [Calls -> Request]
  /\ seen \in [Calls -> PriceRow]
  /\ dirty \in [Calls -> SUBSET Columns]
  /\ jobs \subseteq [user : Users, price : PriceIds, verification : Calls]
  /\ overwritten \subseteq PriceIds

Init ==
  /\ account = [u \in Users |-> "live"]
  /\ price = [p \in PriceIds |-> Fresh("unused", NoUser)]
  /\ held = {}
  /\ rows = {}
  /\ pc = [c \in Calls |-> "idle"]
  /\ request = [c \in Calls |-> NoRequest]
  /\ seen = [c \in Calls |-> Fresh("unused", NoUser)]
  /\ dirty = [c \in Calls |-> {}]
  /\ jobs = {}
  /\ overwritten = {}

-----------------------------------------------------------------------------
(* Locks, read off the statements that hold them. *)

\* c has inserted its verification and not committed it.
Inserted(c) == pc[c] \in {"count", "commit", "rollback"}

\* c has updated the counters of p and not committed them.
Counting(c, p) == pc[c] = "commit" /\ request[c].price = p

\* No open transaction has updated the row of p.
Writable(p) == p \notin held /\ \A c \in Calls : ~ Counting(c, p)

At(c, where) == pc[c] = where

Move(c, where) == pc' = [pc EXCEPT ![c] = where]

\* The call ends, with a result or an error. Only the request of a committed
\* verification is remembered.
End(c) ==
  /\ Move(c, "ended")
  /\ request' = IF pc[c] = "committed" THEN request
                ELSE [request EXCEPT ![c] = NoRequest]
  /\ seen' = [seen EXCEPT ![c] = Fresh("unused", NoUser)]
  /\ dirty' = [dirty EXCEPT ![c] = {}]

Reject(c) ==
  /\ End(c)
  /\ UNCHANGED <<account, price, held, rows, jobs, overwritten>>

Goto(c, where) ==
  /\ Move(c, where)
  /\ UNCHANGED <<account, price, held, rows, request, seen, dirty,
                 jobs, overwritten>>

\* A call starts by loading a listed price.
Load(c, where, u, p, r) ==
  /\ pc[c] = "idle"
  /\ account[u] # "gone"
  /\ price[p].state = "listed"
  /\ Move(c, where)
  /\ request' = [request EXCEPT ![c] = [user |-> u, price |-> p, result |-> r]]
  /\ seen' = [seen EXCEPT ![c] = price[p]]
  /\ UNCHANGED <<account, price, held, rows, dirty, jobs, overwritten>>

\* PriceService.create, the save.
CreatePrice(u, p) ==
  /\ account[u] = "live"
  /\ price[p].state = "unused"
  /\ price' = [price EXCEPT ![p] = Fresh("listed", u)]
  /\ UNCHANGED <<account, held, rows, pc, request, seen, dirty,
                 jobs, overwritten>>

-----------------------------------------------------------------------------
(* createVerification *)

\* The price with its owner; owners may not verify.
LoadPrice(c, u, p, r) ==
  /\ price[p].user # u
  /\ Load(c, "existing", u, p, r)

\* A committed verification of this price by this user.
HasVerified(u, p) == \E r \in rows : r.verifier = u /\ r.price = p

\* The verifier still exists, and SELECT ... FOR UPDATE finds no verification of
\* theirs: it then locks nothing. (Two reads in one step: the insert's foreign
\* key looks for the verifier again.)
FindExisting(c) ==
  LET q == request[c] IN
  /\ At(c, "existing")
  /\ IF account[q.user] = "gone" \/ HasVerified(q.user, q.price)
     THEN Reject(c)
     ELSE Goto(c, "insert")

\* Faulty variant: the pair (price, verifier) is not unique.
InsertUnchecked(c) ==
  LET q == request[c] IN
  /\ At(c, "insert")
  /\ IF price[q.price].state # "listed" \/ account[q.user] = "gone"
     THEN Reject(c)
     ELSE Goto(c, "count")

\* Faulty variant: the spawned price is saved outside the transaction.
InsertAndSpawn(c) ==
  LET q == request[c] IN
  /\ At(c, "insert")
  /\ IF \/ HasVerified(q.user, q.price)
        \/ price[q.price].state # "listed"
        \/ account[q.user] = "gone"
     THEN Reject(c)
     ELSE /\ price' = IF q.result = "disputed"
                      THEN [price EXCEPT ![c] = Fresh("listed", q.user)] ELSE price
          /\ Move(c, "count")
          /\ UNCHANGED <<account, held, rows, request, seen, dirty, jobs, overwritten>>

\* INSERT the verification and, for a dispute, the price it spawns. It waits for
\* an uncommitted verification of the same pair; a committed one, a deleted
\* price or a deleted verifier refuses it.
InsertVerification(c) ==
  LET q == request[c] IN
  /\ At(c, "insert")
  /\ \A d \in Calls : Inserted(d) =>
       ~ (request[d].user = q.user /\ request[d].price = q.price)
  /\ IF \/ HasVerified(q.user, q.price)
        \/ price[q.price].state # "listed"
        \/ account[q.user] = "gone"
     THEN Reject(c)
     ELSE Goto(c, "count")

\* UPDATE the counters: verification_count + 1 of the row as it is then. The
\* columns of the entity are verificationCount and so on: where the table has no
\* others PostgreSQL refuses the statement as it parses it, before any lock.
CountVote(c) ==
  /\ At(c, "count")
  /\ \E where \in CountOutcomes :
       /\ where = "commit" => Writable(request[c].price)
       /\ Goto(c, where)

\* The catch: what the transaction inserted is undone, its locks are given up.
Rollback(c) ==
  /\ At(c, "rollback")
  /\ Reject(c)

\* The counters of a row after one more vote.
Voted(row, r) ==
  [row EXCEPT !.verificationCount = @ + 1,
              !.confirmedCount = IF r = "confirmed" THEN @ + 1 ELSE @,
              !.disputedCount  = IF r = "disputed" THEN @ + 1 ELSE @]

\* Faulty variant: the counters are computed from the loaded entity.
CommitLoadedCount(c) ==
  LET q == request[c] IN
  /\ At(c, "commit")
  /\ rows' = rows \cup {[id |-> c, price |-> q.price, verifier |-> q.user,
                         result |-> q.result,
                         newPrice |-> IF q.result = "disputed" THEN c ELSE NoPrice]}
  /\ price' = [price EXCEPT
       ![q.price] = [Voted(seen[c], q.result) EXCEPT !.user = price[q.price].user],
       ![c] = IF q.result = "disputed" THEN Fresh("listed", q.user) ELSE @]
  /\ Move(c, "committed")
  /\ UNCHANGED <<account, held, request, seen, dirty, jobs, overwritten>>

\* Verification, spawned price, link and counters become visible together.
Commit(c) ==
  LET q == request[c] IN
  /\ At(c, "commit")
  /\ rows' = rows \cup {[id |-> c, price |-> q.price, verifier |-> q.user,
                         result |-> q.result,
                         newPrice |-> IF q.result = "disputed" THEN c ELSE NoPrice]}
  /\ price' = [price EXCEPT
       ![q.price] = Voted(@, q.result),
       ![c] = IF q.result = "disputed" THEN Fresh("listed", q.user) ELSE @]
  /\ Move(c, "committed")
  /\ UNCHANGED <<account, held, request, seen, dirty, jobs, overwritten>>

\* Faulty variant: the owner may be missing.
DeductionOfAnyone(c) ==
  LET q == request[c] IN
  IF q.result = "disputed"
  THEN {[user |-> seen[c].user, price |-> q.price, verification |-> c]}
  ELSE {}

\* deductPriceDisputed, from the owner as loaded; an anonymous price has none.
Deduction(c) ==
  LET q == request[c] IN
  IF q.result = "disputed" /\ seen[c].user # NoUser
  THEN {[user |-> seen[c].user, price |-> q.price, verification |-> c]}
  ELSE {}

\* Faulty variant: the deduction may be started before the commit.
StartJobsEarly(c) ==
  /\ pc[c] \in {"commit", "committed"}
  /\ jobs' = jobs \cup Deduction(c)
  /\ IF At(c, "committed") THEN End(c) ELSE UNCHANGED <<pc, request, seen, dirty>>
  /\ UNCHANGED <<account, price, held, rows, overwritten>>

\* After the commit, started and not awaited: two notifications, which touch
\* nothing here, and the deduction.
StartJobs(c) ==
  /\ At(c, "committed")
  /\ jobs' = jobs \cup Deduction(c)
  /\ End(c)
  /\ UNCHANGED <<account, price, held, rows, overwritten>>

-----------------------------------------------------------------------------
(* PriceService.update: load, save. *)

EditPrice(c, u, p) ==
  /\ price[p].user = u
  /\ Load(c, "reload", u, p, "none")

\* save, the read: which columns of the entity differ from the row.
Reload(c) ==
  LET p == request[c].price IN
  /\ At(c, "reload")
  /\ IF price[p].state = "listed"
     THEN /\ dirty' = [dirty EXCEPT ![c] = {k \in Columns : seen[c][k] # price[p][k]}]
          /\ Move(c, "write")
     ELSE /\ Move(c, "reinsert")
          /\ UNCHANGED dirty
  /\ UNCHANGED <<account, price, held, rows, request, seen, jobs, overwritten>>

\* save, the UPDATE of the differing columns. A row deleted since is not missed;
\* an owner deleted since is a column that differs, and refuses the update.
WriteEdit(c) ==
  LET p == request[c].price IN
  /\ At(c, "write")
  /\ Writable(p)
  /\ IF \/ price[p].state # "listed"
        \/ "user" \in dirty[c]
     THEN Reject(c)
     ELSE /\ price' = [price EXCEPT ![p] =
                         [k \in DOMAIN @ |-> IF k \in dirty[c] THEN seen[c][k] ELSE @[k]]]
          /\ overwritten' = IF dirty[c] = {} THEN overwritten ELSE overwritten \cup {p}
          /\ End(c)
          /\ UNCHANGED <<account, held, rows, jobs>>

\* save, the INSERT of an entity whose row was gone.
Reinsert(c) ==
  LET p == request[c].price IN
  /\ At(c, "reinsert")
  /\ IF price[p].state = "listed" \/ account[request[c].user] = "gone"
     THEN Reject(c)
     ELSE /\ price' = [price EXCEPT ![p] = seen[c]]
          /\ overwritten' = overwritten \cup {p}
          /\ End(c)
          /\ UNCHANGED <<account, held, rows, jobs>>

-----------------------------------------------------------------------------
(* PriceService.remove: load, delete. *)

RemovePrice(c, u, p) ==
  /\ price[p].user = u
  /\ Load(c, "delete", u, p, "none")

\* DELETE: waits for every transaction that references or updates the row. Its
\* verifications go with it, a verification that spawned it loses its link.
\* (The deduction it starts is PointLedger's.)
DeletePrice(c) ==
  LET p == request[c].price IN
  /\ At(c, "delete")
  /\ Writable(p)
  /\ \A d \in Calls : ~ (Inserted(d) /\ request[d].price = p)
  /\ price' = [price EXCEPT ![p] = Fresh("removed", NoUser)]
  /\ rows' = {IF r.newPrice = p THEN [r EXCEPT !.newPrice = NoPrice] ELSE r :
                r \in {s \in rows : s.price # p}}
  /\ End(c)
  /\ UNCHANGED <<account, held, jobs, overwritten>>

-----------------------------------------------------------------------------
(* UserService.deleteAccount, one transaction. *)

\* UPDATE prices SET user = NULL: the rows stay locked.
Anonymise(u) ==
  /\ account[u] = "live"
  /\ \A p \in PriceIds : price[p].user = u => Writable(p)
  /\ account' = [account EXCEPT ![u] = "closing"]
  /\ held' = held \cup {p \in PriceIds : price[p].user = u}
  /\ UNCHANGED <<price, rows, pc, request, seen, dirty, jobs, overwritten>>

Owned(u) == {p \in PriceIds : price[p].user = u}

\* DELETE the user: waits for every uncommitted row that references it. Its
\* verifications go, prices it came to own meanwhile lose their owner.
CloseAccount(u) ==
  /\ account[u] = "closing"
  /\ \A c \in Calls : ~ (Inserted(c) /\ request[c].user = u)
  /\ \A p \in Owned(u) \ held : Writable(p)
  /\ account' = [account EXCEPT ![u] = "gone"]
  /\ price' = [p \in PriceIds |-> IF p \in Owned(u) THEN [price[p] EXCEPT !.user = NoUser]
                                                    ELSE price[p]]
  /\ held' = held \ Owned(u)
  /\ rows' = {r \in rows : r.verifier # u}
  /\ UNCHANGED <<pc, request, seen, dirty, jobs, overwritten>>

\* Faulty variant: a failed deletion leaves its transaction open.
AbortWithoutRollback(u) ==
  /\ account[u] = "closing"
  /\ account' = [account EXCEPT ![u] = "live"]
  /\ UNCHANGED <<price, held, rows, pc, request, seen, dirty, jobs, overwritten>>

\* The deletion fails or its process dies, and is rolled back.
AbortClose(u) ==
  /\ account[u] = "closing"
  /\ account' = [account EXCEPT ![u] = "live"]
  /\ held' = held \ Owned(u)
  /\ UNCHANGED <<price, rows, pc, request, seen, dirty, jobs, overwritten>>

\* The process dies: an open transaction is rolled back, a job not yet started
\* never is.
Crash(c) ==
  /\ pc[c] \notin {"idle", "ended"}
  /\ Reject(c)

\* Deletions that wait for each other through verifiers that wait to count.
Deadlocked(S) ==
  /\ S # {}
  /\ \A u \in S :
       /\ account[u] = "closing"
       /\ \E c \in Calls : /\ pc[c] = "count"
                           /\ request[c].user = u
                           /\ request[c].price \in held
                           /\ price[request[c].price].user \in S

DeadlockVictim(u) ==
  /\ \E S \in SUBSET Users : u \in S /\ Deadlocked(S)
  /\ AbortClose(u)

-----------------------------------------------------------------------------
Quiet ==
  /\ \A c \in Calls : pc[c] \in {"idle", "ended"}
  /\ UNCHANGED vars

Statement(c) ==
  \/ FindExisting(c) \/ InsertVerification(c) \/ CountVote(c)
  \/ Rollback(c) \/ Commit(c) \/ StartJobs(c)
  \/ Reload(c) \/ WriteEdit(c) \/ Reinsert(c) \/ DeletePrice(c)

Start(c) ==
  \E u \in Users, p \in PriceIds :
    \/ \E r \in Results : LoadPrice(c, u, p, r)
    \/ EditPrice(c, u, p)
    \/ RemovePrice(c, u, p)

Next ==
  \/ \E u \in Users, p \in Prices : CreatePrice(u, p)
  \/ \E c \in Calls : Start(c) \/ Statement(c) \/ Crash(c)
  \/ \E u \in Users : Anonymise(u) \/ CloseAccount(u) \/ AbortClose(u)
                      \/ DeadlockVictim(u)
  \/ Quiet

Spec == Init /\ [][Next]_vars

\* A statement that PostgreSQL can run again and again runs, a deadlock is
\* always broken. Nobody has to start, and nothing has to crash.
FairSpec ==
  /\ Spec
  /\ \A c \in Calls : SF_vars(Statement(c))
  /\ \A u \in Users : SF_vars(CloseAccount(u)) /\ WF_vars(DeadlockVictim(u))

-----------------------------------------------------------------------------
(* Safety *)

\* A user has at most one verification of a price, although the SELECT FOR
\* UPDATE of two concurrent calls finds, and locks, nothing.
OneVerificationPerUser ==
  \A r, s \in rows : r.price = s.price /\ r.verifier = s.verifier => r = s

Votes(p, results) == Cardinality({r \in rows : r.price = p /\ r.result \in results})

\* Unless an edit wrote them, the counters of a listed price cover its committed
\* verifications, whatever ran at once; they exceed them only by the votes of
\* accounts that are gone.
CountersCoverVotes ==
  \A p \in PriceIds \ overwritten : price[p].state = "listed" =>
    /\ price[p].verificationCount = price[p].confirmedCount + price[p].disputedCount
    /\ price[p].confirmedCount >= Votes(p, {"confirmed"})
    /\ price[p].disputedCount >= Votes(p, {"disputed"})
    /\ (\A u \in Users : account[u] # "gone")
         => price[p].verificationCount = Votes(p, Results)

\* A dispute is whole: the price it spawned is there exactly when the dispute
\* is, unless one of them was deleted later.
DisputeIsWhole ==
  /\ \A r \in rows : r.result = "disputed" =>
       \/ r.newPrice = r.id /\ price[r.id].state = "listed"
       \/ r.newPrice = NoPrice /\ price[r.id].state = "removed"
       \/ r.newPrice = NoPrice /\ r.id \in overwritten
  /\ \A c \in Calls : price[c].state = "listed" =>
       \/ \E r \in rows : r.id = c /\ r.result = "disputed"
       \/ account[request[c].user] = "gone"
       \/ price[request[c].price].state = "removed"
       \/ request[c].price \in overwritten

\* Every deduction started stands on a committed dispute of that very price by
\* somebody else, which only a deletion can have removed since.
DeductionHasDispute ==
  \A j \in jobs :
    LET q == request[j.verification] IN
    /\ q.result = "disputed" /\ q.price = j.price /\ q.user # j.user
    /\ \/ \E r \in rows : r.id = j.verification
       \/ account[q.user] = "gone"
       \/ price[q.price].state = "removed"
       \/ q.price \in overwritten

(* Liveness *)

\* No call waits forever: not for another verification of the pair, a counter,
\* a deletion, or a cycle of deletions.
CallsEnd == \A c \in Calls : (pc[c] # "idle") ~> (pc[c] = "ended")
=============================================================================
