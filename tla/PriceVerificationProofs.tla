------------------------ MODULE PriceVerificationProofs ------------------------
(***************************************************************************)
(* The safety of PriceVerification for every set of users, prices and      *)
(* calls.                                                                  *)
(*                                                                         *)
(* The unique pair and the locks of the foreign keys order the calls: a    *)
(* call that has inserted its verification is the only one of its pair,    *)
(* and neither its price nor its verifier can be deleted before it ends.   *)
(* What has been committed is lost only with an account or a price, and    *)
(* what an edit writes over a price is remembered.                         *)
(***************************************************************************)
EXTENDS PriceVerification, FiniteSetTheorems, TLAPS

VerifyPCs == {"existing", "insert", "count", "commit", "rollback", "committed"}
EditPCs == {"reload", "write", "reinsert", "delete"}

\* The call has committed its verification.
Done(where, q) == where = "committed" \/ (where = "ended" /\ q # NoRequest)

\* What a call knows at the statement it has reached.
Carries(where, q, e) ==
  /\ where \in VerifyPCs \cup EditPCs => q.user \in Users /\ q.price \in PriceIds
  /\ where \in VerifyPCs => q.result \in Results /\ e.user # q.user
  /\ where \in EditPCs => e.state = "listed"
  /\ where = "idle" => q = NoRequest
  /\ Done(where, q) => q.user \in Users /\ q.price \in PriceIds /\ q.result \in Results

TablesTyped ==
  /\ account \in [Users -> {"live", "closing", "gone"}]
  /\ price \in [PriceIds -> PriceRow]
  /\ held \subseteq PriceIds
  /\ rows \subseteq Verification
  /\ jobs \subseteq [user : Users, price : PriceIds, verification : Calls]
  /\ overwritten \subseteq PriceIds

LocalsTyped ==
  /\ pc \in [Calls -> PCs]
  /\ request \in [Calls -> Request]
  /\ seen \in [Calls -> PriceRow]
  /\ dirty \in [Calls -> SUBSET Columns]

CallsOK == \A c \in Calls : Carries(pc[c], request[c], seen[c])

Typed == TablesTyped /\ LocalsTyped /\ CallsOK

LEMMA TypedMeansTypeOK == Typed => TypeOK
BY DEF Typed, TablesTyped, LocalsTyped, TypeOK

-----------------------------------------------------------------------------
(* Rows. *)

LEMMA FreshRow ==
  ASSUME NEW state \in {"unused", "listed", "removed"}, NEW u \in Users \cup {NoUser}
  PROVE  /\ Fresh(state, u) \in PriceRow
         /\ Fresh(state, u).state = state /\ Fresh(state, u).user = u
         /\ Fresh(state, u).verificationCount = 0 /\ Fresh(state, u).confirmedCount = 0
         /\ Fresh(state, u).disputedCount = 0
BY DEF Fresh, PriceRow

\* One more vote.
Counted(m, row, r) ==
  /\ m.state = row.state /\ m.user = row.user
  /\ m.verificationCount = row.verificationCount + 1
  /\ m.confirmedCount = row.confirmedCount + (IF r = "confirmed" THEN 1 ELSE 0)
  /\ m.disputedCount = row.disputedCount + (IF r = "disputed" THEN 1 ELSE 0)

LEMMA VotedRow ==
  ASSUME NEW row \in PriceRow, NEW r \in Results
  PROVE  Voted(row, r) \in PriceRow /\ Counted(Voted(row, r), row, r)
<1> DEFINE m == Voted(row, r)
<1>1. DOMAIN row = {"state", "user", "verificationCount", "confirmedCount", "disputedCount"}
  BY DEF PriceRow
<1>2. /\ row.verificationCount \in Nat /\ row.confirmedCount \in Nat /\ row.disputedCount \in Nat
      /\ row.state \in {"unused", "listed", "removed"} /\ row.user \in Users \cup {NoUser}
  BY DEF PriceRow
<1>3. DOMAIN m = DOMAIN row /\ m = [k \in DOMAIN m |-> m[k]]
  BY DEF Voted
<1>4. Counted(m, row, r)
  BY <1>1, <1>2 DEF Voted, Counted
<1> HIDE DEF m
<1>5. m = [state |-> m.state, user |-> m.user, verificationCount |-> m.verificationCount,
           confirmedCount |-> m.confirmedCount, disputedCount |-> m.disputedCount]
  BY <1>1, <1>3
<1>6. m \in PriceRow
  BY <1>2, <1>4, <1>5 DEF PriceRow, Counted
<1> QED
  BY <1>4, <1>6 DEF m

\* What the UPDATE of an edit makes of a row.
Edited(m, row, e, D) ==
  /\ m.state = row.state
  /\ m.user = (IF "user" \in D THEN e.user ELSE row.user)
  /\ D = {} => m = row

LEMMA EditedRow ==
  ASSUME NEW row \in PriceRow, NEW e \in PriceRow, NEW D \in SUBSET Columns,
         NEW m, m = [k \in DOMAIN row |-> IF k \in D THEN e[k] ELSE row[k]]
  PROVE  m \in PriceRow /\ Edited(m, row, e, D)
<1>1. DOMAIN row = {"state", "user", "verificationCount", "confirmedCount", "disputedCount"}
  BY DEF PriceRow
<1>2. "state" \notin D
  BY DEF Columns
<1>3. /\ m.state = row.state
      /\ m.user = (IF "user" \in D THEN e.user ELSE row.user)
  BY <1>1, <1>2
<1>4. m = [state |-> m.state, user |-> m.user, verificationCount |-> m.verificationCount,
           confirmedCount |-> m.confirmedCount, disputedCount |-> m.disputedCount]
  BY <1>1
<1>5. /\ m.state \in {"unused", "listed", "removed"} /\ m.user \in Users \cup {NoUser}
      /\ m.verificationCount \in Nat /\ m.confirmedCount \in Nat /\ m.disputedCount \in Nat
  BY <1>1, <1>3 DEF PriceRow
<1>6. m \in PriceRow
  BY <1>4, <1>5 DEF PriceRow
<1>7. D = {} => m = row
  BY <1>1 DEF PriceRow
<1> QED
  BY <1>3, <1>6, <1>7, Zenon DEF Edited

-----------------------------------------------------------------------------
(* Calls. *)

\* All calls but those of C stand still.
Stand(C) ==
  \A d \in Calls \ C : /\ pc'[d] = pc[d] /\ request'[d] = request[d]
                       /\ seen'[d] = seen[d] /\ dirty'[d] = dirty[d]

LEMMA CallHolds ==
  ASSUME Typed, NEW c \in Calls
  PROVE  /\ Carries(pc[c], request[c], seen[c]) /\ pc[c] \in PCs
         /\ request[c] \in Request /\ seen[c] \in PriceRow /\ dirty[c] \in SUBSET Columns
BY DEF Typed, LocalsTyped, CallsOK

LEMMA TablesHold ==
  ASSUME Typed
  PROVE  /\ \A p \in PriceIds : price[p] \in PriceRow
         /\ \A r \in rows : r \in Verification
         /\ Prices \subseteq PriceIds /\ Calls \subseteq PriceIds
BY DEF Typed, TablesTyped, PriceIds

LEMMA CallTyped ==
  ASSUME Typed, TablesTyped', NEW c \in Calls, NEW where \in PCs, NEW q \in Request,
         NEW e \in PriceRow, NEW D \in SUBSET Columns, Carries(where, q, e),
         pc' = [pc EXCEPT ![c] = where], request' = [request EXCEPT ![c] = q],
         seen' = [seen EXCEPT ![c] = e], dirty' = [dirty EXCEPT ![c] = D]
  PROVE  Typed' /\ Stand({c})
<1>1. LocalsTyped'
  BY DEF Typed, LocalsTyped
<1>2. Stand({c})
  BY DEF Typed, LocalsTyped, Stand
<1>3. pc'[c] = where /\ request'[c] = q /\ seen'[c] = e
  BY DEF Typed, LocalsTyped
<1>4. CallsOK'
  BY <1>2, <1>3 DEF Typed, CallsOK, Stand
<1> QED
  BY <1>1, <1>2, <1>4 DEF Typed

\* The end of a call: only a committed verification keeps its request.
LEMMA EndTyped ==
  ASSUME Typed, TablesTyped', NEW c \in Calls, End(c)
  PROVE  /\ Typed' /\ Stand({c})
         /\ pc'[c] = "ended"
         /\ request'[c] = IF pc[c] = "committed" THEN request[c] ELSE NoRequest
<1> DEFINE q == IF pc[c] = "committed" THEN request[c] ELSE NoRequest
           e == Fresh("unused", NoUser)
<1>1. NoRequest \in Request /\ e \in PriceRow
  BY FreshRow DEF NoRequest, Request
<1>2. q \in Request
  BY <1>1, CallHolds
<1>3. Carries("ended", q, e)
  BY CallHolds DEF Carries, Done, VerifyPCs, EditPCs
<1>4. /\ pc' = [pc EXCEPT ![c] = "ended"] /\ seen' = [seen EXCEPT ![c] = e]
      /\ dirty' = [dirty EXCEPT ![c] = {}] /\ "ended" \in PCs /\ {} \in SUBSET Columns
  BY DEF End, Move, PCs
<1>5. request' = [request EXCEPT ![c] = q]
  BY DEF End, Typed, LocalsTyped
<1>6. pc'[c] = "ended" /\ request'[c] = q
  BY <1>4, <1>5 DEF Typed, LocalsTyped
<1> HIDE DEF q, e
<1>7. Typed' /\ Stand({c})
  BY <1>1, <1>2, <1>3, <1>4, <1>5, CallTyped
<1> QED
  BY <1>6, <1>7 DEF q

\* The tables are left as they are.
Still == UNCHANGED <<account, price, held, rows, jobs, overwritten>>

LEMMA StillTyped == ASSUME Typed, Still PROVE TablesTyped'
BY DEF Typed, TablesTyped, Still

LEMMA StartStep ==
  ASSUME Typed, NEW c \in Calls, Start(c)
  PROVE  /\ Typed' /\ Stand({c}) /\ Still
         /\ pc[c] = "idle" /\ pc'[c] \in {"existing", "reload", "delete"}
         /\ request'[c].price \in PriceIds /\ price[request'[c].price].state = "listed"
<1>1. ASSUME NEW u \in Users, NEW p \in PriceIds, NEW r \in Results \cup {"none"},
             NEW where \in {"existing", "reload", "delete"},
             where = "existing" => r \in Results /\ price[p].user # u,
             Load(c, where, u, p, r)
      PROVE  /\ Typed' /\ Stand({c}) /\ Still
             /\ pc[c] = "idle" /\ pc'[c] \in {"existing", "reload", "delete"}
             /\ request'[c].price \in PriceIds /\ price[request'[c].price].state = "listed"
  <2> DEFINE q == [user |-> u, price |-> p, result |-> r]
  <2>1. q \in Request /\ q.user = u /\ q.price = p /\ q.result = r
    BY <1>1 DEF Request
  <2>2. /\ Still /\ pc[c] = "idle" /\ price[p].state = "listed"
        /\ pc' = [pc EXCEPT ![c] = where] /\ request' = [request EXCEPT ![c] = q]
        /\ seen' = [seen EXCEPT ![c] = price[p]] /\ dirty' = dirty
    BY <1>1, Zenon DEF Load, Move, Still
  <2> HIDE DEF q
  <2>3. Carries(where, q, price[p])
    BY <1>1, <2>1, <2>2 DEF Carries, Done, VerifyPCs, EditPCs
  <2>4. where \in PCs /\ price[p] \in PriceRow /\ dirty[c] \in SUBSET Columns
    BY <1>1, TablesHold, CallHolds DEF PCs
  <2>5. dirty' = [dirty EXCEPT ![c] = dirty[c]]
    BY <2>2 DEF Typed, LocalsTyped
  <2>6. TablesTyped'
    BY <2>2, StillTyped
  <2>7. Typed' /\ Stand({c})
    BY <2>1, <2>2, <2>3, <2>4, <2>5, <2>6, CallTyped
  <2>8. pc'[c] = where /\ request'[c] = q
    BY <2>2 DEF Typed, LocalsTyped
  <2> QED
    BY <1>1, <2>1, <2>2, <2>7, <2>8
<1>2. \E u \in Users, p \in PriceIds, r \in Results \cup {"none"},
         where \in {"existing", "reload", "delete"} :
        /\ where = "existing" => r \in Results /\ price[p].user # u
        /\ Load(c, where, u, p, r)
  BY DEF Start, LoadPrice, EditPrice, RemovePrice, Results
<1> QED
  BY <1>1, <1>2

LEMMA RejectStep ==
  ASSUME Typed, NEW c \in Calls, Reject(c)
  PROVE  /\ Typed' /\ Stand({c}) /\ Still /\ pc'[c] = "ended"
         /\ request'[c] = IF pc[c] = "committed" THEN request[c] ELSE NoRequest
<1>1. Still /\ End(c)
  BY DEF Reject, Still
<1>2. TablesTyped'
  BY <1>1, StillTyped
<1> QED
  BY <1>1, <1>2, EndTyped

\* A call goes on to another statement of the same operation.
LEMMA GotoStep ==
  ASSUME Typed, NEW c \in Calls, NEW where, pc' = [pc EXCEPT ![c] = where],
         NEW D \in SUBSET Columns, dirty' = [dirty EXCEPT ![c] = D],
         request' = request, seen' = seen, TablesTyped',
         \/ pc[c] \in {"existing", "insert", "count", "commit"} /\ where \in VerifyPCs
         \/ pc[c] \in EditPCs /\ where \in EditPCs
  PROVE  Typed' /\ Stand({c}) /\ pc'[c] = where /\ request'[c] = request[c]
<1>1. Carries(where, request[c], seen[c])
  BY CallHolds DEF Carries, Done, VerifyPCs, EditPCs
<1>2. /\ where \in PCs /\ request[c] \in Request /\ seen[c] \in PriceRow
  BY CallHolds DEF PCs, VerifyPCs, EditPCs
<1>3. request' = [request EXCEPT ![c] = request[c]] /\ seen' = [seen EXCEPT ![c] = seen[c]]
      /\ pc'[c] = where
  BY DEF Typed, LocalsTyped
<1> QED
  BY <1>1, <1>2, <1>3, CallTyped

LEMMA VerifyStep ==
  ASSUME Typed, NEW c \in Calls, FindExisting(c) \/ InsertVerification(c) \/ CountVote(c),
         ~ Reject(c)
  PROVE  /\ Typed' /\ Stand({c}) /\ Still /\ request'[c] = request[c]
         /\ \/ pc[c] = "existing" /\ pc'[c] = "insert"
            \/ InsertVerification(c) /\ pc[c] = "insert" /\ pc'[c] = "count"
            \/ pc[c] = "count" /\ pc'[c] \in {"commit", "rollback"}
<1>1. PICK where \in {"insert", "count", "commit", "rollback"} :
        /\ Goto(c, where)
        /\ \/ pc[c] = "existing" /\ where = "insert"
           \/ InsertVerification(c) /\ pc[c] = "insert" /\ where = "count"
           \/ pc[c] = "count" /\ where \in {"commit", "rollback"}
  BY VerificationAssumption DEF FindExisting, InsertVerification, CountVote, At
<1>2. /\ Still /\ pc' = [pc EXCEPT ![c] = where] /\ request' = request /\ seen' = seen
      /\ dirty' = dirty
  BY <1>1 DEF Goto, Move, Still
<1>3. dirty' = [dirty EXCEPT ![c] = dirty[c]] /\ dirty[c] \in SUBSET Columns
  BY <1>2 DEF Typed, LocalsTyped
<1>4. TablesTyped'
  BY <1>2, StillTyped
<1>5. pc[c] \in {"existing", "insert", "count", "commit"} /\ where \in VerifyPCs
  BY <1>1 DEF VerifyPCs
<1>6. Typed' /\ Stand({c}) /\ pc'[c] = where /\ request'[c] = request[c]
  BY <1>2, <1>3, <1>4, <1>5, GotoStep
<1> QED
  BY <1>1, <1>2, <1>6

LEMMA ReloadStep ==
  ASSUME Typed, NEW c \in Calls, Reload(c)
  PROVE  /\ Typed' /\ Stand({c}) /\ Still /\ request'[c] = request[c]
         /\ pc[c] = "reload" /\ pc'[c] \in {"write", "reinsert"}
<1>1. PICK where \in {"write", "reinsert"}, D \in SUBSET Columns :
        pc' = [pc EXCEPT ![c] = where] /\ dirty' = [dirty EXCEPT ![c] = D]
  <2>1. dirty = [dirty EXCEPT ![c] = dirty[c]] /\ dirty[c] \in SUBSET Columns
    BY DEF Typed, LocalsTyped
  <2>2. {k \in Columns : seen[c][k] # price[request[c].price][k]} \in SUBSET Columns
    OBVIOUS
  <2> QED
    BY <2>1, <2>2, Zenon DEF Reload, Move
<1>2. Still /\ request' = request /\ seen' = seen /\ pc[c] = "reload"
  BY DEF Reload, Still, At
<1>3. TablesTyped'
  BY <1>2, StillTyped
<1>4. pc[c] \in EditPCs /\ where \in EditPCs
  BY <1>2 DEF EditPCs
<1>5. Typed' /\ Stand({c}) /\ pc'[c] = where /\ request'[c] = request[c]
  BY <1>1, <1>2, <1>3, <1>4, GotoStep
<1> QED
  BY <1>2, <1>5

\* The row a commit adds.
NewRow(c) ==
  [id |-> c, price |-> request[c].price, verifier |-> request[c].user,
   result |-> request[c].result,
   newPrice |-> IF request[c].result = "disputed" THEN c ELSE NoPrice]

LEMMA CommitStep ==
  ASSUME Typed, NEW c \in Calls, Commit(c)
  PROVE  /\ Typed' /\ Stand({c}) /\ request'[c] = request[c]
         /\ pc[c] = "commit" /\ pc'[c] = "committed"
         /\ UNCHANGED <<account, held, jobs, overwritten>>
         /\ rows' = rows \cup {NewRow(c)} /\ NewRow(c) \in Verification
         /\ request[c].price \in PriceIds /\ request[c].user \in Users /\ request[c].result \in Results
         /\ price' = [price EXCEPT ![request[c].price] = Voted(@, request[c].result),
                                   ![c] = IF request[c].result = "disputed"
                                          THEN Fresh("listed", request[c].user) ELSE @]
<1> DEFINE q == request[c]
           f == Fresh("listed", q.user)
           v == Voted(price[q.price], q.result)
<1>1. /\ pc[c] = "commit" /\ pc' = [pc EXCEPT ![c] = "committed"]
      /\ UNCHANGED <<account, held, request, seen, dirty, jobs, overwritten>>
  BY DEF Commit, At, Move
<1>2. rows' = rows \cup {NewRow(c)}
  BY DEF Commit, NewRow
<1>3. price' = [price EXCEPT ![q.price] = Voted(@, q.result),
                             ![c] = IF q.result = "disputed" THEN f ELSE @]
  BY DEF Commit
<1>4. q.user \in Users /\ q.price \in PriceIds /\ q.result \in Results
  BY <1>1, CallHolds DEF Carries, VerifyPCs
<1>5. c \in PriceIds
  BY TablesHold
<1>6. NewRow(c) \in Verification
  BY <1>4, <1>5 DEF NewRow, Verification
<1>7. f \in PriceRow /\ v \in PriceRow
  BY <1>4, FreshRow, VotedRow, TablesHold
<1> HIDE DEF f
<1>8. price' \in [PriceIds -> PriceRow]
  BY <1>3, <1>5, <1>7 DEF Typed, TablesTyped
<1>9. TablesTyped'
  BY <1>1, <1>2, <1>6, <1>8 DEF Typed, TablesTyped
<1>10. dirty' = [dirty EXCEPT ![c] = dirty[c]] /\ dirty[c] \in SUBSET Columns
  BY <1>1 DEF Typed, LocalsTyped
<1>11. pc[c] \in {"existing", "insert", "count", "commit"} /\ "committed" \in VerifyPCs
       /\ request' = request /\ seen' = seen
  BY <1>1 DEF VerifyPCs
<1>12. Typed' /\ Stand({c}) /\ pc'[c] = "committed" /\ request'[c] = request[c]
  BY <1>1, <1>9, <1>10, <1>11, GotoStep
<1> QED
  BY <1>1, <1>2, <1>3, <1>4, <1>6, <1>12 DEF f

LEMMA StartJobsStep ==
  ASSUME Typed, NEW c \in Calls, StartJobs(c)
  PROVE  /\ Typed' /\ Stand({c}) /\ pc[c] = "committed" /\ pc'[c] = "ended"
         /\ request'[c] = request[c] /\ jobs' = jobs \cup Deduction(c)
         /\ UNCHANGED <<account, price, held, rows, overwritten>>
<1>1. /\ pc[c] = "committed" /\ jobs' = jobs \cup Deduction(c) /\ End(c)
      /\ UNCHANGED <<account, price, held, rows, overwritten>>
  BY DEF StartJobs, At
<1>2. Deduction(c) \subseteq [user : Users, price : PriceIds, verification : Calls]
  <2>1. request[c].price \in PriceIds /\ seen[c].user \in Users \cup {NoUser}
    BY <1>1, CallHolds DEF Carries, VerifyPCs, PriceRow
  <2> QED
    BY <2>1 DEF Deduction
<1>3. TablesTyped'
  BY <1>1, <1>2 DEF Typed, TablesTyped
<1>4. Typed' /\ Stand({c}) /\ pc'[c] = "ended" /\ request'[c] = request[c]
  BY <1>1, <1>3, EndTyped
<1> QED
  BY <1>1, <1>4

\* The statements that end an edit or a removal.
LEMMA EditStep ==
  ASSUME Typed, NEW c \in Calls, WriteEdit(c) \/ Reinsert(c), ~ Reject(c)
  PROVE  /\ Typed' /\ Stand({c}) /\ pc'[c] = "ended" /\ request'[c] = NoRequest
         /\ pc[c] \in EditPCs /\ request[c].price \in PriceIds
         /\ UNCHANGED <<account, held, rows, jobs>>
         /\ \E row \in PriceRow : price' = [price EXCEPT ![request[c].price] = row]
              /\ \/ WriteEdit(c) /\ row.state = price[request[c].price].state
                 \/ Reinsert(c) /\ row.state = "listed"
         /\ \/ UNCHANGED <<price, overwritten>>
            \/ overwritten' = overwritten \cup {request[c].price}
<1> DEFINE p == request[c].price
           w == [k \in DOMAIN price[p] |-> IF k \in dirty[c] THEN seen[c][k] ELSE price[p][k]]
<1>1. pc[c] \in {"write", "reinsert"} /\ End(c) /\ UNCHANGED <<account, held, rows, jobs>>
  BY DEF WriteEdit, Reinsert, At
<1>2. p \in PriceIds /\ seen[c].state = "listed"
  BY <1>1, CallHolds DEF Carries, EditPCs
<1>3. \E row \in PriceRow : price' = [price EXCEPT ![p] = row]
        /\ \/ WriteEdit(c) /\ row.state = price[p].state
           \/ Reinsert(c) /\ row.state = "listed"
  <2>1. CASE WriteEdit(c)
    <3>1. price' = [price EXCEPT ![p] = w]
      BY <2>1, Zenon DEF WriteEdit
    <3>2. w \in PriceRow /\ Edited(w, price[p], seen[c], dirty[c])
      BY <1>2, CallHolds, TablesHold, EditedRow
    <3> HIDE DEF w
    <3> QED
      BY <2>1, <3>1, <3>2 DEF Edited
  <2>2. CASE Reinsert(c)
    <3>1. price' = [price EXCEPT ![p] = seen[c]]
      BY <2>2, Zenon DEF Reinsert
    <3> QED
      BY <1>2, <2>2, <3>1, CallHolds
  <2> QED
    BY <2>1, <2>2
<1>4. \/ UNCHANGED <<price, overwritten>>
      \/ overwritten' = overwritten \cup {p}
  <2>1. CASE WriteEdit(c)
    <3>1. price' = [price EXCEPT ![p] = w]
          /\ overwritten' = IF dirty[c] = {} THEN overwritten ELSE overwritten \cup {p}
      BY <2>1, Zenon DEF WriteEdit
    <3>2. Edited(w, price[p], seen[c], dirty[c])
      BY <1>2, CallHolds, TablesHold, EditedRow
    <3> HIDE DEF w
    <3>3. dirty[c] = {} => price' = price
      BY <3>1, <3>2 DEF Edited, Typed, TablesTyped
    <3> QED
      BY <3>1, <3>3
  <2>2. CASE Reinsert(c)
    BY <2>2 DEF Reinsert
  <2> QED
    BY <2>1, <2>2
<1>5. TablesTyped'
  BY <1>1, <1>2, <1>3, <1>4 DEF Typed, TablesTyped
<1>6. /\ Typed' /\ Stand({c}) /\ pc'[c] = "ended" /\ request'[c] = NoRequest
  BY <1>1, <1>5, EndTyped
<1>7. pc[c] \in EditPCs
  BY <1>1 DEF EditPCs
<1> QED
  BY <1>1, <1>2, <1>3, <1>4, <1>6, <1>7, Zenon

\* A verification that loses the price it spawned.
Unlinked(r, p) == IF r.newPrice = p THEN [r EXCEPT !.newPrice = NoPrice] ELSE r

LEMMA UnlinkedRow ==
  ASSUME NEW r \in Verification, NEW p
  PROVE  /\ Unlinked(r, p) \in Verification
         /\ Unlinked(r, p).id = r.id /\ Unlinked(r, p).price = r.price
         /\ Unlinked(r, p).verifier = r.verifier /\ Unlinked(r, p).result = r.result
         /\ Unlinked(r, p).newPrice = IF r.newPrice = p THEN NoPrice ELSE r.newPrice
BY DEF Unlinked, Verification

LEMMA DeletePriceStep ==
  ASSUME Typed, NEW c \in Calls, DeletePrice(c)
  PROVE  /\ Typed' /\ Stand({c}) /\ pc'[c] = "ended" /\ request'[c] = NoRequest
         /\ pc[c] \in EditPCs /\ request[c].price \in PriceIds
         /\ \A d \in Calls : Inserted(d) => request[d].price # request[c].price
         /\ UNCHANGED <<account, held, jobs, overwritten>>
         /\ price' = [price EXCEPT ![request[c].price] = Fresh("removed", NoUser)]
         /\ rows' = {Unlinked(r, request[c].price) : r \in {s \in rows : s.price # request[c].price}}
<1> DEFINE p == request[c].price
<1>1. /\ pc[c] = "delete" /\ End(c) /\ UNCHANGED <<account, held, jobs, overwritten>>
      /\ price' = [price EXCEPT ![p] = Fresh("removed", NoUser)]
      /\ \A d \in Calls : Inserted(d) => request[d].price # p
  BY DEF DeletePrice, At
<1>2. rows' = {Unlinked(r, p) : r \in {s \in rows : s.price # p}}
  BY Zenon DEF DeletePrice, Unlinked
<1>3. p \in PriceIds
  BY <1>1, CallHolds DEF Carries, EditPCs
<1>4. Fresh("removed", NoUser) \in PriceRow
  BY FreshRow
<1>5. rows' \subseteq Verification
  BY <1>2, TablesHold, UnlinkedRow
<1>6. TablesTyped'
  BY <1>1, <1>3, <1>4, <1>5 DEF Typed, TablesTyped
<1>7. Typed' /\ Stand({c}) /\ pc'[c] = "ended" /\ request'[c] = NoRequest
  BY <1>1, <1>6, EndTyped
<1>8. pc[c] \in EditPCs
  BY <1>1 DEF EditPCs
<1> QED
  BY <1>1, <1>2, <1>3, <1>7, <1>8, Zenon

\* No call moves.
LEMMA TablesMove ==
  ASSUME Typed, TablesTyped', UNCHANGED <<pc, request, seen, dirty>>
  PROVE  Typed' /\ Stand({})
BY DEF Typed, LocalsTyped, CallsOK, Stand

LEMMA CreatePriceStep ==
  ASSUME Typed, NEW u \in Users, NEW p \in Prices, CreatePrice(u, p)
  PROVE  /\ Typed' /\ Stand({})
         /\ p \in PriceIds \ Calls /\ price[p].state = "unused"
         /\ price' = [price EXCEPT ![p] = Fresh("listed", u)]
         /\ UNCHANGED <<account, held, rows, jobs, overwritten>>
<1>1. /\ price' = [price EXCEPT ![p] = Fresh("listed", u)] /\ price[p].state = "unused"
      /\ UNCHANGED <<account, held, rows, pc, request, seen, dirty, jobs, overwritten>>
  BY DEF CreatePrice
<1>2. p \in PriceIds \ Calls
  BY VerificationAssumption DEF PriceIds
<1>3. Fresh("listed", u) \in PriceRow
  BY FreshRow
<1>4. TablesTyped'
  BY <1>1, <1>3 DEF Typed, TablesTyped
<1> QED
  BY <1>1, <1>2, <1>4, TablesMove

\* An account starts to close, or does not close after all.
LEMMA ClosingStep ==
  ASSUME Typed, NEW u \in Users, Anonymise(u) \/ AbortClose(u)
  PROVE  /\ Typed' /\ Stand({}) /\ UNCHANGED <<price, rows, jobs, overwritten>>
         /\ \A x \in Users : account'[x] = "gone" <=> account[x] = "gone"
<1>1. UNCHANGED <<price, rows, pc, request, seen, dirty, jobs, overwritten>>
  BY DEF Anonymise, AbortClose
<1>2. /\ account' \in [Users -> {"live", "closing", "gone"}]
      /\ \A x \in Users : account'[x] = "gone" <=> account[x] = "gone"
  BY DEF Anonymise, AbortClose, Typed, TablesTyped
<1>3. held' \subseteq PriceIds
  BY DEF Anonymise, AbortClose, Typed, TablesTyped
<1>4. TablesTyped'
  BY <1>1, <1>2, <1>3 DEF Typed, TablesTyped
<1> QED
  BY <1>1, <1>2, <1>4, TablesMove

LEMMA CloseStep ==
  ASSUME Typed, NEW u \in Users, CloseAccount(u)
  PROVE  /\ Typed' /\ Stand({}) /\ UNCHANGED <<jobs, overwritten>>
         /\ account' = [account EXCEPT ![u] = "gone"]
         /\ \A c \in Calls : Inserted(c) => request[c].user # u
         /\ rows' = {r \in rows : r.verifier # u}
         /\ \A p \in PriceIds :
              /\ price'[p].state = price[p].state
              /\ price'[p].verificationCount = price[p].verificationCount
              /\ price'[p].confirmedCount = price[p].confirmedCount
              /\ price'[p].disputedCount = price[p].disputedCount
<1>1. /\ UNCHANGED <<pc, request, seen, dirty, jobs, overwritten>>
      /\ account' = [account EXCEPT ![u] = "gone"]
      /\ held' = held \ Owned(u) /\ rows' = {r \in rows : r.verifier # u}
      /\ \A c \in Calls : Inserted(c) => request[c].user # u
  BY DEF CloseAccount
<1>2. /\ price' \in [PriceIds -> PriceRow]
      /\ \A p \in PriceIds :
           /\ price'[p].state = price[p].state
           /\ price'[p].verificationCount = price[p].verificationCount
           /\ price'[p].confirmedCount = price[p].confirmedCount
           /\ price'[p].disputedCount = price[p].disputedCount
  <2>1. price' = [p \in PriceIds |-> IF p \in Owned(u) THEN [price[p] EXCEPT !.user = NoUser]
                                                       ELSE price[p]]
    BY DEF CloseAccount
  <2>2. ASSUME NEW p \in PriceIds
        PROVE  /\ price'[p] \in PriceRow /\ price'[p].state = price[p].state
               /\ price'[p].verificationCount = price[p].verificationCount
               /\ price'[p].confirmedCount = price[p].confirmedCount
               /\ price'[p].disputedCount = price[p].disputedCount
    <3>1. price[p] \in PriceRow
      BY TablesHold
    <3>2. price'[p] = price[p] \/ price'[p] = [price[p] EXCEPT !.user = NoUser]
      BY <2>1
    <3> QED
      BY <3>1, <3>2 DEF PriceRow
  <2> QED
    BY <2>1, <2>2
<1>3. TablesTyped'
  BY <1>1, <1>2 DEF Typed, TablesTyped
<1> QED
  BY <1>1, <1>2, <1>3, TablesMove

LEMMA VictimAborts == ASSUME NEW u \in Users, DeadlockVictim(u) PROVE AbortClose(u)
BY DEF DeadlockVictim

LEMMA TypedStart == Init => Typed
<1> SUFFICES ASSUME Init PROVE Typed
  OBVIOUS
<1>1. Fresh("unused", NoUser) \in PriceRow /\ NoRequest \in Request
  BY FreshRow DEF NoRequest, Request
<1>2. TablesTyped
  BY <1>1 DEF Init, TablesTyped
<1>3. LocalsTyped
  BY <1>1 DEF Init, LocalsTyped, PCs
<1>4. CallsOK
  BY DEF Init, CallsOK, Carries, Done, VerifyPCs, EditPCs
<1> QED
  BY <1>2, <1>3, <1>4 DEF Typed

\* Every step, for the proofs that go through them.
LEMMA Steps ==
  ASSUME Typed, [Next]_vars
  PROVE  \/ \E c \in Calls : Start(c) \/ Commit(c) \/ StartJobs(c) \/ Reload(c)
         \/ \E c \in Calls : Reject(c) /\ pc[c] \notin {"idle", "ended"}
         \/ \E c \in Calls : /\ ~ Reject(c)
                             /\ \/ FindExisting(c) \/ InsertVerification(c) \/ CountVote(c)
                                \/ WriteEdit(c) \/ Reinsert(c)
         \/ \E c \in Calls : DeletePrice(c)
         \/ \E u \in Users, p \in Prices : CreatePrice(u, p)
         \/ \E u \in Users : Anonymise(u) \/ AbortClose(u)
         \/ \E u \in Users : CloseAccount(u)
         \/ UNCHANGED vars
<1>1. ASSUME NEW c \in Calls, Crash(c)
      PROVE  Reject(c) /\ pc[c] \notin {"idle", "ended"}
  BY <1>1 DEF Crash
<1>2. ASSUME NEW c \in Calls, \/ FindExisting(c) \/ InsertVerification(c) \/ CountVote(c)
                              \/ WriteEdit(c) \/ Reinsert(c)
      PROVE  pc[c] \notin {"idle", "ended"}
  BY <1>2 DEF FindExisting, InsertVerification, CountVote, WriteEdit, Reinsert, At
<1>3. ASSUME NEW c \in Calls, Rollback(c)
      PROVE  Reject(c) /\ pc[c] \notin {"idle", "ended"}
  BY <1>3 DEF Rollback, At
<1> QED
  BY <1>1, <1>2, <1>3, VictimAborts DEF Next, Statement, Quiet

LEMMA TypedStep == Typed /\ [Next]_vars => Typed'
<1> SUFFICES ASSUME Typed, [Next]_vars PROVE Typed'
  OBVIOUS
<1>1. ASSUME NEW c \in Calls, Start(c) \/ Reject(c) \/ Commit(c) \/ StartJobs(c) \/ Reload(c)
      PROVE  Typed'
  BY <1>1, StartStep, RejectStep, CommitStep, StartJobsStep, ReloadStep
<1>2. ASSUME NEW c \in Calls, ~ Reject(c), \/ FindExisting(c) \/ InsertVerification(c) \/ CountVote(c)
                                           \/ WriteEdit(c) \/ Reinsert(c)
      PROVE  Typed'
  BY <1>2, VerifyStep, EditStep
<1>3. ASSUME NEW c \in Calls, DeletePrice(c)
      PROVE  Typed'
  BY <1>3, DeletePriceStep
<1>4. ASSUME NEW u \in Users, NEW p \in Prices, CreatePrice(u, p)
      PROVE  Typed'
  BY <1>4, CreatePriceStep
<1>5. ASSUME NEW u \in Users, Anonymise(u) \/ AbortClose(u) \/ CloseAccount(u)
      PROVE  Typed'
  BY <1>5, ClosingStep, CloseStep
<1>6. CASE UNCHANGED vars
  <2>1. Still /\ UNCHANGED <<pc, request, seen, dirty>>
    BY <1>6 DEF vars, Still
  <2> QED
    BY <2>1, StillTyped, TablesMove
<1> QED
  BY <1>1, <1>2, <1>3, <1>4, <1>5, <1>6, Steps, Zenon

LEMMA TypedAlways == Spec => []Typed
BY TypedStart, TypedStep, PTL DEF Spec

\* The tables and what every call knows keep their types: a deduction has an owner
\* to deduct from, a committed verification its price and its verifier.
THEOREM TypeCorrect == Spec => []TypeOK
BY TypedAlways, TypedMeansTypeOK, PTL

-----------------------------------------------------------------------------
(* One verification of a price by a user. *)

\* What an uncommitted verification locks cannot go, and it is the only one of
\* its pair.
Locks ==
  \A c \in Calls : Inserted(c) =>
    /\ price[request[c].price].state = "listed"
    /\ account[request[c].user] # "gone"
    /\ ~ HasVerified(request[c].user, request[c].price)

PairsApart ==
  \A c, d \in Calls :
    /\ Inserted(c) /\ Inserted(d)
    /\ request[c].user = request[d].user /\ request[c].price = request[d].price
    => c = d

RowsReferToLive ==
  \A r \in rows : price[r.price].state = "listed" /\ account[r.verifier] # "gone"

Pairs == OneVerificationPerUser /\ Locks /\ PairsApart /\ RowsReferToLive

\* The state of a row, and whether a user is gone.
LiveStays ==
  /\ \A p \in PriceIds : price[p].state = "listed" => price'[p].state = "listed"
  /\ \A u \in Users : account[u] # "gone" => account'[u] # "gone"

LEMMA InsertedHolds ==
  ASSUME Typed, NEW c \in Calls, Inserted(c)
  PROVE  request[c].price \in PriceIds /\ request[c].user \in Users
BY CallHolds DEF Inserted, Carries, VerifyPCs

LEMMA RowHolds ==
  ASSUME Typed, NEW r \in rows
  PROVE  /\ r \in Verification /\ r.id \in Calls /\ r.price \in PriceIds /\ r.verifier \in Users
         /\ r.result \in Results /\ r.newPrice \in PriceIds \cup {NoPrice}
BY DEF Typed, TablesTyped, Verification

\* No verification is inserted or committed, and nothing it refers to goes.
LEMMA PairsStay ==
  ASSUME Typed, Pairs, NEW C \in SUBSET Calls, Stand(C), rows' = rows, LiveStays,
         \A d \in C : Inserted(d)' => Inserted(d) /\ request'[d] = request[d]
  PROVE  Pairs'
<1>1. \A d \in Calls : Inserted(d)' => Inserted(d) /\ request'[d] = request[d]
  BY DEF Stand, Inserted
<1>2. OneVerificationPerUser' /\ RowsReferToLive'
  BY RowHolds DEF Pairs, OneVerificationPerUser, RowsReferToLive, LiveStays
<1>3. PairsApart'
  BY <1>1 DEF Pairs, PairsApart
<1>4. Locks'
  <2> SUFFICES ASSUME NEW c \in Calls, Inserted(c)'
               PROVE  /\ price'[request'[c].price].state = "listed"
                      /\ account'[request'[c].user] # "gone"
                      /\ ~ HasVerified(request[c].user, request[c].price)'
    BY DEF Locks
  <2>1. Inserted(c) /\ request'[c] = request[c]
    BY <1>1
  <2>2. /\ price[request[c].price].state = "listed" /\ account[request[c].user] # "gone"
        /\ ~ HasVerified(request[c].user, request[c].price)
    BY <2>1 DEF Pairs, Locks
  <2>3. request[c].price \in PriceIds /\ request[c].user \in Users
    BY <2>1, InsertedHolds
  <2> QED
    BY <2>1, <2>2, <2>3 DEF LiveStays, HasVerified
<1> QED
  BY <1>2, <1>3, <1>4 DEF Pairs

LEMMA InsertPairs ==
  ASSUME Typed, Pairs, NEW c \in Calls, InsertVerification(c), ~ Reject(c)
  PROVE  Pairs'
<1>1. /\ pc[c] = "insert" /\ ~ HasVerified(request[c].user, request[c].price)
      /\ price[request[c].price].state = "listed" /\ account[request[c].user] # "gone"
      /\ \A d \in Calls : Inserted(d) =>
           ~ (request[d].user = request[c].user /\ request[d].price = request[c].price)
  BY DEF InsertVerification, At
<1>2. /\ Stand({c}) /\ Still /\ request'[c] = request[c] /\ pc'[c] = "count"
  BY <1>1, VerifyStep
<1>3. \A d \in Calls : /\ request'[d] = request[d]
                       /\ Inserted(d)' <=> Inserted(d) \/ d = c
  BY <1>2 DEF Stand, Inserted
<1>4. OneVerificationPerUser' /\ RowsReferToLive'
  BY <1>2 DEF Pairs, OneVerificationPerUser, RowsReferToLive, Still
<1>5. PairsApart'
  BY <1>1, <1>3 DEF Pairs, PairsApart
<1>6. Locks'
  BY <1>1, <1>2, <1>3 DEF Pairs, Locks, HasVerified, Still
<1> QED
  BY <1>4, <1>5, <1>6 DEF Pairs

LEMMA CommitPairs ==
  ASSUME Typed, Pairs, NEW c \in Calls, Commit(c)
  PROVE  Pairs'
<1> DEFINE q == request[c]
           new == NewRow(c)
<1>1. /\ Stand({c}) /\ pc[c] = "commit" /\ pc'[c] = "committed" /\ account' = account
      /\ rows' = rows \cup {new} /\ q.price \in PriceIds /\ q.user \in Users
  BY CommitStep
<1>2. \A p \in PriceIds : price[p].state = "listed" => price'[p].state = "listed"
  <2>1. price' = [price EXCEPT ![q.price] = Voted(@, q.result),
                               ![c] = IF q.result = "disputed" THEN Fresh("listed", q.user) ELSE @]
    BY CommitStep
  <2>2. Voted(price[q.price], q.result).state = price[q.price].state
    BY CommitStep, VotedRow, TablesHold DEF Counted
  <2>3. Fresh("listed", q.user).state = "listed"
    BY DEF Fresh
  <2> QED
    BY <1>1, <2>1, <2>2, <2>3 DEF Typed, TablesTyped
<1>3. new.price = q.price /\ new.verifier = q.user
  BY DEF NewRow
<1> HIDE DEF new
<1>4. Inserted(c) /\ ~ Inserted(c)'
  BY <1>1 DEF Inserted
<1>5. /\ price[q.price].state = "listed" /\ account[q.user] # "gone" /\ ~ HasVerified(q.user, q.price)
  BY <1>4 DEF Pairs, Locks
<1>6. \A d \in Calls : Inserted(d)' => d # c /\ Inserted(d) /\ request'[d] = request[d]
  BY <1>1, <1>4 DEF Stand, Inserted
<1>7. OneVerificationPerUser'
  BY <1>1, <1>3, <1>5 DEF Pairs, OneVerificationPerUser, HasVerified
<1>8. RowsReferToLive'
  BY <1>1, <1>2, <1>3, <1>5, RowHolds DEF Pairs, RowsReferToLive
<1>9. PairsApart'
  BY <1>6 DEF Pairs, PairsApart
<1>10. Locks'
  <2> SUFFICES ASSUME NEW d \in Calls, Inserted(d)'
               PROVE  /\ price'[request'[d].price].state = "listed"
                      /\ account'[request'[d].user] # "gone"
                      /\ ~ HasVerified(request[d].user, request[d].price)'
    BY DEF Locks
  <2>1. d # c /\ Inserted(d) /\ request'[d] = request[d]
    BY <1>6
  <2>2. /\ price[request[d].price].state = "listed" /\ account[request[d].user] # "gone"
        /\ ~ HasVerified(request[d].user, request[d].price)
    BY <2>1 DEF Pairs, Locks
  <2>3. request[d].price \in PriceIds
    BY <2>1, InsertedHolds
  <2>4. ~ (request[d].user = q.user /\ request[d].price = q.price)
    BY <1>4, <2>1 DEF Pairs, PairsApart
  <2>5. ~ HasVerified(request[d].user, request[d].price)'
    BY <1>1, <1>3, <2>1, <2>2, <2>4 DEF HasVerified
  <2> QED
    BY <1>1, <1>2, <2>1, <2>2, <2>3, <2>5
<1> QED
  BY <1>7, <1>8, <1>9, <1>10 DEF Pairs

LEMMA DeletePricePairs ==
  ASSUME Typed, Pairs, NEW c \in Calls, DeletePrice(c)
  PROVE  Pairs'
<1> DEFINE p == request[c].price
<1>1. /\ Stand({c}) /\ pc'[c] = "ended" /\ p \in PriceIds /\ account' = account
      /\ \A d \in Calls : Inserted(d) => request[d].price # p
      /\ price' = [price EXCEPT ![p] = Fresh("removed", NoUser)]
      /\ rows' = {Unlinked(r, p) : r \in {s \in rows : s.price # p}}
  BY DeletePriceStep
<1>2. \A x \in PriceIds \ {p} : price'[x] = price[x]
  BY <1>1 DEF Typed, TablesTyped
<1>3. \A t \in rows' : \E r \in rows :
        t = Unlinked(r, p) /\ t.price = r.price /\ t.verifier = r.verifier /\ r.price # p
  BY <1>1, UnlinkedRow, RowHolds
<1>4. OneVerificationPerUser'
  <2> SUFFICES ASSUME NEW s \in rows', NEW t \in rows', s.price = t.price, s.verifier = t.verifier
               PROVE  s = t
    BY DEF OneVerificationPerUser
  <2>1. PICK r \in rows : s = Unlinked(r, p) /\ s.price = r.price /\ s.verifier = r.verifier
    BY <1>3
  <2>2. PICK z \in rows : t = Unlinked(z, p) /\ t.price = z.price /\ t.verifier = z.verifier
    BY <1>3
  <2>3. r = z
    BY <2>1, <2>2 DEF Pairs, OneVerificationPerUser
  <2> QED
    BY <2>1, <2>2, <2>3
<1>5. RowsReferToLive'
  BY <1>1, <1>2, <1>3, RowHolds DEF Pairs, RowsReferToLive
<1>6. \A d \in Calls : Inserted(d)' => Inserted(d) /\ request'[d] = request[d]
  BY <1>1 DEF Stand, Inserted
<1>7. PairsApart'
  BY <1>6 DEF Pairs, PairsApart
<1>8. Locks'
  BY <1>1, <1>2, <1>3, <1>6, InsertedHolds DEF Pairs, Locks, HasVerified
<1> QED
  BY <1>4, <1>5, <1>7, <1>8 DEF Pairs

LEMMA ClosePairs ==
  ASSUME Typed, Pairs, NEW u \in Users, CloseAccount(u)
  PROVE  Pairs'
<1>1. /\ Stand({}) /\ account' = [account EXCEPT ![u] = "gone"]
      /\ \A c \in Calls : Inserted(c) => request[c].user # u
      /\ rows' = {r \in rows : r.verifier # u}
      /\ \A p \in PriceIds : price'[p].state = price[p].state
  BY CloseStep
<1>2. \A x \in Users \ {u} : account'[x] = account[x]
  BY <1>1 DEF Typed, TablesTyped
<1>3. OneVerificationPerUser' /\ RowsReferToLive'
  BY <1>1, <1>2, RowHolds DEF Pairs, OneVerificationPerUser, RowsReferToLive
<1>4. \A d \in Calls : Inserted(d)' => Inserted(d) /\ request'[d] = request[d]
  BY <1>1 DEF Stand, Inserted
<1>5. PairsApart'
  BY <1>4 DEF Pairs, PairsApart
<1>6. Locks'
  BY <1>1, <1>2, <1>4, InsertedHolds DEF Pairs, Locks, HasVerified
<1> QED
  BY <1>3, <1>5, <1>6 DEF Pairs

LEMMA PairsStart == Init => Pairs
BY DEF Init, Pairs, OneVerificationPerUser, Locks, PairsApart, RowsReferToLive, Inserted

LEMMA PairsStep == Typed /\ Pairs /\ [Next]_vars => Pairs'
<1> SUFFICES ASSUME Typed, Pairs, [Next]_vars PROVE Pairs'
  OBVIOUS
<1>0. Still => LiveStays /\ rows' = rows
  BY DEF Still, LiveStays
<1>1. ASSUME NEW c \in Calls, Stand({c}), Still, pc'[c] \notin {"count", "commit", "rollback"}
      PROVE  Pairs'
  <2>1. \A d \in {c} : Inserted(d)' => Inserted(d) /\ request'[d] = request[d]
    BY <1>1 DEF Inserted
  <2> QED
    BY <1>0, <1>1, <2>1, PairsStay
<1>2. ASSUME NEW c \in Calls, Start(c) \/ Reject(c) \/ Reload(c)
      PROVE  Pairs'
  BY <1>1, <1>2, StartStep, RejectStep, ReloadStep
<1>3. ASSUME NEW c \in Calls, StartJobs(c)
      PROVE  Pairs'
  <2>1. Stand({c}) /\ pc'[c] = "ended" /\ UNCHANGED <<account, price, rows>>
    BY <1>3, StartJobsStep
  <2>2. \A d \in {c} : Inserted(d)' => Inserted(d) /\ request'[d] = request[d]
    BY <2>1 DEF Inserted
  <2>3. LiveStays
    BY <2>1 DEF LiveStays
  <2> QED
    BY <2>1, <2>2, <2>3, PairsStay
<1>4. ASSUME NEW c \in Calls, FindExisting(c) \/ InsertVerification(c) \/ CountVote(c), ~ Reject(c)
      PROVE  Pairs'
  <2>1. /\ Stand({c}) /\ Still /\ request'[c] = request[c]
        /\ \/ pc[c] = "existing" /\ pc'[c] = "insert"
           \/ InsertVerification(c)
           \/ pc[c] = "count" /\ pc'[c] \in {"commit", "rollback"}
    BY <1>4, VerifyStep
  <2>2. CASE pc[c] = "existing" /\ pc'[c] = "insert"
    BY <1>1, <2>1, <2>2
  <2>3. CASE InsertVerification(c)
    BY <1>4, <2>3, InsertPairs
  <2>4. CASE pc[c] = "count" /\ pc'[c] \in {"commit", "rollback"}
    <3>1. \A d \in {c} : Inserted(d)' => Inserted(d) /\ request'[d] = request[d]
      BY <2>1, <2>4 DEF Inserted
    <3> QED
      BY <1>0, <2>1, <3>1, PairsStay
  <2> QED
    BY <2>1, <2>2, <2>3, <2>4
<1>5. ASSUME NEW c \in Calls, WriteEdit(c) \/ Reinsert(c), ~ Reject(c)
      PROVE  Pairs'
  <2>1. Stand({c}) /\ pc'[c] = "ended" /\ UNCHANGED <<account, rows>> /\ request[c].price \in PriceIds
    BY <1>5, EditStep
  <2>2. PICK row \in PriceRow : /\ price' = [price EXCEPT ![request[c].price] = row]
                                /\ row.state \in {price[request[c].price].state, "listed"}
    BY <1>5, EditStep
  <2>3. LiveStays
    BY <2>1, <2>2 DEF LiveStays, Typed, TablesTyped
  <2>4. \A d \in {c} : Inserted(d)' => Inserted(d) /\ request'[d] = request[d]
    BY <2>1 DEF Inserted
  <2> QED
    BY <2>1, <2>3, <2>4, PairsStay
<1>6. ASSUME Stand({}), LiveStays, rows' = rows
      PROVE  Pairs'
  BY <1>6, PairsStay
<1>7. ASSUME NEW u \in Users, NEW p \in Prices, CreatePrice(u, p)
      PROVE  Pairs'
  <2>1. /\ Stand({}) /\ p \in PriceIds /\ price[p].state = "unused"
        /\ price' = [price EXCEPT ![p] = Fresh("listed", u)] /\ UNCHANGED <<account, rows>>
    BY <1>7, CreatePriceStep
  <2>2. LiveStays
    BY <2>1 DEF LiveStays, Typed, TablesTyped
  <2> QED
    BY <1>6, <2>1, <2>2
<1>8. ASSUME NEW u \in Users, Anonymise(u) \/ AbortClose(u)
      PROVE  Pairs'
  <2>1. /\ Stand({}) /\ UNCHANGED <<price, rows>>
        /\ \A x \in Users : account'[x] = "gone" <=> account[x] = "gone"
    BY <1>8, ClosingStep
  <2>2. LiveStays
    BY <2>1 DEF LiveStays
  <2> QED
    BY <1>6, <2>1, <2>2
<1>9. CASE UNCHANGED vars
  BY <1>6, <1>9 DEF vars, Stand, LiveStays
<1> QED
  BY <1>2, <1>3, <1>4, <1>5, <1>7, <1>8, <1>9, CommitPairs, DeletePricePairs, ClosePairs, Steps, Zenon

LEMMA PairsAlways == Spec => []Pairs
BY PairsStart, PairsStep, TypedAlways, PTL DEF Spec

\* A user has at most one verification of a price, although the locking read of two
\* concurrent calls finds and locks nothing: the unique pair makes the second wait.
THEOREM OneEach == Spec => []OneVerificationPerUser
<1>1. Pairs => OneVerificationPerUser
  BY DEF Pairs
<1> QED
  BY <1>1, PairsAlways, PTL

-----------------------------------------------------------------------------
(* Disputes and deductions. *)

DoneCall(c) == Done(pc[c], request[c])

\* A row is its call's.
Made(r) ==
  /\ DoneCall(r.id)
  /\ request[r.id].price = r.price /\ request[r.id].user = r.verifier
  /\ request[r.id].result = r.result

\* What may have taken a committed verification away.
Lost(q) ==
  \/ account[q.user] = "gone"
  \/ price[q.price].state = "removed"
  \/ q.price \in overwritten

\* A verification names the price it spawned until that is deleted.
Linked(r) ==
  /\ r.newPrice \in {r.id, NoPrice}
  /\ r.newPrice = r.id => price[r.id].state = "listed"
  /\ r.result = "disputed" /\ r.newPrice = NoPrice =>
       price[r.id].state = "removed" \/ r.id \in overwritten

\* What a call may rely on: its id is no price's before it commits a dispute, the
\* price it works on was there, and what it committed stands or is lost.
CallStands(c) ==
  /\ price[c].state # "unused" => DoneCall(c) /\ request[c].result = "disputed"
  /\ pc[c] \in VerifyPCs \cup EditPCs => price[request[c].price].state # "unused"
  /\ DoneCall(c) => (\E r \in rows : r.id = c) \/ Lost(request[c])

RowsWhole == \A r \in rows : Made(r) /\ Linked(r)

CallsStand == \A c \in Calls : CallStands(c)

JobsStand ==
  \A j \in jobs :
    /\ j.verification \in Calls /\ DoneCall(j.verification)
    /\ request[j.verification].result = "disputed"
    /\ request[j.verification].price = j.price /\ request[j.verification].user # j.user

Whole == RowsWhole /\ CallsStand /\ JobsStand

LEMMA WholeMeans == Typed /\ Whole => DisputeIsWhole /\ DeductionHasDispute
<1> SUFFICES ASSUME Typed, Whole PROVE DisputeIsWhole /\ DeductionHasDispute
  OBVIOUS
<1>1. \A r \in rows : r.result = "disputed" =>
        \/ r.newPrice = r.id /\ price[r.id].state = "listed"
        \/ r.newPrice = NoPrice /\ price[r.id].state = "removed"
        \/ r.newPrice = NoPrice /\ r.id \in overwritten
  BY DEF Whole, RowsWhole, Linked
<1>2. ASSUME NEW c \in Calls, DoneCall(c)
      PROVE  \/ \E r \in rows : r.id = c /\ r.result = request[c].result
             \/ account[request[c].user] = "gone"
             \/ price[request[c].price].state = "removed"
             \/ request[c].price \in overwritten
  BY <1>2 DEF Whole, RowsWhole, CallsStand, CallStands, Made, Lost
<1>3. DisputeIsWhole
  <2> SUFFICES ASSUME NEW c \in Calls, price[c].state = "listed"
               PROVE  \/ \E r \in rows : r.id = c /\ r.result = "disputed"
                      \/ account[request[c].user] = "gone"
                      \/ price[request[c].price].state = "removed"
                      \/ request[c].price \in overwritten
    BY <1>1 DEF DisputeIsWhole
  <2>1. DoneCall(c) /\ request[c].result = "disputed"
    BY DEF Whole, CallsStand, CallStands
  <2> QED
    BY <1>2, <2>1
<1>4. DeductionHasDispute
  BY <1>2 DEF DeductionHasDispute, Whole, JobsStand
<1> QED
  BY <1>3, <1>4

\* Nothing that is committed comes undone, and rows of prices change as an edit or
\* a new price changes them.
DoneStays ==
  \A c \in Calls : DoneCall(c) => DoneCall(c)' /\ request'[c] = request[c]

StatesStay ==
  /\ overwritten \subseteq overwritten'
  /\ \A u \in Users : account[u] = "gone" => account'[u] = "gone"
  /\ \A p \in PriceIds :
       \/ price'[p].state = price[p].state
       \/ price[p].state # "unused" /\ price'[p].state = "listed" /\ p \in overwritten'
       \/ price[p].state = "unused" /\ p \notin Calls

LEMMA DoneHolds ==
  ASSUME Typed, NEW c \in Calls, DoneCall(c)
  PROVE  request[c].user \in Users /\ request[c].price \in PriceIds /\ request[c].result \in Results
BY CallHolds DEF DoneCall, Carries

LEMMA JobsStay ==
  ASSUME JobsStand, DoneStays, jobs' = jobs
  PROVE  JobsStand'
BY DEF JobsStand, DoneStays

LEMMA WholeStays ==
  ASSUME Typed, RowsWhole, CallsStand, DoneStays, StatesStay, rows' = rows,
         NEW C \in SUBSET Calls, Stand(C),
         \A d \in C : /\ DoneCall(d)' => DoneCall(d)
                      /\ pc'[d] \in VerifyPCs \cup EditPCs =>
                           /\ request'[d].price \in PriceIds
                           /\ price[request'[d].price].state # "unused"
  PROVE  RowsWhole' /\ CallsStand'
<1>1. \A p \in PriceIds : price[p].state # "unused" => price'[p].state # "unused"
  BY DEF StatesStay
<1>2. ASSUME NEW r \in rows
      PROVE  Made(r)' /\ Linked(r)'
  <2>1. Made(r) /\ Linked(r) /\ r.id \in Calls /\ r.id \in PriceIds
    BY RowHolds, TablesHold DEF RowsWhole
  <2>2. Made(r)'
    BY <2>1 DEF Made, DoneStays
  <2>3. Linked(r)'
    BY <2>1 DEF Linked, StatesStay
  <2> QED
    BY <2>2, <2>3
<1>3. ASSUME NEW c \in Calls
      PROVE  CallStands(c)'
  <2>1. CallStands(c) /\ c \in PriceIds
    BY TablesHold DEF CallsStand
  <2>2. DoneCall(c)' => DoneCall(c)
    BY DEF Stand, DoneCall
  <2>3. DoneCall(c) => DoneCall(c)' /\ request'[c] = request[c]
    BY DEF DoneStays
  <2>4. price'[c].state # "unused" => DoneCall(c)' /\ request'[c].result = "disputed"
    BY <2>1, <2>3 DEF CallStands, StatesStay
  <2>5. pc'[c] \in VerifyPCs \cup EditPCs =>
          request'[c].price \in PriceIds /\ price[request'[c].price].state # "unused"
    <3>1. CASE c \in C
      BY <3>1
    <3>2. CASE c \notin C
      BY <2>1, <3>2, CallHolds DEF CallStands, Stand, Carries
    <3> QED
      BY <3>1, <3>2
  <2>6. DoneCall(c)' => (\E r \in rows' : r.id = c) \/ Lost(request[c])'
    <3> SUFFICES ASSUME DoneCall(c)', \A r \in rows' : r.id # c
                 PROVE  Lost(request[c])'
      OBVIOUS
    <3>1. Lost(request[c]) /\ request'[c] = request[c]
      BY <2>1, <2>2, <2>3 DEF CallStands
    <3>2. request[c].user \in Users /\ request[c].price \in PriceIds
      BY <2>2, DoneHolds
    <3> QED
      BY <3>1, <3>2 DEF Lost, StatesStay
  <2> QED
    BY <1>1, <2>4, <2>5, <2>6 DEF CallStands
<1> QED
  BY <1>2, <1>3 DEF RowsWhole, CallsStand

\* A call moves: if it had committed, it ends with its request.
LEMMA MoveKeepsDone ==
  ASSUME Typed, NEW c \in Calls, Stand({c}),
         DoneCall(c) => request'[c] = request[c] /\ pc[c] = "committed" /\ pc'[c] = "ended"
  PROVE  DoneStays
<1>1. DoneCall(c) => request[c] # NoRequest
  BY DoneHolds DEF Results, NoRequest
<1> QED
  BY <1>1 DEF DoneStays, Stand, DoneCall, Done

LEMMA NoneMoves == ASSUME Stand({}) PROVE DoneStays
BY DEF DoneStays, Stand, DoneCall

LEMMA CommitWhole ==
  ASSUME Typed, Pairs, Whole, NEW c \in Calls, Commit(c)
  PROVE  Whole'
<1>0. PICK new : new = NewRow(c)
  OBVIOUS
<1> DEFINE q == request[c]
           spawned == Fresh("listed", q.user)
<1>1. /\ Stand({c}) /\ pc[c] = "commit" /\ pc'[c] = "committed" /\ request'[c] = q
      /\ rows' = rows \cup {new} /\ UNCHANGED <<account, jobs, overwritten>>
      /\ q.price \in PriceIds /\ q.user \in Users /\ q.result \in Results
  BY <1>0, CommitStep
<1>2. /\ new.id = c /\ new.price = q.price /\ new.verifier = q.user /\ new.result = q.result
      /\ new.newPrice = IF q.result = "disputed" THEN c ELSE NoPrice
  BY <1>0 DEF NewRow
<1>3. ~ DoneCall(c) /\ c \in PriceIds
  BY <1>1, TablesHold DEF DoneCall, Done
<1>4. price[c].state = "unused" /\ price[q.price].state = "listed"
  BY <1>1, <1>3 DEF Whole, CallsStand, CallStands, Pairs, Locks, Inserted
<1>5. /\ \A p \in PriceIds \ {c} : price'[p].state = price[p].state
      /\ price'[c].state = IF q.result = "disputed" THEN "listed" ELSE "unused"
  <2>1. price' = [price EXCEPT ![q.price] = Voted(@, q.result),
                               ![c] = IF q.result = "disputed" THEN spawned ELSE @]
    BY CommitStep
  <2>2. Voted(price[q.price], q.result).state = price[q.price].state
    BY <1>1, VotedRow, TablesHold DEF Counted
  <2>3. spawned.state = "listed"
    BY DEF Fresh
  <2> HIDE DEF spawned
  <2> QED
    BY <1>1, <1>3, <1>4, <2>1, <2>2, <2>3 DEF Typed, TablesTyped
<1>6. DoneStays
  BY <1>1, <1>3, MoveKeepsDone
<1>7. DoneCall(c)'
  BY <1>1 DEF DoneCall, Done
<1>8. RowsWhole'
  <2>1. ASSUME NEW r \in rows
        PROVE  Made(r)' /\ Linked(r)'
    <3>1. Made(r) /\ Linked(r) /\ r.id \in PriceIds /\ r.id \in Calls
      BY RowHolds, TablesHold DEF Whole, RowsWhole
    <3>2. r.id # c
      BY <1>3, <3>1 DEF Made
    <3>3. Made(r)'
      BY <1>6, <3>1 DEF Made, DoneStays
    <3>4. Linked(r)'
      BY <1>1, <1>5, <3>1, <3>2 DEF Linked
    <3> QED
      BY <3>3, <3>4
  <2>2. Made(new)'
    BY <1>1, <1>2, <1>7 DEF Made
  <2>3. Linked(new)'
    BY <1>2, <1>3, <1>5, VerificationAssumption DEF Linked, PriceIds
  <2> QED
    BY <1>1, <2>1, <2>2, <2>3 DEF RowsWhole
<1>9. CallsStand'
  <2> SUFFICES ASSUME NEW d \in Calls
               PROVE  CallStands(d)'
    BY DEF CallsStand
  <2>1. CASE d = c
    <3>1. price'[q.price].state # "unused"
      BY <1>1, <1>4, <1>5
    <3>2. \E r \in rows' : r.id = c
      BY <1>1, <1>2
    <3> QED
      BY <1>1, <1>5, <1>7, <2>1, <3>1, <3>2 DEF CallStands
  <2>2. CASE d # c
    <3>1. CallStands(d) /\ d \in PriceIds
      BY TablesHold DEF Whole, CallsStand
    <3>2. pc'[d] = pc[d] /\ request'[d] = request[d]
      BY <1>1, <2>2 DEF Stand
    <3>3. /\ pc[d] \in VerifyPCs \cup EditPCs => request[d].price \in PriceIds
          /\ DoneCall(d) => request[d].price \in PriceIds
      BY CallHolds DEF Carries, DoneCall
    <3>4. price'[d].state = price[d].state
      BY <1>5, <2>2, <3>1
    <3>5. pc[d] \in VerifyPCs \cup EditPCs => price'[request[d].price].state # "unused"
      BY <1>4, <1>5, <3>1, <3>3 DEF CallStands
    <3>6. DoneCall(d)' <=> DoneCall(d)
      BY <3>2 DEF DoneCall
    <3>7. Lost(request[d]) /\ DoneCall(d) => Lost(request[d])'
      BY <1>1, <1>4, <1>5, <3>2, <3>3 DEF Lost
    <3> QED
      BY <1>1, <3>1, <3>2, <3>4, <3>5, <3>6, <3>7 DEF CallStands
  <2> QED
    BY <2>1, <2>2
<1>10. JobsStand'
  BY <1>1, <1>6, JobsStay DEF Whole
<1> QED
  BY <1>8, <1>9, <1>10 DEF Whole

LEMMA DeletePriceWhole ==
  ASSUME Typed, Whole, NEW c \in Calls, DeletePrice(c)
  PROVE  Whole'
<1>0. PICK p \in PriceIds : p = request[c].price
  BY DeletePriceStep
<1>1. /\ Stand({c}) /\ pc'[c] = "ended" /\ request'[c] = NoRequest /\ pc[c] \in EditPCs
      /\ UNCHANGED <<account, jobs, overwritten>>
      /\ price' = [price EXCEPT ![p] = Fresh("removed", NoUser)]
      /\ rows' = {Unlinked(r, p) : r \in {s \in rows : s.price # p}}
  BY <1>0, DeletePriceStep
<1>2. ~ DoneCall(c) /\ ~ DoneCall(c)'
  BY <1>1 DEF DoneCall, Done, EditPCs
<1>3. DoneStays
  BY <1>1, <1>2, MoveKeepsDone
<1>4. price'[p].state = "removed" /\ \A x \in PriceIds \ {p} : price'[x].state = price[x].state
  BY <1>1 DEF Typed, TablesTyped, Fresh
<1>5. p # NoPrice
  BY VerificationAssumption DEF PriceIds
<1>6. RowsWhole'
  <2> SUFFICES ASSUME NEW r \in rows, r.price # p
               PROVE  Made(Unlinked(r, p))' /\ Linked(Unlinked(r, p))'
    BY <1>1 DEF RowsWhole
  <2>1. Made(r) /\ Linked(r) /\ r.id \in PriceIds /\ r.id \in Calls
    BY RowHolds, TablesHold DEF Whole, RowsWhole
  <2>2. PICK t : t = Unlinked(r, p)
    OBVIOUS
  <2>3. /\ t.id = r.id /\ t.price = r.price /\ t.verifier = r.verifier /\ t.result = r.result
        /\ t.newPrice = IF r.newPrice = p THEN NoPrice ELSE r.newPrice
    BY <2>2, RowHolds, UnlinkedRow
  <2>4. Made(t)'
    BY <1>3, <2>1, <2>3 DEF Made, DoneStays
  <2>5. Linked(t)'
    BY <1>1, <1>4, <1>5, <2>1, <2>3 DEF Linked
  <2> QED
    BY <2>2, <2>4, <2>5 DEF Unlinked
<1>7. CallsStand'
  <2> SUFFICES ASSUME NEW d \in Calls
               PROVE  CallStands(d)'
    BY DEF CallsStand
  <2>0. CallStands(d) /\ CallStands(c) /\ d \in PriceIds
    BY TablesHold DEF Whole, CallsStand
  <2>a. price[p].state # "unused"
    BY <1>0, <1>1, <2>0 DEF CallStands
  <2>1. price'[d].state # "unused" => DoneCall(d)' /\ request'[d].result = "disputed"
    BY <1>3, <1>4, <2>0, <2>a DEF CallStands, DoneStays
  <2>2. CASE d = c
    BY <1>1, <1>2, <2>1, <2>2 DEF CallStands, VerifyPCs, EditPCs
  <2>3. CASE d # c
    <3>1. pc'[d] = pc[d] /\ request'[d] = request[d] /\ (DoneCall(d)' <=> DoneCall(d))
      BY <1>1, <2>3 DEF Stand, DoneCall
    <3>2. pc[d] \in VerifyPCs \cup EditPCs => price'[request[d].price].state # "unused"
      BY <1>4, <2>0, CallHolds DEF CallStands, Carries
    <3>3. DoneCall(d) => (\E r \in rows' : r.id = d) \/ Lost(request[d])'
      <4> SUFFICES ASSUME DoneCall(d) PROVE (\E r \in rows' : r.id = d) \/ Lost(request[d])'
        OBVIOUS
      <4>1. request[d].price \in PriceIds /\ request[d].user \in Users
        BY DoneHolds
      <4>2. CASE Lost(request[d])
        BY <1>1, <1>4, <3>1, <4>1, <4>2 DEF Lost
      <4>3. ASSUME NEW r \in rows, r.id = d, r.price = p
            PROVE  Lost(request[d])'
        <5>1. request[d].price = p
          BY <4>3 DEF Whole, RowsWhole, Made
        <5> QED
          BY <1>4, <3>1, <5>1 DEF Lost
      <4>4. ASSUME NEW r \in rows, r.id = d, r.price # p
            PROVE  \E s \in rows' : s.id = d
        <5>1. Unlinked(r, p) \in rows' /\ Unlinked(r, p).id = d
          BY <1>1, <4>4, RowHolds, UnlinkedRow
        <5> QED
          BY <5>1
      <4> QED
        BY <2>0, <4>2, <4>3, <4>4 DEF CallStands
    <3> QED
      BY <2>1, <3>1, <3>2, <3>3 DEF CallStands
  <2> QED
    BY <2>2, <2>3
<1>8. JobsStand'
  BY <1>1, <1>3, JobsStay DEF Whole
<1> QED
  BY <1>6, <1>7, <1>8 DEF Whole

LEMMA CloseWhole ==
  ASSUME Typed, Whole, NEW u \in Users, CloseAccount(u)
  PROVE  Whole'
<1>1. /\ Stand({}) /\ UNCHANGED <<jobs, overwritten>>
      /\ account' = [account EXCEPT ![u] = "gone"]
      /\ rows' = {r \in rows : r.verifier # u}
      /\ \A p \in PriceIds : price'[p].state = price[p].state
  BY CloseStep
<1>2. DoneStays
  BY <1>1, NoneMoves
<1>3. account'[u] = "gone" /\ \A x \in Users : account[x] = "gone" => account'[x] = "gone"
  BY <1>1 DEF Typed, TablesTyped
<1>4. RowsWhole'
  <2> SUFFICES ASSUME NEW r \in rows
               PROVE  Made(r)' /\ Linked(r)'
    BY <1>1 DEF RowsWhole
  <2>1. Made(r) /\ Linked(r) /\ r.id \in PriceIds /\ r.id \in Calls
    BY RowHolds, TablesHold DEF Whole, RowsWhole
  <2> QED
    BY <1>1, <1>2, <2>1 DEF Made, Linked, DoneStays
<1>5. CallsStand'
  <2> SUFFICES ASSUME NEW d \in Calls
               PROVE  CallStands(d)'
    BY DEF CallsStand
  <2>1. CallStands(d) /\ d \in PriceIds
    BY TablesHold DEF Whole, CallsStand
  <2>2. pc'[d] = pc[d] /\ request'[d] = request[d] /\ (DoneCall(d)' <=> DoneCall(d))
    BY <1>1 DEF Stand, DoneCall
  <2>3. pc[d] \in VerifyPCs \cup EditPCs => price'[request[d].price].state # "unused"
    BY <1>1, <2>1, CallHolds DEF CallStands, Carries
  <2>4. DoneCall(d) => (\E r \in rows' : r.id = d) \/ Lost(request[d])'
    <3> SUFFICES ASSUME DoneCall(d) PROVE (\E r \in rows' : r.id = d) \/ Lost(request[d])'
      OBVIOUS
    <3>1. request[d].price \in PriceIds /\ request[d].user \in Users
      BY DoneHolds
    <3>2. CASE Lost(request[d])
      BY <1>1, <1>3, <2>2, <3>1, <3>2 DEF Lost
    <3>3. ASSUME NEW r \in rows, r.id = d
          PROVE  r \in rows' \/ Lost(request[d])'
      <4>1. request[d].user = r.verifier
        BY <3>3 DEF Whole, RowsWhole, Made
      <4> QED
        BY <1>1, <1>3, <2>2, <4>1 DEF Lost
    <3> QED
      BY <2>1, <3>2, <3>3 DEF CallStands
  <2> QED
    BY <1>1, <2>1, <2>2, <2>3, <2>4 DEF CallStands
<1>6. JobsStand'
  BY <1>1, <1>2, JobsStay DEF Whole
<1> QED
  BY <1>4, <1>5, <1>6 DEF Whole

LEMMA StartJobsWhole ==
  ASSUME Typed, Whole, NEW c \in Calls, StartJobs(c)
  PROVE  Whole'
<1>1. /\ Stand({c}) /\ pc[c] = "committed" /\ pc'[c] = "ended" /\ request'[c] = request[c]
      /\ jobs' = jobs \cup Deduction(c) /\ UNCHANGED <<account, price, rows, overwritten>>
  BY StartJobsStep
<1>2. DoneStays
  BY <1>1, MoveKeepsDone
<1>3. StatesStay
  BY <1>1 DEF StatesStay
<1>4. DoneCall(c) /\ seen[c].user # request[c].user
  BY <1>1, CallHolds DEF DoneCall, Done, Carries, VerifyPCs
<1>5. \A d \in {c} : /\ DoneCall(d)' => DoneCall(d)
                     /\ pc'[d] \in VerifyPCs \cup EditPCs =>
                          /\ request'[d].price \in PriceIds
                          /\ price[request'[d].price].state # "unused"
  BY <1>1, <1>4 DEF VerifyPCs, EditPCs
<1>6. RowsWhole' /\ CallsStand'
  <2>1. RowsWhole /\ CallsStand /\ rows' = rows /\ {c} \in SUBSET Calls
    BY <1>1 DEF Whole
  <2> QED
    BY <1>1, <1>2, <1>3, <1>5, <2>1, WholeStays
<1>7. JobsStand'
  <2>1. \A j \in Deduction(c) :
          /\ j.verification = c /\ j.price = request[c].price /\ j.user = seen[c].user
          /\ request[c].result = "disputed"
    BY DEF Deduction
  <2> QED
    BY <1>1, <1>2, <1>4, <2>1 DEF Whole, JobsStand, DoneStays
<1> QED
  BY <1>6, <1>7 DEF Whole

LEMMA WholeStart == Init => Whole
<1> SUFFICES ASSUME Init PROVE Whole
  OBVIOUS
<1>1. \A c \in Calls : price[c].state = "unused"
  BY DEF Init, PriceIds, Fresh
<1> QED
  BY <1>1 DEF Init, Whole, RowsWhole, CallsStand, CallStands, JobsStand, DoneCall, Done, VerifyPCs,
     EditPCs

LEMMA WholeStep == Typed /\ Pairs /\ Whole /\ [Next]_vars => Whole'
<1> SUFFICES ASSUME Typed, Pairs, Whole, [Next]_vars PROVE Whole'
  OBVIOUS
<1>0. RowsWhole /\ CallsStand /\ JobsStand
  BY DEF Whole
<1>1. ASSUME NEW c \in Calls, Stand({c}), DoneStays, StatesStay, rows' = rows, jobs' = jobs,
             DoneCall(c)' => DoneCall(c),
             \/ pc'[c] = "ended"
             \/ request'[c].price \in PriceIds /\ price[request'[c].price].state # "unused"
      PROVE  Whole'
  <2>1. \A d \in {c} : /\ DoneCall(d)' => DoneCall(d)
                       /\ pc'[d] \in VerifyPCs \cup EditPCs =>
                            /\ request'[d].price \in PriceIds
                            /\ price[request'[d].price].state # "unused"
    BY <1>1 DEF VerifyPCs, EditPCs
  <2>2. {c} \in SUBSET Calls
    OBVIOUS
  <2>3. RowsWhole' /\ CallsStand'
    BY <1>0, <1>1, <2>1, <2>2, WholeStays
  <2>4. JobsStand'
    BY <1>0, <1>1, JobsStay
  <2> QED
    BY <2>3, <2>4 DEF Whole
<1>2. Still => StatesStay /\ rows' = rows /\ jobs' = jobs
  BY DEF Still, StatesStay
<1>3. ASSUME NEW c \in Calls, pc[c] \in VerifyPCs \cup EditPCs
      PROVE  request[c].price \in PriceIds /\ price[request[c].price].state # "unused"
  BY <1>0, <1>3, CallHolds DEF CallsStand, CallStands, Carries
<1>4. ASSUME NEW c \in Calls, Start(c)
      PROVE  Whole'
  <2>1. /\ Stand({c}) /\ Still /\ pc[c] = "idle" /\ pc'[c] \in {"existing", "reload", "delete"}
        /\ request'[c].price \in PriceIds /\ price[request'[c].price].state = "listed"
    BY <1>4, StartStep
  <2>2. ~ DoneCall(c) /\ ~ DoneCall(c)'
    BY <2>1 DEF DoneCall, Done
  <2>3. DoneStays
    BY <2>1, <2>2, MoveKeepsDone
  <2> QED
    BY <1>1, <1>2, <2>1, <2>2, <2>3
<1>5. ASSUME NEW c \in Calls, Reject(c), pc[c] # "idle", pc[c] # "ended"
      PROVE  Whole'
  <2>1. /\ Stand({c}) /\ Still /\ pc'[c] = "ended"
        /\ request'[c] = IF pc[c] = "committed" THEN request[c] ELSE NoRequest
    BY <1>5, RejectStep
  <2>2. DoneCall(c) => pc[c] = "committed"
    BY <1>5 DEF DoneCall, Done
  <2>3. DoneCall(c)' => DoneCall(c)
    BY <2>1 DEF DoneCall, Done
  <2>4. DoneStays
    BY <2>1, <2>2, MoveKeepsDone
  <2> QED
    BY <1>1, <1>2, <2>1, <2>3, <2>4
<1>6. ASSUME NEW c \in Calls, Stand({c}), Still, request'[c] = request[c],
             pc[c] \in {"existing", "insert", "count", "reload"}, pc'[c] # "committed",
             pc'[c] # "ended"
      PROVE  Whole'
  <2>1. ~ DoneCall(c) /\ ~ DoneCall(c)'
    BY <1>6 DEF DoneCall, Done
  <2>2. DoneStays
    BY <1>6, <2>1, MoveKeepsDone
  <2>3. pc[c] \in VerifyPCs \cup EditPCs
    BY <1>6 DEF VerifyPCs, EditPCs
  <2> QED
    BY <1>1, <1>2, <1>3, <1>6, <2>1, <2>2, <2>3
<1>7. ASSUME NEW c \in Calls, FindExisting(c) \/ InsertVerification(c) \/ CountVote(c), ~ Reject(c)
      PROVE  Whole'
  BY <1>6, <1>7, VerifyStep
<1>8. ASSUME NEW c \in Calls, Reload(c)
      PROVE  Whole'
  BY <1>6, <1>8, ReloadStep
<1>9. ASSUME NEW c \in Calls, WriteEdit(c) \/ Reinsert(c), ~ Reject(c)
      PROVE  Whole'
  <2>1. /\ Stand({c}) /\ pc'[c] = "ended" /\ request'[c] = NoRequest /\ pc[c] \in EditPCs
        /\ UNCHANGED <<account, rows, jobs>> /\ request[c].price \in PriceIds
        /\ \/ UNCHANGED <<price, overwritten>>
           \/ overwritten' = overwritten \cup {request[c].price}
    BY <1>9, EditStep
  <2>2. PICK row \in PriceRow : /\ price' = [price EXCEPT ![request[c].price] = row]
                                /\ row.state \in {price[request[c].price].state, "listed"}
    BY <1>9, EditStep
  <2>3. price[request[c].price].state # "unused"
    BY <1>3, <2>1
  <2>4. StatesStay
    BY <2>1, <2>2, <2>3 DEF StatesStay, Typed, TablesTyped
  <2>5. ~ DoneCall(c) /\ ~ DoneCall(c)'
    BY <2>1 DEF DoneCall, Done, EditPCs
  <2>6. DoneStays
    BY <2>1, <2>5, MoveKeepsDone
  <2> QED
    BY <1>1, <2>1, <2>4, <2>5, <2>6
<1>10. ASSUME Stand({}), StatesStay, rows' = rows, jobs' = jobs
       PROVE  Whole'
  <2>1. DoneStays
    BY <1>10, NoneMoves
  <2>2. RowsWhole' /\ CallsStand'
    BY <1>0, <1>10, <2>1, WholeStays
  <2>3. JobsStand'
    BY <1>0, <1>10, <2>1, JobsStay
  <2> QED
    BY <2>2, <2>3 DEF Whole
<1>11. ASSUME NEW u \in Users, NEW p \in Prices, CreatePrice(u, p)
       PROVE  Whole'
  <2>1. /\ Stand({}) /\ p \in PriceIds \ Calls /\ price[p].state = "unused"
        /\ price' = [price EXCEPT ![p] = Fresh("listed", u)]
        /\ UNCHANGED <<account, rows, jobs, overwritten>>
    BY <1>11, CreatePriceStep
  <2>2. StatesStay
    BY <2>1 DEF StatesStay, Typed, TablesTyped
  <2> QED
    BY <1>10, <2>1, <2>2
<1>12. ASSUME NEW u \in Users, Anonymise(u) \/ AbortClose(u)
       PROVE  Whole'
  <2>1. /\ Stand({}) /\ UNCHANGED <<price, rows, jobs, overwritten>>
        /\ \A x \in Users : account'[x] = "gone" <=> account[x] = "gone"
    BY <1>12, ClosingStep
  <2>2. StatesStay
    BY <2>1 DEF StatesStay
  <2> QED
    BY <1>10, <2>1, <2>2
<1>13. CASE UNCHANGED vars
  BY <1>10, <1>13 DEF vars, Stand, StatesStay
<1> QED
  BY <1>4, <1>5, <1>7, <1>8, <1>9, <1>11, <1>12, <1>13, StartJobsWhole, CommitWhole,
     DeletePriceWhole, CloseWhole, Steps

LEMMA WholeAlways == Spec => []Whole
BY WholeStart, WholeStep, TypedAlways, PairsAlways, PTL DEF Spec

\* A dispute and the price it spawned are there together, or one of them was deleted
\* or brought back by an edit since: the commit makes both visible at once.
THEOREM DisputesWhole == Spec => []DisputeIsWhole
BY WholeAlways, TypedAlways, WholeMeans, PTL

\* A deduction started stands on a dispute somebody else committed of that price: it is
\* started after the commit, from a request that no later statement changes.
THEOREM DeductionsStand == Spec => []DeductionHasDispute
BY WholeAlways, TypedAlways, WholeMeans, PTL

-----------------------------------------------------------------------------
(* Counters. *)

Ballot(R, p, S) == {r \in R : r.price = p /\ r.result \in S}

\* The counters of a listed row against the numbers of its verifications.
Covered(row, all, yes, no, exact) ==
  row.state = "listed" =>
    /\ row.verificationCount = row.confirmedCount + row.disputedCount
    /\ row.confirmedCount >= yes
    /\ row.disputedCount >= no
    /\ exact => row.verificationCount = all

NobodyGone == \A u \in Users : account[u] # "gone"

CoveredAt(p) ==
  Covered(price[p], Votes(p, Results), Votes(p, {"confirmed"}), Votes(p, {"disputed"}), NobodyGone)

Counts == IsFiniteSet(rows) /\ \A p \in PriceIds \ overwritten : CoveredAt(p)

LEMMA CountsMeans == Counts => CountersCoverVotes
BY DEF Counts, CoveredAt, Covered, NobodyGone, CountersCoverVotes

LEMMA VotesAreBallot ==
  ASSUME NEW p, NEW S
  PROVE  /\ Votes(p, S) = Cardinality(Ballot(rows, p, S))
         /\ Votes(p, S)' = Cardinality(Ballot(rows', p, S))
BY DEF Votes, Ballot

LEMMA BallotFinite ==
  ASSUME NEW R, IsFiniteSet(R), NEW p, NEW S
  PROVE  IsFiniteSet(Ballot(R, p, S)) /\ Cardinality(Ballot(R, p, S)) \in Nat
<1>1. Ballot(R, p, S) \in SUBSET R
  BY DEF Ballot
<1> QED
  BY <1>1, FS_Subset, FS_CardinalityType

LEMMA VotesNat ==
  ASSUME IsFiniteSet(rows), NEW p, NEW S
  PROVE  Votes(p, S) \in Nat
BY VotesAreBallot, BallotFinite

\* A price nobody may verify has no votes.
LEMMA NoVotes ==
  ASSUME Pairs, NEW p, price[p].state # "listed", NEW S
  PROVE  Votes(p, S) = 0
<1>1. Ballot(rows, p, S) = {}
  BY DEF Ballot, Pairs, RowsReferToLive
<1> QED
  BY <1>1, VotesAreBallot, FS_EmptySet

\* Counters and votes of a price stay as they are; nobody comes back.
LEMMA CoveredStays ==
  ASSUME NEW p, CoveredAt(p), NobodyGone' => NobodyGone,
         price'[p].state = price[p].state,
         price'[p].verificationCount = price[p].verificationCount,
         price'[p].confirmedCount = price[p].confirmedCount,
         price'[p].disputedCount = price[p].disputedCount,
         \A S : Votes(p, S)' = Votes(p, S)
  PROVE  CoveredAt(p)'
<1>1. /\ Votes(p, Results)' = Votes(p, Results)
      /\ Votes(p, {"confirmed"})' = Votes(p, {"confirmed"})
      /\ Votes(p, {"disputed"})' = Votes(p, {"disputed"})
  BY DEF Results
<1> QED
  BY <1>1 DEF CoveredAt, Covered, Results

LEMMA VotesStay == ASSUME rows' = rows PROVE \A p, S : Votes(p, S)' = Votes(p, S)
BY DEF Votes

LEMMA CommitCounts ==
  ASSUME Typed, Pairs, Whole, Counts, NEW c \in Calls, Commit(c)
  PROVE  Counts'
<1> PICK q : q = request[c]
  OBVIOUS
<1> PICK new : new = NewRow(c)
  OBVIOUS
<1> PICK v : v = Voted(price[q.price], q.result)
  OBVIOUS
<1> PICK f : f = Fresh("listed", q.user)
  OBVIOUS
<1>1. /\ pc[c] = "commit" /\ UNCHANGED <<account, overwritten>> /\ rows' = rows \cup {new}
      /\ q.price \in PriceIds /\ q.user \in Users /\ q.result \in Results
      /\ price' = [price EXCEPT ![q.price] = Voted(@, q.result),
                                ![c] = IF q.result = "disputed" THEN Fresh("listed", q.user) ELSE @]
  BY CommitStep
<1>2. CallStands(c) /\ ~ DoneCall(c)
  BY <1>1 DEF Whole, CallsStand, DoneCall, Done
<1>3. price[c].state = "unused" /\ price[q.price].state # "unused" /\ q.price # c /\ c \in PriceIds
  BY <1>1, <1>2, TablesHold DEF CallStands, VerifyPCs
<1>4. new.id = c /\ new.price = q.price /\ new.result = q.result
  BY DEF NewRow
<1>5. new \notin rows
  BY <1>2, <1>4 DEF Whole, RowsWhole, Made
<1>6. /\ price'[q.price] = v
      /\ price'[c] = IF q.result = "disputed" THEN f ELSE price[c]
      /\ \A p \in PriceIds : p # q.price /\ p # c => price'[p] = price[p]
  BY <1>1, <1>3 DEF Typed, TablesTyped
<1>7. ASSUME NEW p, NEW S
      PROVE  Votes(p, S)' = IF p = q.price /\ q.result \in S THEN Votes(p, S) + 1 ELSE Votes(p, S)
  <2>1. Ballot(rows', p, S) = IF p = q.price /\ q.result \in S
                              THEN Ballot(rows, p, S) \cup {new} ELSE Ballot(rows, p, S)
    BY <1>1, <1>4 DEF Ballot
  <2>2. new \notin Ballot(rows, p, S)
    BY <1>5 DEF Ballot
  <2>3. IsFiniteSet(Ballot(rows, p, S))
    BY BallotFinite DEF Counts
  <2> QED
    BY <2>1, <2>2, <2>3, VotesAreBallot, FS_AddElement
<1>8. IsFiniteSet(rows')
  BY <1>1, FS_AddElement DEF Counts
<1> SUFFICES ASSUME NEW p \in PriceIds, p \notin overwritten PROVE CoveredAt(p)'
  BY <1>1, <1>8 DEF Counts
<1>9. CoveredAt(p) /\ NobodyGone' = NobodyGone
  BY <1>1 DEF Counts, NobodyGone
<1>10. \A S : Votes(p, S) \in Nat
  BY VotesNat DEF Counts
<1>11. CASE p = q.price
  <2>1. Counted(v, price[p], q.result) /\ price[p] \in PriceRow
    BY <1>1, <1>11, VotedRow, TablesHold
  <2>2. /\ Votes(p, Results)' = Votes(p, Results) + 1
        /\ Votes(p, {"confirmed"})' = Votes(p, {"confirmed"}) + (IF q.result = "confirmed" THEN 1 ELSE 0)
        /\ Votes(p, {"disputed"})' = Votes(p, {"disputed"}) + (IF q.result = "disputed" THEN 1 ELSE 0)
    <3>1. Votes(p, Results)' = Votes(p, Results) + 1
      BY <1>1, <1>7, <1>11
    <3>2. Votes(p, {"confirmed"})' = Votes(p, {"confirmed"}) + (IF q.result = "confirmed" THEN 1 ELSE 0)
      BY <1>7, <1>10, <1>11
    <3>3. Votes(p, {"disputed"})' = Votes(p, {"disputed"}) + (IF q.result = "disputed" THEN 1 ELSE 0)
      BY <1>7, <1>10, <1>11
    <3> QED
      BY <3>1, <3>2, <3>3
  <2>3. /\ price[p].verificationCount \in Nat /\ price[p].confirmedCount \in Nat
        /\ price[p].disputedCount \in Nat
    BY <2>1 DEF PriceRow
  <2>4. price'[p] = v /\ q.result \in {"confirmed", "disputed"}
    BY <1>1, <1>6, <1>11 DEF Results
  <2> QED
    BY <1>9, <1>10, <2>1, <2>2, <2>3, <2>4 DEF CoveredAt, Covered, Counted
<1>12. CASE p = c
  <2>1. \A S : Votes(p, S)' = 0
    BY <1>3, <1>7, <1>12, NoVotes
  <2>2. f.verificationCount = 0 /\ f.confirmedCount = 0 /\ f.disputedCount = 0
    BY DEF Fresh
  <2>3. price'[p] = f \/ price'[p].state = "unused"
    BY <1>3, <1>6, <1>12
  <2>4. Votes(p, Results)' = 0 /\ Votes(p, {"confirmed"})' = 0 /\ Votes(p, {"disputed"})' = 0
    BY <2>1 DEF Results
  <2> QED
    BY <2>2, <2>3, <2>4 DEF CoveredAt, Covered, Results
<1>13. CASE p # q.price /\ p # c
  <2>1. price'[p] = price[p]
    BY <1>6, <1>13
  <2>2. \A S : Votes(p, S)' = Votes(p, S)
    BY <1>7, <1>13
  <2> QED
    BY <1>9, <2>1, <2>2, CoveredStays
<1> QED
  BY <1>11, <1>12, <1>13

LEMMA DeletePriceCounts ==
  ASSUME Typed, Pairs, Counts, NEW c \in Calls, DeletePrice(c)
  PROVE  Counts'
<1>0. PICK p \in PriceIds : p = request[c].price
  BY DeletePriceStep
<1>1. /\ UNCHANGED <<account, overwritten>>
      /\ price' = [price EXCEPT ![p] = Fresh("removed", NoUser)]
      /\ rows' = {Unlinked(r, p) : r \in {s \in rows : s.price # p}}
  BY <1>0, DeletePriceStep
<1>2. price'[p].state = "removed" /\ \A x \in PriceIds \ {p} : price'[x] = price[x]
  BY <1>1 DEF Typed, TablesTyped, Fresh
<1>3. \A r \in rows : /\ Unlinked(r, p).price = r.price /\ Unlinked(r, p).verifier = r.verifier
                      /\ Unlinked(r, p).result = r.result
  BY RowHolds, UnlinkedRow
<1>4. ASSUME NEW A, A \subseteq rows, NEW B, B = {Unlinked(r, p) : r \in A}
      PROVE  IsFiniteSet(B) /\ Cardinality(B) = Cardinality(A)
  <2> DEFINE g == [r \in A |-> Unlinked(r, p)]
  <2>1. g \in Bijection(A, B)
    <3>1. g \in [A -> B] /\ \A t \in B : \E r \in A : g[r] = t
      BY <1>4
    <3>2. ASSUME NEW r \in A, NEW s \in A, g[r] = g[s] PROVE r = s
      <4>1. Unlinked(r, p) = Unlinked(s, p)
        BY <3>2
      <4>2. r.price = s.price /\ r.verifier = s.verifier
        BY <1>3, <1>4, <4>1
      <4> QED
        BY <1>4, <4>2 DEF Pairs, OneVerificationPerUser
    <3> HIDE DEF g
    <3>3. g \in Surjection(A, B)
      BY <3>1 DEF Surjection
    <3>4. g \in Injection(A, B)
      BY <3>1, <3>2 DEF Injection, IsInjective
    <3> QED
      BY <3>3, <3>4 DEF Bijection
  <2>2. IsFiniteSet(A)
    BY <1>4, FS_Subset DEF Counts
  <2> QED
    BY <2>1, <2>2, FS_Bijection DEF ExistsBijection
<1>5. IsFiniteSet(rows')
  BY <1>1, <1>4
<1>6. ASSUME NEW x, x # p, NEW S
      PROVE  Votes(x, S)' = Votes(x, S)
  <2>1. Ballot(rows', x, S) = {Unlinked(r, p) : r \in Ballot(rows, x, S)}
    BY <1>1, <1>3, <1>6 DEF Ballot
  <2>2. Ballot(rows, x, S) \subseteq rows
    BY DEF Ballot
  <2> QED
    BY <1>4, <2>1, <2>2, VotesAreBallot
<1> SUFFICES ASSUME NEW x \in PriceIds, x \notin overwritten PROVE CoveredAt(x)'
  BY <1>1, <1>5 DEF Counts
<1>7. CASE x = p
  BY <1>2, <1>7 DEF CoveredAt, Covered
<1>8. CASE x # p
  <2>1. CoveredAt(x) /\ (NobodyGone' => NobodyGone)
    BY <1>1 DEF Counts, NobodyGone
  <2>2. price'[x] = price[x]
    BY <1>2, <1>8
  <2>3. \A S : Votes(x, S)' = Votes(x, S)
    BY <1>6, <1>8
  <2> QED
    BY <2>1, <2>2, <2>3, CoveredStays
<1> QED
  BY <1>7, <1>8

LEMMA CloseCounts ==
  ASSUME Typed, Counts, NEW u \in Users, CloseAccount(u)
  PROVE  Counts'
<1>1. /\ overwritten' = overwritten /\ account' = [account EXCEPT ![u] = "gone"]
      /\ rows' = {r \in rows : r.verifier # u}
      /\ \A p \in PriceIds :
           /\ price'[p].state = price[p].state
           /\ price'[p].verificationCount = price[p].verificationCount
           /\ price'[p].confirmedCount = price[p].confirmedCount
           /\ price'[p].disputedCount = price[p].disputedCount
  BY CloseStep
<1>2. ~ NobodyGone'
  BY <1>1 DEF Typed, TablesTyped, NobodyGone
<1>3. IsFiniteSet(rows) /\ IsFiniteSet(rows')
  BY <1>1, FS_Subset DEF Counts
<1>4. ASSUME NEW p, NEW S
      PROVE  Votes(p, S)' <= Votes(p, S) /\ Votes(p, S)' \in Nat /\ Votes(p, S) \in Nat
  <2>1. Ballot(rows', p, S) \in SUBSET Ballot(rows, p, S)
    BY <1>1 DEF Ballot
  <2> QED
    BY <1>3, <2>1, BallotFinite, VotesAreBallot, FS_Subset
<1> SUFFICES ASSUME NEW p \in PriceIds, p \notin overwritten PROVE CoveredAt(p)'
  BY <1>1, <1>3 DEF Counts
<1>5. CoveredAt(p)
  BY DEF Counts
<1>6. /\ price[p].confirmedCount \in Nat /\ price[p].disputedCount \in Nat
  BY TablesHold DEF PriceRow
<1>7. /\ Votes(p, {"confirmed"})' <= Votes(p, {"confirmed"}) /\ Votes(p, {"confirmed"})' \in Nat
      /\ Votes(p, {"disputed"})' <= Votes(p, {"disputed"}) /\ Votes(p, {"disputed"})' \in Nat
      /\ Votes(p, {"confirmed"}) \in Nat /\ Votes(p, {"disputed"}) \in Nat
  BY <1>4
<1> QED
  BY <1>1, <1>2, <1>5, <1>6, <1>7 DEF CoveredAt, Covered

LEMMA CreatePriceCounts ==
  ASSUME Typed, Pairs, Counts, NEW u \in Users, NEW p \in Prices, CreatePrice(u, p)
  PROVE  Counts'
<1>1. /\ p \in PriceIds /\ price[p].state = "unused"
      /\ price' = [price EXCEPT ![p] = Fresh("listed", u)]
      /\ UNCHANGED <<account, rows, overwritten>>
  BY CreatePriceStep
<1> SUFFICES ASSUME NEW x \in PriceIds, x \notin overwritten PROVE CoveredAt(x)'
  BY <1>1 DEF Counts
<1>2. \A S : Votes(x, S)' = Votes(x, S)
  BY <1>1, VotesStay
<1>3. CASE x = p
  <2> PICK f : f = Fresh("listed", u)
    OBVIOUS
  <2>1. price'[x] = f
    BY <1>1, <1>3 DEF Typed, TablesTyped
  <2>2. f.verificationCount = 0 /\ f.confirmedCount = 0 /\ f.disputedCount = 0
    BY DEF Fresh
  <2>3. \A S : Votes(x, S) = 0
    BY <1>1, <1>3, NoVotes
  <2>4. Votes(x, Results)' = 0 /\ Votes(x, {"confirmed"})' = 0 /\ Votes(x, {"disputed"})' = 0
    BY <1>2, <2>3 DEF Results
  <2> QED
    BY <2>1, <2>2, <2>4 DEF CoveredAt, Covered, Results
<1>4. CASE x # p
  <2>1. price'[x] = price[x]
    BY <1>1, <1>4 DEF Typed, TablesTyped
  <2>2. CoveredAt(x) /\ (NobodyGone' => NobodyGone)
    BY <1>1 DEF Counts, NobodyGone
  <2> QED
    BY <1>2, <2>1, <2>2, CoveredStays
<1> QED
  BY <1>3, <1>4

LEMMA CountsStart == Init => Counts
<1> SUFFICES ASSUME Init PROVE Counts
  OBVIOUS
<1>1. \A p \in PriceIds : price[p].state = "unused"
  BY DEF Init, Fresh
<1> QED
  BY <1>1, FS_EmptySet DEF Init, Counts, CoveredAt, Covered

LEMMA CountsStep == Typed /\ Pairs /\ Whole /\ Counts /\ [Next]_vars => Counts'
<1> SUFFICES ASSUME Typed, Pairs, Whole, Counts, [Next]_vars PROVE Counts'
  OBVIOUS
<1>1. ASSUME UNCHANGED <<price, rows, overwritten>>, NobodyGone' => NobodyGone
      PROVE  Counts'
  <2>1. \A p \in PriceIds \ overwritten : CoveredAt(p)'
    BY <1>1, VotesStay, CoveredStays DEF Counts
  <2> QED
    BY <1>1, <2>1 DEF Counts
<1>2. Still => Counts'
  BY <1>1 DEF Still, NobodyGone
<1>3. ASSUME NEW c \in Calls, Start(c)
      PROVE  Counts'
  BY <1>2, <1>3, StartStep
<1>4. ASSUME NEW c \in Calls, Reject(c), pc[c] # "idle", pc[c] # "ended"
      PROVE  Counts'
  BY <1>2, <1>4, RejectStep
<1>5. ASSUME NEW c \in Calls, FindExisting(c) \/ InsertVerification(c) \/ CountVote(c), ~ Reject(c)
      PROVE  Counts'
  BY <1>2, <1>5, VerifyStep
<1>6. ASSUME NEW c \in Calls, Reload(c)
      PROVE  Counts'
  BY <1>2, <1>6, ReloadStep
<1>7. ASSUME NEW c \in Calls, StartJobs(c)
      PROVE  Counts'
  BY <1>1, <1>7, StartJobsStep DEF NobodyGone
<1>8. ASSUME NEW c \in Calls, WriteEdit(c) \/ Reinsert(c), ~ Reject(c)
      PROVE  Counts'
  <2>1. /\ UNCHANGED <<account, rows>> /\ request[c].price \in PriceIds
        /\ \/ UNCHANGED <<price, overwritten>>
           \/ overwritten' = overwritten \cup {request[c].price}
        /\ \E row \in PriceRow : price' = [price EXCEPT ![request[c].price] = row]
    BY <1>8, EditStep
  <2>2. NobodyGone' => NobodyGone
    BY <2>1 DEF NobodyGone
  <2>3. CASE UNCHANGED <<price, overwritten>>
    BY <1>1, <2>1, <2>2, <2>3
  <2>4. CASE overwritten' = overwritten \cup {request[c].price}
    <3> SUFFICES ASSUME NEW p \in PriceIds, p \notin overwritten' PROVE CoveredAt(p)'
      BY <2>1 DEF Counts
    <3>1. price'[p] = price[p]
      BY <2>1, <2>4 DEF Typed, TablesTyped
    <3>2. CoveredAt(p)
      BY <2>4 DEF Counts
    <3> QED
      BY <2>1, <2>2, <3>1, <3>2, VotesStay, CoveredStays
  <2> QED
    BY <2>1, <2>3, <2>4
<1>9. ASSUME NEW u \in Users, Anonymise(u) \/ AbortClose(u)
      PROVE  Counts'
  BY <1>1, <1>9, ClosingStep DEF NobodyGone
<1>10. CASE UNCHANGED vars
  BY <1>1, <1>10 DEF vars, NobodyGone
<1> QED
  BY <1>3, <1>4, <1>5, <1>6, <1>7, <1>8, <1>9, <1>10, CommitCounts, DeletePriceCounts,
     CreatePriceCounts, CloseCounts, Steps

\* The counters of a listed price no edit has written cover its verifications, and equal
\* them while no account is gone: each commit adds one row and one vote to the row as it
\* is then, a deletion takes the price or the account with the votes.
THEOREM Counters == Spec => []CountersCoverVotes
<1>1. Spec => []Counts
  BY CountsStart, CountsStep, TypedAlways, PairsAlways, WholeAlways, PTL DEF Spec
<1> QED
  BY <1>1, CountsMeans, PTL
=============================================================================
