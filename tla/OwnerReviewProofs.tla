--------------------------- MODULE OwnerReviewProofs ---------------------------
(***************************************************************************)
(* The safety of OwnerReview for every set of users, stores, applications, *)
(* flyers and requests.                                                    *)
(*                                                                         *)
(* The services hold no lock between their statements, so what a request   *)
(* carries may be old.  The proofs rest on what cannot become untrue of    *)
(* it: whose application an id is, whose flyer, and, where no write of     *)
(* another save fell between, which columns still differ.                  *)
(***************************************************************************)
EXTENDS OwnerReview, TLAPS

\* The statements of a request that works on an application, and on a flyer.
AppPCs == {"reload", "write", "reinsert", "delete", "post", "edit", "remove"}
SavePCs == {"reload", "write", "reinsert"}
FlyerPCs == {"flyerReload", "flyerWrite", "flyerReinsert", "flyerDelete"}

\* The columns of a review agree.
Coherent(e) ==
  /\ e.reviewedAt <=> e.status # "pending"
  /\ e.rejectionReason <=> e.status = "rejected"

TablesTyped ==
  /\ account \in [Users -> {"live", "gone"}]
  /\ app \in [AppIds -> AppRow]
  /\ \A a \in AppIds : app[a].state = "stored" => app[a].user \in Users /\ app[a].store \in Stores
  /\ flyer \in [FlyerIds -> FlyerRow]
  /\ judged \in [AppIds -> SUBSET Stores]
  /\ raced \subseteq AppIds

LocalsTyped ==
  /\ pc \in [Calls -> PCs]
  /\ id \in [Calls -> AppIds \cup {NoApp}]
  /\ seen \in [Calls -> AppRow]
  /\ page \in [Calls -> FlyerIds \cup {NoFlyer}]
  /\ draft \in [Calls -> FlyerRow]
  /\ dirty \in [Calls -> SUBSET (AppColumns \cup {"application"})]

\* What a request carries at the statement it has reached: the application a and
\* what it makes of it, the flyer f and what it makes of that.
Carries(where, a, e, f, d) ==
  /\ where = "idle" => a = NoApp /\ f = NoFlyer /\ d = NoDraft
  /\ where \in AppPCs => a \in AppIds
  /\ where = "insert" => a = NoApp /\ e.user \in Users
  /\ where \in SavePCs \cup {"insert"} =>
       e.state = "stored" /\ e.store \in Stores /\ Coherent(e)
  /\ where \in {"post", "edit", "remove"} => e.user \in Users
  /\ where \in FlyerPCs => f \in FlyerIds /\ d.state = "stored"

CallsOK == \A c \in Calls : Carries(pc[c], id[c], seen[c], page[c], draft[c])

Typed == TablesTyped /\ LocalsTyped /\ CallsOK

LEMMA TypedMeansTypeOK == Typed => TypeOK
BY DEF Typed, TablesTyped, LocalsTyped, TypeOK

-----------------------------------------------------------------------------
(* Rows. *)

\* What an UPDATE of the columns D of an entity makes of a row.
Updated(m, row, e, D) ==
  /\ m.state = row.state /\ m.user = row.user
  /\ m.store = (IF "store" \in D THEN e.store ELSE row.store)
  /\ m.status = (IF "status" \in D THEN e.status ELSE row.status)
  /\ m.rejectionReason = (IF "rejectionReason" \in D THEN e.rejectionReason
                                                     ELSE row.rejectionReason)
  /\ m.reviewedAt = (IF "reviewedAt" \in D THEN e.reviewedAt ELSE row.reviewedAt)

LEMMA UpdatedRow ==
  ASSUME NEW row \in AppRow, NEW e \in AppRow,
         NEW D \in SUBSET (AppColumns \cup {"application"}),
         NEW m, m = [k \in DOMAIN row |-> IF k \in D THEN e[k] ELSE row[k]]
  PROVE  m \in AppRow /\ Updated(m, row, e, D)
<1>1. DOMAIN row = {"state", "user", "store", "status", "rejectionReason", "reviewedAt"}
  BY DEF AppRow
<1>2. \A k \in DOMAIN row : m[k] = IF k \in D THEN e[k] ELSE row[k]
  BY Zenon
<1>3. "state" \notin D /\ "user" \notin D
  BY DEF AppColumns
<1>4. m.state = row.state /\ m.user = row.user
  BY <1>1, <1>2, <1>3, Zenon
<1>5. m.store = (IF "store" \in D THEN e.store ELSE row.store)
  BY <1>1, <1>2, Zenon
<1>6. m.status = (IF "status" \in D THEN e.status ELSE row.status)
  BY <1>1, <1>2, Zenon
<1>7. m.rejectionReason = (IF "rejectionReason" \in D THEN e.rejectionReason
                                                      ELSE row.rejectionReason)
  BY <1>1, <1>2, Zenon
<1>8. m.reviewedAt = (IF "reviewedAt" \in D THEN e.reviewedAt ELSE row.reviewedAt)
  BY <1>1, <1>2, Zenon
<1>9. Updated(m, row, e, D)
  BY <1>4, <1>5, <1>6, <1>7, <1>8, Zenon DEF Updated
<1>10. /\ m.state \in States /\ m.user \in Users \cup {NoUser}
       /\ m.store \in Stores \cup {NoStore} /\ m.status \in Statuses
  BY <1>4, <1>5, <1>6 DEF AppRow
<1>11. m.rejectionReason \in BOOLEAN /\ m.reviewedAt \in BOOLEAN
  BY <1>7, <1>8 DEF AppRow
<1>12. DOMAIN m = DOMAIN row /\ m = [k \in DOMAIN m |-> m[k]]
  BY Zenon
<1>13. m = [state |-> m.state, user |-> m.user, store |-> m.store, status |-> m.status,
            rejectionReason |-> m.rejectionReason, reviewedAt |-> m.reviewedAt]
  BY <1>1, <1>12
<1>14. m \in AppRow
  BY <1>10, <1>11, <1>13, Zenon DEF AppRow
<1> QED
  BY <1>9, <1>14

\* The same of a flyer's row: only its application is ever written.
UpdatedPage(m, row, e, D) ==
  /\ m.state = row.state /\ m.author = row.author
  /\ m.application = IF "application" \in D THEN e.application ELSE row.application

LEMMA UpdatedFlyer ==
  ASSUME NEW row \in FlyerRow, NEW e \in FlyerRow,
         NEW D \in SUBSET (AppColumns \cup {"application"}),
         NEW m, m = [k \in DOMAIN row |-> IF k \in D THEN e[k] ELSE row[k]]
  PROVE  m \in FlyerRow /\ UpdatedPage(m, row, e, D)
<1>1. DOMAIN row = {"state", "application", "author"}
  BY DEF FlyerRow
<1>2. "state" \notin D /\ "author" \notin D
  BY DEF AppColumns
<1>3. /\ m.state = row.state /\ m.author = row.author
      /\ m.application = IF "application" \in D THEN e.application ELSE row.application
  BY <1>1, <1>2
<1>4. m = [state |-> m.state, application |-> m.application, author |-> m.author]
  BY <1>1
<1>5. m \in FlyerRow
  BY <1>3, <1>4 DEF FlyerRow
<1> QED
  BY <1>3, <1>5, Zenon DEF UpdatedPage

\* The rows and entities the code builds.
LEMMA PendingRow ==
  ASSUME NEW state \in States, NEW u \in Users \cup {NoUser}, NEW s \in Stores \cup {NoStore}
  PROVE  /\ Pending(state, u, s) \in AppRow /\ Coherent(Pending(state, u, s))
         /\ Pending(state, u, s).state = state /\ Pending(state, u, s).user = u
         /\ Pending(state, u, s).store = s
BY DEF Pending, AppRow, Statuses, Coherent

LEMMA FlyerMade ==
  ASSUME NEW state \in States, NEW a \in AppIds \cup {NoApp}, NEW u \in Users \cup {NoUser}
  PROVE  /\ Flyer(state, a, u) \in FlyerRow /\ Flyer(state, a, u).state = state
         /\ Flyer(state, a, u).application = a /\ Flyer(state, a, u).author = u
BY DEF Flyer, FlyerRow

-----------------------------------------------------------------------------
(* Types. *)

\* The end of a request.
LEMMA EndTyped ==
  ASSUME Typed, NEW c \in Calls, End(c)
  PROVE  LocalsTyped' /\ CallsOK'
<1>1. NoEntity \in AppRow /\ NoDraft \in FlyerRow
  BY PendingRow, FlyerMade DEF NoEntity, NoDraft, States
<1>2. LocalsTyped'
  BY <1>1 DEF End, Typed, LocalsTyped, PCs
<1>3. ASSUME NEW d \in Calls \ {c}
      PROVE  /\ pc'[d] = pc[d] /\ id'[d] = id[d] /\ seen'[d] = seen[d]
             /\ page'[d] = page[d] /\ draft'[d] = draft[d]
  BY DEF End, Typed, LocalsTyped
<1>4. pc'[c] = "idle" /\ id'[c] = NoApp /\ page'[c] = NoFlyer /\ draft'[c] = NoDraft
  BY DEF End, Typed, LocalsTyped
<1>5. Carries("idle", NoApp, seen'[c], NoFlyer, NoDraft)
  BY DEF Carries, AppPCs, SavePCs, FlyerPCs
<1> QED
  BY <1>2, <1>3, <1>4, <1>5 DEF Typed, CallsOK

\* A request goes on, or starts: the tables are what they were.
LEMMA CallTyped ==
  ASSUME Typed, NEW c \in Calls, NEW where \in PCs, NEW a \in AppIds \cup {NoApp},
         NEW e \in AppRow, NEW f \in FlyerIds \cup {NoFlyer}, NEW d \in FlyerRow,
         NEW D \in SUBSET (AppColumns \cup {"application"}),
         Carries(where, a, e, f, d),
         pc' = [pc EXCEPT ![c] = where], id' = [id EXCEPT ![c] = a],
         seen' = [seen EXCEPT ![c] = e], page' = [page EXCEPT ![c] = f],
         draft' = [draft EXCEPT ![c] = d], dirty' = [dirty EXCEPT ![c] = D],
         UNCHANGED <<account, app, flyer, judged, raced>>
  PROVE  Typed'
<1>1. TablesTyped'
  BY DEF Typed, TablesTyped
<1>2. LocalsTyped'
  BY DEF Typed, LocalsTyped
<1>3. ASSUME NEW x \in Calls \ {c}
      PROVE  /\ pc'[x] = pc[x] /\ id'[x] = id[x] /\ seen'[x] = seen[x]
             /\ page'[x] = page[x] /\ draft'[x] = draft[x]
  BY DEF Typed, LocalsTyped
<1>4. pc'[c] = where /\ id'[c] = a /\ seen'[c] = e /\ page'[c] = f /\ draft'[c] = d
  BY DEF Typed, LocalsTyped
<1> QED
  BY <1>1, <1>2, <1>3, <1>4 DEF Typed, CallsOK

LEMMA LoadAppTyped ==
  ASSUME Typed, NEW c \in Calls, NEW where \in AppPCs, NEW a \in AppIds, NEW e \in AppRow,
         Carries(where, a, e, page[c], draft[c]), LoadApp(c, where, a, e)
  PROVE  Typed'
<1>1. /\ page' = [page EXCEPT ![c] = page[c]] /\ draft' = [draft EXCEPT ![c] = draft[c]]
      /\ dirty' = [dirty EXCEPT ![c] = dirty[c]]
  BY DEF Typed, LocalsTyped, LoadApp
<1>2. /\ page[c] \in FlyerIds \cup {NoFlyer} /\ draft[c] \in FlyerRow
      /\ dirty[c] \in SUBSET (AppColumns \cup {"application"}) /\ where \in PCs
  BY DEF Typed, LocalsTyped, AppPCs, PCs
<1>3. /\ pc' = [pc EXCEPT ![c] = where] /\ id' = [id EXCEPT ![c] = a]
      /\ seen' = [seen EXCEPT ![c] = e]
      /\ UNCHANGED <<account, app, flyer, judged, raced>>
  BY Zenon DEF LoadApp, appVars
<1>4. a \in AppIds \cup {NoApp}
  OBVIOUS
<1> QED
  BY <1>1, <1>2, <1>3, <1>4, CallTyped, Zenon

LEMMA StartTyped ==
  ASSUME Typed, NEW c \in Calls, Start(c)
  PROVE  Typed'
<1>i. pc[c] = "idle"
  BY Zenon DEF Start, StartApplication, UpdateApplication, RemoveApplication, Approve,
               RejectApplication, ApprovedApplication, FindFlyer, LoadApp, At
<1>0. /\ id[c] = NoApp /\ page[c] = NoFlyer /\ draft[c] = NoDraft /\ NoDraft \in FlyerRow
      /\ seen[c] \in AppRow /\ dirty[c] \in SUBSET (AppColumns \cup {"application"})
  BY <1>i DEF Typed, LocalsTyped, CallsOK, Carries
<1>a. \A a \in AppIds : app[a] \in AppRow /\
        (app[a].state = "stored" => app[a].user \in Users /\ app[a].store \in Stores)
  BY DEF Typed, TablesTyped
<1>p. "reload" \in AppPCs /\ "delete" \in AppPCs
  BY DEF AppPCs
<1>1. ASSUME NEW u \in Users, NEW s \in Stores, StartApplication(c, u, s)
      PROVE  Typed'
  <2> DEFINE e == Pending("stored", u, s)
  <2>1. e \in AppRow /\ e.state = "stored" /\ e.user = u /\ e.store = s /\ Coherent(e)
    BY PendingRow DEF States
  <2> HIDE DEF e
  <2>2. Carries("insert", NoApp, e, NoFlyer, NoDraft)
    BY <2>1 DEF Carries, AppPCs, SavePCs, FlyerPCs
  <2>3. /\ pc' = [pc EXCEPT ![c] = "insert"] /\ seen' = [seen EXCEPT ![c] = e]
        /\ UNCHANGED <<account, id, page, draft, dirty, app, judged, raced, flyer>>
    BY <1>1 DEF StartApplication, e, appVars
  <2>4. /\ id' = [id EXCEPT ![c] = NoApp] /\ page' = [page EXCEPT ![c] = NoFlyer]
        /\ draft' = [draft EXCEPT ![c] = NoDraft] /\ dirty' = [dirty EXCEPT ![c] = dirty[c]]
        /\ "insert" \in PCs
    BY <1>0, <2>3 DEF Typed, LocalsTyped, PCs
  <2>5. /\ NoApp \in AppIds \cup {NoApp} /\ NoFlyer \in FlyerIds \cup {NoFlyer}
        /\ UNCHANGED <<account, app, flyer, judged, raced>>
    BY <2>3
  <2>6. pc' = [pc EXCEPT ![c] = "insert"] /\ seen' = [seen EXCEPT ![c] = e]
    BY <2>3
  <2>7. e \in AppRow /\ NoDraft \in FlyerRow
        /\ dirty[c] \in SUBSET (AppColumns \cup {"application"})
    BY <1>0, <2>1
  <2> QED
    BY <2>2, <2>4, <2>5, <2>6, <2>7, CallTyped, ZenonT(60)
<1>2. ASSUME NEW a \in AppIds, NEW s \in Stores, UpdateApplication(c, a, s)
      PROVE  Typed'
  <2> DEFINE e == Pending("stored", NoUser, s)
  <2>1. e \in AppRow /\ e.state = "stored" /\ e.store = s /\ Coherent(e)
    BY PendingRow DEF States
  <2>2. LoadApp(c, "reload", a, e)
    BY <1>2 DEF UpdateApplication
  <2> HIDE DEF e
  <2>3. Carries("reload", a, e, NoFlyer, NoDraft)
    BY <2>1 DEF Carries, AppPCs, SavePCs, FlyerPCs
  <2> QED
    BY <1>0, <2>1, <2>2, <2>3, <1>p, LoadAppTyped, Zenon
<1>3. ASSUME NEW a \in AppIds, RemoveApplication(c, a)
      PROVE  Typed'
  <2>1. Carries("delete", a, app[a], NoFlyer, NoDraft)
    BY DEF Carries, AppPCs, SavePCs, FlyerPCs
  <2> QED
    BY <1>0, <1>a, <1>3, <2>1, <1>p, LoadAppTyped, Zenon DEF RemoveApplication
<1>4. ASSUME NEW a \in AppIds, Approve(c, a) \/ RejectApplication(c, a)
      PROVE  Typed'
  <2>0. ASSUME NEW e \in AppRow, Coherent(e), e.state = app[a].state, e.store = app[a].store,
               LoadApp(c, "reload", a, e)
        PROVE  Typed'
    <3>1. app[a].state = "stored"
      BY <2>0 DEF LoadApp
    <3>2. Carries("reload", a, e, NoFlyer, NoDraft)
      BY <1>a, <2>0, <3>1 DEF Carries, AppPCs, SavePCs, FlyerPCs
    <3> QED
      BY <1>0, <1>p, <2>0, <3>2, LoadAppTyped, Zenon
  <2>1. CASE Approve(c, a)
    <3> DEFINE e == [app[a] EXCEPT !.status = "approved", !.rejectionReason = FALSE,
                                   !.reviewedAt = TRUE]
    <3>1. LoadApp(c, "reload", a, e)
      BY <2>1, Zenon DEF Approve
    <3>2. e \in AppRow /\ Coherent(e) /\ e.state = app[a].state /\ e.store = app[a].store
      BY <1>a DEF AppRow, Statuses, Coherent
    <3> QED
      BY <2>0, <3>1, <3>2, Zenon
  <2>2. CASE RejectApplication(c, a)
    <3> DEFINE e == [app[a] EXCEPT !.status = "rejected", !.rejectionReason = TRUE,
                                   !.reviewedAt = TRUE]
    <3>1. LoadApp(c, "reload", a, e)
      BY <2>2, Zenon DEF RejectApplication
    <3>2. e \in AppRow /\ Coherent(e) /\ e.state = app[a].state /\ e.store = app[a].store
      BY <1>a DEF AppRow, Statuses, Coherent
    <3> QED
      BY <2>0, <3>1, <3>2, Zenon
  <2> QED
    BY <1>4, <2>1, <2>2
<1>5. ASSUME NEW u \in Users, NEW where \in {"post", "edit", "remove"},
             ApprovedApplication(c, u, where)
      PROVE  Typed'
  <2>1. PICK a \in AppIds : app[a].user = u /\ LoadApp(c, where, a, app[a])
    BY <1>5 DEF ApprovedApplication
  <2>2. Carries(where, a, app[a], NoFlyer, NoDraft)
    BY <1>5, <2>1 DEF Carries, AppPCs, SavePCs, FlyerPCs
  <2>3. where \in AppPCs
    BY DEF AppPCs
  <2> QED
    BY <1>0, <1>a, <2>1, <2>2, <2>3, LoadAppTyped, Zenon
<1>6. ASSUME NEW f \in FlyerIds, FindFlyer(c, f)
      PROVE  Typed'
  <2>1. PICK where \in {"flyerReload", "flyerDelete"} : LoadFlyer(c, where, f)
    BY <1>6 DEF FindFlyer
  <2>2. Carries(where, NoApp, seen[c], f, flyer[f])
    BY <2>1 DEF Carries, LoadFlyer, AppPCs, SavePCs, FlyerPCs
  <2>3. /\ id' = [id EXCEPT ![c] = NoApp] /\ seen' = [seen EXCEPT ![c] = seen[c]]
        /\ dirty' = [dirty EXCEPT ![c] = dirty[c]]
    BY <1>0, <2>1 DEF LoadFlyer, Typed, LocalsTyped
  <2>4. where \in PCs /\ flyer[f] \in FlyerRow /\ NoApp \in AppIds \cup {NoApp}
        /\ f \in FlyerIds \cup {NoFlyer}
    BY <2>1 DEF Typed, TablesTyped, PCs
  <2>5. /\ pc' = [pc EXCEPT ![c] = where] /\ page' = [page EXCEPT ![c] = f]
        /\ draft' = [draft EXCEPT ![c] = flyer[f]]
        /\ UNCHANGED <<account, app, flyer, judged, raced>>
    BY <2>1, Zenon DEF LoadFlyer, appVars
  <2> QED
    BY <1>0, <2>2, <2>3, <2>4, <2>5, CallTyped, Zenon
<1> QED
  BY <1>1, <1>2, <1>3, <1>4, <1>5, <1>6 DEF Start

LEMMA RejectTyped == ASSUME Typed, NEW c \in Calls, Reject(c) PROVE Typed'
<1>1. End(c) /\ UNCHANGED <<account, app, flyer, judged, raced>>
  BY Zenon DEF Reject, appVars
<1>2. TablesTyped'
  BY <1>1 DEF Typed, TablesTyped
<1> QED
  BY <1>1, <1>2, EndTyped, Zenon DEF Typed

\* A row of an application is written, and the request ends.
LEMMA RowTyped ==
  ASSUME Typed, NEW c \in Calls, NEW a \in AppIds, NEW row \in AppRow,
         row.state = "stored" => row.user \in Users /\ row.store \in Stores,
         app' = [app EXCEPT ![a] = row], flyer' \in [FlyerIds -> FlyerRow],
         judged' \in [AppIds -> SUBSET Stores], raced' \subseteq AppIds,
         account' = account, End(c)
  PROVE  Typed'
<1>1. TablesTyped'
  BY DEF Typed, TablesTyped
<1> QED
  BY <1>1, EndTyped, Zenon DEF Typed

\* What a save remembers of itself.
LEMMA RecordTyped ==
  ASSUME Typed, NEW c \in Calls, NEW a \in AppIds, seen[c].store \in Stores, Record(c, a)
  PROVE  judged' \in [AppIds -> SUBSET Stores] /\ raced' \subseteq AppIds
<1>1. judged \in [AppIds -> SUBSET Stores] /\ raced \subseteq AppIds
  BY DEF Typed, TablesTyped
<1>2. raced' \subseteq AppIds
  BY <1>1 DEF Record
<1> DEFINE J == CASE seen[c].status = "approved" -> judged[a] \cup {seen[c].store}
                  [] seen[c].status = "pending"  -> {}
                  [] OTHER                       -> judged[a]
<1>3. J \in SUBSET Stores
  BY <1>1
<1>4. judged' = [judged EXCEPT ![a] = J]
  BY DEF Record
<1> QED
  BY <1>1, <1>2, <1>3, <1>4

\* Deleting applications leaves flyers of none.
LEMMA OrphanedTyped ==
  ASSUME Typed, NEW gone \in SUBSET AppIds
  PROVE  /\ Orphaned(gone) \in [FlyerIds -> FlyerRow]
         /\ \A f \in FlyerIds :
              /\ Orphaned(gone)[f].state = flyer[f].state
              /\ Orphaned(gone)[f].author = flyer[f].author
              /\ Orphaned(gone)[f].application =
                   IF flyer[f].application \in gone THEN NoApp ELSE flyer[f].application
<1>1. flyer \in [FlyerIds -> FlyerRow]
  BY DEF Typed, TablesTyped
<1>2. ASSUME NEW f \in FlyerIds
      PROVE  /\ Orphaned(gone)[f] \in FlyerRow
             /\ Orphaned(gone)[f].state = flyer[f].state
             /\ Orphaned(gone)[f].author = flyer[f].author
             /\ Orphaned(gone)[f].application =
                  IF flyer[f].application \in gone THEN NoApp ELSE flyer[f].application
  BY <1>1 DEF Orphaned, FlyerRow
<1> QED
  BY <1>2 DEF Orphaned

\* A row of a flyer is written, and the request ends.
LEMMA FlyerRowTyped ==
  ASSUME Typed, NEW c \in Calls, NEW f \in FlyerIds, NEW row \in FlyerRow,
         flyer' = [flyer EXCEPT ![f] = row], End(c), UNCHANGED <<account, appVars>>
  PROVE  Typed'
<1>1. TablesTyped'
  BY DEF Typed, TablesTyped, appVars
<1> QED
  BY <1>1, EndTyped, Zenon DEF Typed

\* What a request holds at each of its statements.
LEMMA CallHolds ==
  ASSUME Typed, NEW c \in Calls
  PROVE  /\ Carries(pc[c], id[c], seen[c], page[c], draft[c])
         /\ id[c] \in AppIds \cup {NoApp} /\ seen[c] \in AppRow
         /\ page[c] \in FlyerIds \cup {NoFlyer} /\ draft[c] \in FlyerRow
         /\ dirty[c] \in SUBSET (AppColumns \cup {"application"})
         /\ \A a \in AppIds : app[a] \in AppRow /\
              (app[a].state = "stored" => app[a].user \in Users /\ app[a].store \in Stores)
         /\ \A f \in FlyerIds : flyer[f] \in FlyerRow
BY DEF Typed, LocalsTyped, TablesTyped, CallsOK

LEMMA InsertTyped == ASSUME Typed, NEW c \in Calls, InsertApplication(c) PROVE Typed'
<1>1. CASE Reject(c)
  BY <1>1, RejectTyped
<1>2. CASE ~ Reject(c)
  <2>1. pc[c] = "insert"
    BY DEF InsertApplication, At
  <2>2. /\ seen[c] \in AppRow /\ seen[c].user \in Users /\ seen[c].store \in Stores
    BY <2>1, CallHolds DEF Carries, SavePCs
  <2>3. PICK a \in AppIds : app' = [app EXCEPT ![a] = seen[c]]
    BY <1>2 DEF InsertApplication
  <2>4. End(c) /\ UNCHANGED <<account, flyer, judged, raced>>
    BY <1>2, Zenon DEF InsertApplication
  <2>5. /\ flyer' \in [FlyerIds -> FlyerRow] /\ account' = account
        /\ judged' \in [AppIds -> SUBSET Stores] /\ raced' \subseteq AppIds
    BY <2>4 DEF Typed, TablesTyped
  <2> QED
    BY <2>2, <2>3, <2>4, <2>5, RowTyped, Zenon
<1> QED
  BY <1>1, <1>2

LEMMA ReloadTyped == ASSUME Typed, NEW c \in Calls, Reload(c) PROVE Typed'
<1>1. pc[c] = "reload" /\ UNCHANGED <<account, id, seen, page, draft, app, judged, raced, flyer>>
  BY DEF Reload, At, appVars
<1>2. ASSUME NEW where \in {"write", "reinsert"},
             NEW D \in SUBSET (AppColumns \cup {"application"}),
             pc' = [pc EXCEPT ![c] = where], dirty' = [dirty EXCEPT ![c] = D]
      PROVE  Typed'
  <2>1. Carries(where, id[c], seen[c], page[c], draft[c])
    BY <1>1, CallHolds DEF Carries, AppPCs, SavePCs, FlyerPCs
  <2>2. /\ id' = [id EXCEPT ![c] = id[c]] /\ seen' = [seen EXCEPT ![c] = seen[c]]
        /\ page' = [page EXCEPT ![c] = page[c]] /\ draft' = [draft EXCEPT ![c] = draft[c]]
        /\ where \in PCs
    BY <1>1 DEF Typed, LocalsTyped, PCs
  <2>3. UNCHANGED <<account, app, flyer, judged, raced>>
    BY <1>1
  <2> QED
    BY <1>2, <2>1, <2>2, <2>3, CallHolds, CallTyped, Zenon
<1>3. CASE app[id[c]].state = "stored"
  <2> DEFINE D == {k \in AppColumns : seen[c][k] # app[id[c]][k]}
                    \cup {k \in {"reviewedAt"} : seen[c][k]}
  <2>1. pc' = [pc EXCEPT ![c] = "write"] /\ dirty' = [dirty EXCEPT ![c] = D]
    BY <1>3, Zenon DEF Reload
  <2>2. D \in SUBSET (AppColumns \cup {"application"})
    BY DEF AppColumns
  <2> HIDE DEF D
  <2>3. "write" \in {"write", "reinsert"}
    OBVIOUS
  <2> QED
    BY <1>2, <2>1, <2>2, <2>3, Zenon
<1>4. CASE app[id[c]].state # "stored"
  <2>1. pc' = [pc EXCEPT ![c] = "reinsert"] /\ dirty' = [dirty EXCEPT ![c] = dirty[c]]
    BY <1>4 DEF Reload, Typed, LocalsTyped
  <2>2. "reinsert" \in {"write", "reinsert"}
    OBVIOUS
  <2> QED
    BY <1>2, <2>1, <2>2, CallHolds, Zenon
<1> QED
  BY <1>3, <1>4

LEMMA WriteTyped == ASSUME Typed, NEW c \in Calls, Write(c) PROVE Typed'
<1>1. CASE Reject(c)
  BY <1>1, RejectTyped
<1>2. CASE ~ Reject(c)
  <2> DEFINE a == id[c]
             row == [k \in DOMAIN app[a] |-> IF k \in dirty[c] THEN seen[c][k] ELSE app[a][k]]
  <2>1. /\ pc[c] = "write" /\ app[a].state = "stored" /\ app' = [app EXCEPT ![a] = row]
        /\ Record(c, a) /\ End(c) /\ UNCHANGED <<account, flyer>>
    BY <1>2, Zenon DEF Write, At
  <2>2. a \in AppIds /\ seen[c].store \in Stores
    BY <2>1, CallHolds DEF Carries, AppPCs, SavePCs
  <2>3. row \in AppRow /\ Updated(row, app[a], seen[c], dirty[c])
    BY <2>2, CallHolds, UpdatedRow
  <2> HIDE DEF row
  <2>4. row.state = "stored" => row.user \in Users /\ row.store \in Stores
    BY <2>1, <2>2, <2>3, CallHolds DEF Updated
  <2>5. judged' \in [AppIds -> SUBSET Stores] /\ raced' \subseteq AppIds
    BY <2>1, <2>2, RecordTyped
  <2>6. flyer' \in [FlyerIds -> FlyerRow] /\ account' = account
    BY <2>1 DEF Typed, TablesTyped
  <2> QED
    BY <2>1, <2>2, <2>3, <2>4, <2>5, <2>6, RowTyped, Zenon
<1> QED
  BY <1>1, <1>2

LEMMA ReinsertTyped == ASSUME Typed, NEW c \in Calls, Reinsert(c) PROVE Typed'
<1>1. CASE Reject(c)
  BY <1>1, RejectTyped
<1>2. CASE ~ Reject(c)
  <2> DEFINE a == id[c]
  <2>1. /\ pc[c] = "reinsert" /\ seen[c].user # NoUser /\ app' = [app EXCEPT ![a] = seen[c]]
        /\ Record(c, a) /\ End(c) /\ UNCHANGED <<account, flyer>>
    BY <1>2, Zenon DEF Reinsert, At
  <2>2. a \in AppIds /\ seen[c].store \in Stores /\ seen[c] \in AppRow
    BY <2>1, CallHolds DEF Carries, AppPCs, SavePCs
  <2>3. seen[c].user \in Users
    BY <2>1, <2>2 DEF AppRow
  <2>4. judged' \in [AppIds -> SUBSET Stores] /\ raced' \subseteq AppIds
    BY <2>1, <2>2, RecordTyped
  <2>5. flyer' \in [FlyerIds -> FlyerRow] /\ account' = account
    BY <2>1 DEF Typed, TablesTyped
  <2> QED
    BY <2>1, <2>2, <2>3, <2>4, <2>5, RowTyped, Zenon
<1> QED
  BY <1>1, <1>2

LEMMA DeleteTyped == ASSUME Typed, NEW c \in Calls, Delete(c) PROVE Typed'
<1> DEFINE a == id[c]
           row == Pending("removed", NoUser, NoStore)
<1>1. /\ pc[c] = "delete" /\ app' = [app EXCEPT ![a] = row] /\ flyer' = Orphaned({a}) /\ End(c)
      /\ judged' = [judged EXCEPT ![a] = {}] /\ account' = account /\ raced' = raced
  BY Zenon DEF Delete, At
<1>2. a \in AppIds
  BY <1>1, CallHolds DEF Carries, AppPCs
<1>3. row \in AppRow /\ row.state = "removed"
  BY PendingRow DEF States
<1> HIDE DEF row
<1>4. flyer' \in [FlyerIds -> FlyerRow]
  BY <1>1, <1>2, OrphanedTyped
<1>5. judged' \in [AppIds -> SUBSET Stores] /\ raced' \subseteq AppIds
  BY <1>1, <1>2 DEF Typed, TablesTyped
<1>6. row.state = "stored" => row.user \in Users /\ row.store \in Stores
  BY <1>3
<1> QED
  BY <1>1, <1>2, <1>3, <1>4, <1>5, <1>6, RowTyped, Zenon

LEMMA PostFlyerTyped == ASSUME Typed, NEW c \in Calls, PostFlyer(c) PROVE Typed'
<1>1. CASE Reject(c)
  BY <1>1, RejectTyped
<1>2. CASE ~ Reject(c)
  <2> DEFINE row == Flyer("stored", id[c], seen[c].user)
  <2>1. pc[c] = "post" /\ End(c) /\ UNCHANGED <<account, appVars>>
    BY <1>2, Zenon DEF PostFlyer, At
  <2>2. PICK f \in FlyerIds : flyer' = [flyer EXCEPT ![f] = row]
    BY <1>2, Zenon DEF PostFlyer
  <2>3. id[c] \in AppIds /\ seen[c].user \in Users
    BY <2>1, CallHolds DEF Carries, AppPCs
  <2>4. row \in FlyerRow
    BY <2>3, FlyerMade DEF States
  <2> HIDE DEF row
  <2> QED
    BY <2>1, <2>2, <2>4, FlyerRowTyped, Zenon
<1> QED
  BY <1>1, <1>2

LEMMA FindMyFlyerTyped == ASSUME Typed, NEW c \in Calls, FindMyFlyer(c) PROVE Typed'
<1>1. CASE Reject(c)
  BY <1>1, RejectTyped
<1>2. CASE ~ Reject(c)
  <2>1. PICK f \in FlyerIds, where \in {"flyerReload", "flyerDelete"} : LoadFlyer(c, where, f)
    BY <1>2, Zenon DEF FindMyFlyer
  <2>2. Carries(where, id[c], seen[c], f, flyer[f])
    BY <2>1 DEF Carries, LoadFlyer, AppPCs, SavePCs, FlyerPCs
  <2>3. /\ id' = [id EXCEPT ![c] = id[c]] /\ seen' = [seen EXCEPT ![c] = seen[c]]
        /\ dirty' = [dirty EXCEPT ![c] = dirty[c]]
    BY <2>1 DEF LoadFlyer, Typed, LocalsTyped
  <2>4. where \in PCs /\ f \in FlyerIds \cup {NoFlyer}
    BY <2>1 DEF PCs
  <2>5. /\ pc' = [pc EXCEPT ![c] = where] /\ page' = [page EXCEPT ![c] = f]
        /\ draft' = [draft EXCEPT ![c] = flyer[f]]
        /\ UNCHANGED <<account, app, flyer, judged, raced>>
    BY <2>1, Zenon DEF LoadFlyer, appVars
  <2> QED
    BY <2>2, <2>3, <2>4, <2>5, CallHolds, CallTyped, ZenonT(60)
<1> QED
  BY <1>1, <1>2

LEMMA ReloadFlyerTyped == ASSUME Typed, NEW c \in Calls, ReloadFlyer(c) PROVE Typed'
<1>1. /\ pc[c] = "flyerReload"
      /\ UNCHANGED <<account, id, seen, page, draft, app, judged, raced, flyer>>
  BY DEF ReloadFlyer, At, appVars
<1>2. ASSUME NEW where \in {"flyerWrite", "flyerReinsert"},
             NEW D \in SUBSET (AppColumns \cup {"application"}),
             pc' = [pc EXCEPT ![c] = where], dirty' = [dirty EXCEPT ![c] = D]
      PROVE  Typed'
  <2>1. Carries(where, id[c], seen[c], page[c], draft[c])
    BY <1>1, CallHolds DEF Carries, AppPCs, SavePCs, FlyerPCs
  <2>2. /\ id' = [id EXCEPT ![c] = id[c]] /\ seen' = [seen EXCEPT ![c] = seen[c]]
        /\ page' = [page EXCEPT ![c] = page[c]] /\ draft' = [draft EXCEPT ![c] = draft[c]]
        /\ where \in PCs
    BY <1>1 DEF Typed, LocalsTyped, PCs
  <2>3. UNCHANGED <<account, app, flyer, judged, raced>>
    BY <1>1
  <2> QED
    BY <1>2, <2>1, <2>2, <2>3, CallHolds, CallTyped, Zenon
<1>3. CASE flyer[page[c]].state = "stored"
  <2> DEFINE D == {k \in {"application"} : draft[c][k] # flyer[page[c]][k]}
  <2>1. pc' = [pc EXCEPT ![c] = "flyerWrite"] /\ dirty' = [dirty EXCEPT ![c] = D]
    BY <1>3, Zenon DEF ReloadFlyer
  <2>2. D \in SUBSET (AppColumns \cup {"application"})
    OBVIOUS
  <2> HIDE DEF D
  <2>3. "flyerWrite" \in {"flyerWrite", "flyerReinsert"}
    OBVIOUS
  <2> QED
    BY <1>2, <2>1, <2>2, <2>3, Zenon
<1>4. CASE flyer[page[c]].state # "stored"
  <2>1. pc' = [pc EXCEPT ![c] = "flyerReinsert"] /\ dirty' = [dirty EXCEPT ![c] = dirty[c]]
    BY <1>4 DEF ReloadFlyer, Typed, LocalsTyped
  <2>2. "flyerReinsert" \in {"flyerWrite", "flyerReinsert"}
    OBVIOUS
  <2> QED
    BY <1>2, <2>1, <2>2, CallHolds, Zenon
<1> QED
  BY <1>3, <1>4

LEMMA WriteFlyerTyped == ASSUME Typed, NEW c \in Calls, WriteFlyer(c) PROVE Typed'
<1>1. CASE Reject(c)
  BY <1>1, RejectTyped
<1>2. CASE ~ Reject(c)
  <2> DEFINE f == page[c]
             row == [k \in DOMAIN flyer[f] |-> IF k \in dirty[c] THEN draft[c][k] ELSE flyer[f][k]]
  <2>1. /\ pc[c] = "flyerWrite" /\ flyer' = [flyer EXCEPT ![f] = row]
        /\ End(c) /\ UNCHANGED <<account, appVars>>
    BY <1>2, Zenon DEF WriteFlyer, At
  <2>2. f \in FlyerIds
    BY <2>1, CallHolds DEF Carries, FlyerPCs
  <2>3. row \in FlyerRow /\ UpdatedPage(row, flyer[f], draft[c], dirty[c])
    BY <2>2, CallHolds, UpdatedFlyer
  <2> HIDE DEF row
  <2> QED
    BY <2>1, <2>2, <2>3, FlyerRowTyped, Zenon
<1> QED
  BY <1>1, <1>2

LEMMA FlyerWrittenTyped ==
  ASSUME Typed, NEW c \in Calls, ReinsertFlyer(c) \/ DeleteFlyer(c)
  PROVE  Typed'
<1>1. CASE Reject(c)
  BY <1>1, RejectTyped
<1>2. CASE ~ Reject(c)
  <2> DEFINE gone == Flyer("removed", NoApp, NoUser)
  <2>1. /\ pc[c] \in FlyerPCs /\ End(c) /\ UNCHANGED <<account, appVars>>
    BY <1>2 DEF ReinsertFlyer, DeleteFlyer, At, FlyerPCs
  <2>2. PICK row \in {draft[c], gone} : flyer' = [flyer EXCEPT ![page[c]] = row]
    BY <1>2, Zenon DEF ReinsertFlyer, DeleteFlyer
  <2>3. gone \in FlyerRow
    BY FlyerMade DEF States
  <2> HIDE DEF gone
  <2>4. page[c] \in FlyerIds /\ row \in FlyerRow
    BY <2>1, <2>3, CallHolds DEF Carries
  <2> QED
    BY <2>1, <2>2, <2>4, FlyerRowTyped, Zenon
<1> QED
  BY <1>1, <1>2

\* Flyers and accounts change of themselves, and no request moves.
LEMMA TablesMove ==
  ASSUME Typed, TablesTyped', UNCHANGED <<pc, locals>>
  PROVE  Typed'
BY DEF Typed, LocalsTyped, CallsOK, locals

LEMMA CreateFlyerTyped == ASSUME Typed, NEW f \in FlyerIds, CreateFlyer(f) PROVE Typed'
<1> DEFINE row == Flyer("stored", NoApp, NoUser)
<1>1. row \in FlyerRow
  BY FlyerMade DEF States
<1>2. /\ flyer' = [flyer EXCEPT ![f] = row] /\ UNCHANGED <<pc, locals>>
      /\ UNCHANGED <<account, app, judged, raced>>
  BY DEF CreateFlyer, appVars
<1> HIDE DEF row
<1>3. TablesTyped'
  BY <1>1, <1>2 DEF Typed, TablesTyped
<1> QED
  BY <1>2, <1>3, TablesMove

LEMMA DeleteAccountTyped == ASSUME Typed, NEW u \in Users, DeleteAccount(u) PROVE Typed'
<1> DEFINE row == Pending("removed", NoUser, NoStore)
           mine == {a \in AppIds : app[a].state = "stored" /\ app[a].user = u}
<1>1. row \in AppRow /\ row.state = "removed"
  BY PendingRow DEF States
<1>2. /\ account' = [account EXCEPT ![u] = "gone"]
      /\ app' = [a \in AppIds |-> IF a \in mine THEN row ELSE app[a]]
      /\ flyer' = Orphaned(mine)
      /\ judged' = [a \in AppIds |-> IF a \in mine THEN {} ELSE judged[a]]
      /\ UNCHANGED <<pc, locals, raced>>
  BY Zenon DEF DeleteAccount
<1>3. flyer' \in [FlyerIds -> FlyerRow]
  BY <1>2, OrphanedTyped
<1> HIDE DEF row, mine
<1>4. /\ account' \in [Users -> {"live", "gone"}]
      /\ judged' \in [AppIds -> SUBSET Stores] /\ raced' \subseteq AppIds
  BY <1>2 DEF Typed, TablesTyped
<1>5. /\ app' \in [AppIds -> AppRow]
      /\ \A a \in AppIds : app'[a].state = "stored" =>
            app'[a].user \in Users /\ app'[a].store \in Stores
  BY <1>1, <1>2 DEF Typed, TablesTyped
<1>6. TablesTyped'
  BY <1>3, <1>4, <1>5 DEF TablesTyped
<1> QED
  BY <1>2, <1>6, TablesMove

LEMMA TypedStart == Init => Typed
<1> SUFFICES ASSUME Init PROVE Typed
  OBVIOUS
<1>1. /\ NoEntity \in AppRow /\ NoEntity.state = "unused"
      /\ NoDraft \in FlyerRow
  BY PendingRow, FlyerMade DEF NoEntity, NoDraft, States
<1>2. TablesTyped
  BY <1>1 DEF Init, TablesTyped
<1>3. LocalsTyped
  BY <1>1 DEF Init, LocalsTyped, PCs
<1>4. CallsOK
  BY DEF Init, CallsOK, Carries, AppPCs, SavePCs, FlyerPCs
<1> QED
  BY <1>2, <1>3, <1>4 DEF Typed

LEMMA TypedStep == Typed /\ [Next]_vars => Typed'
<1> SUFFICES ASSUME Typed, [Next]_vars PROVE Typed'
  OBVIOUS
<1>1. ASSUME NEW c \in Calls, Start(c)
      PROVE  Typed'
  BY <1>1, StartTyped
<1>2. ASSUME NEW c \in Calls, Statement(c)
      PROVE  Typed'
  BY <1>2, InsertTyped, ReloadTyped, WriteTyped, ReinsertTyped, DeleteTyped, PostFlyerTyped,
     FindMyFlyerTyped, ReloadFlyerTyped, WriteFlyerTyped, FlyerWrittenTyped, Zenon DEF Statement
<1>3. ASSUME NEW c \in Calls, Crash(c)
      PROVE  Typed'
  BY <1>3, RejectTyped DEF Crash
<1>4. ASSUME NEW f \in FlyerIds, CreateFlyer(f)
      PROVE  Typed'
  BY <1>4, CreateFlyerTyped
<1>5. ASSUME NEW u \in Users, DeleteAccount(u)
      PROVE  Typed'
  BY <1>5, DeleteAccountTyped
<1>6. CASE UNCHANGED vars
  <2>1. UNCHANGED <<account, app, flyer, judged, raced>> /\ UNCHANGED <<pc, locals>>
    BY <1>6 DEF vars, locals
  <2>2. TablesTyped'
    BY <2>1 DEF Typed, TablesTyped
  <2> QED
    BY <2>1, <2>2, TablesMove
<1> QED
  BY <1>1, <1>2, <1>3, <1>4, <1>5, <1>6, Zenon DEF Next, Quiet

LEMMA TypedAlways == Spec => []Typed
BY TypedStart, TypedStep, PTL DEF Spec

\* The tables and what every request carries keep their types, and a stored
\* application has its owner and its store, whatever the requests do at once.
THEOREM TypeCorrect == Spec => []TypeOK
BY TypedAlways, TypedMeansTypeOK, PTL

-----------------------------------------------------------------------------
(* Which steps change what. *)

\* The statements that change the applications; all others leave them, with what
\* is remembered of them, as they are.
LEMMA AppMoves ==
  ASSUME [Next]_vars
  PROVE  \/ \E c \in Calls : \/ InsertApplication(c) \/ Write(c) \/ Reinsert(c) \/ Delete(c)
         \/ \E u \in Users : DeleteAccount(u)
         \/ UNCHANGED appVars
<1>1. ASSUME NEW c \in Calls, Start(c)
      PROVE  UNCHANGED appVars
  BY <1>1, Zenon DEF Start, StartApplication, UpdateApplication, RemoveApplication, Approve,
     RejectApplication, ApprovedApplication, FindFlyer, LoadApp, LoadFlyer
<1>2. ASSUME NEW c \in Calls, Statement(c)
      PROVE  \/ InsertApplication(c) \/ Write(c) \/ Reinsert(c) \/ Delete(c)
             \/ UNCHANGED appVars
  BY <1>2, Zenon DEF Statement, Reload, PostFlyer, FindMyFlyer, LoadFlyer, ReloadFlyer, WriteFlyer,
     ReinsertFlyer, DeleteFlyer, Reject
<1>3. ASSUME NEW c \in Calls, Crash(c)
      PROVE  UNCHANGED appVars
  BY <1>3 DEF Crash, Reject
<1>4. ASSUME NEW f \in FlyerIds, CreateFlyer(f)
      PROVE  UNCHANGED appVars
  BY <1>4 DEF CreateFlyer
<1>5. CASE UNCHANGED vars
  BY <1>5 DEF vars, appVars
<1> QED
  BY <1>1, <1>2, <1>3, <1>4, <1>5 DEF Next, Quiet

-----------------------------------------------------------------------------
(* One application per user. *)

\* Applications are added where the user has none, and otherwise only removed or
\* rewritten.
LEMMA OneStep ==
  ASSUME Typed, OneApplicationPerUser, [Next]_vars
  PROVE  OneApplicationPerUser'
<1>0. \A a \in AppIds : app[a] \in AppRow
  BY DEF Typed, TablesTyped
<1>t. app \in [AppIds -> AppRow]
  BY DEF Typed, TablesTyped
<1>1. CASE app' = app
  BY <1>1 DEF OneApplicationPerUser
<1>2. ASSUME NEW a \in AppIds, NEW row, app' = [app EXCEPT ![a] = row],
             row.state = "stored" => ~ Applied(row.user)
      PROVE  OneApplicationPerUser'
  BY <1>t, <1>2 DEF OneApplicationPerUser, Applied
<1>3. ASSUME NEW gone \in SUBSET AppIds, NEW row, row.state # "stored",
             app' = [a \in AppIds |-> IF a \in gone THEN row ELSE app[a]]
      PROVE  OneApplicationPerUser'
  BY <1>3 DEF OneApplicationPerUser
<1>4. ASSUME NEW c \in Calls, InsertApplication(c), app' # app
      PROVE  OneApplicationPerUser'
  <2>1. PICK a \in AppIds : app' = [app EXCEPT ![a] = seen[c]]
    BY <1>4, Zenon DEF InsertApplication, Reject, appVars
  <2>2. ~ Applied(seen[c].user)
    BY <1>4, Zenon DEF InsertApplication, Reject, appVars
  <2> QED
    BY <1>2, <2>1, <2>2, Zenon
<1>5. ASSUME NEW c \in Calls, Reinsert(c), app' # app
      PROVE  OneApplicationPerUser'
  <2>1. app' = [app EXCEPT ![id[c]] = seen[c]] /\ ~ Applied(seen[c].user) /\ pc[c] = "reinsert"
    BY <1>5, Zenon DEF Reinsert, Reject, appVars, At
  <2>2. id[c] \in AppIds
    BY <2>1, CallHolds DEF Carries, AppPCs
  <2> QED
    BY <1>2, <2>1, <2>2, Zenon
<1>6. ASSUME NEW c \in Calls, Write(c), app' # app
      PROVE  OneApplicationPerUser'
  <2> DEFINE a == id[c]
             row == [k \in DOMAIN app[a] |-> IF k \in dirty[c] THEN seen[c][k] ELSE app[a][k]]
  <2>1. app' = [app EXCEPT ![a] = row] /\ pc[c] = "write"
    BY <1>6, Zenon DEF Write, Reject, appVars, At
  <2>2. a \in AppIds
    BY <2>1, CallHolds DEF Carries, AppPCs
  <2>3. Updated(row, app[a], seen[c], dirty[c])
    BY <2>2, CallHolds, UpdatedRow
  <2> HIDE DEF row
  <2>4. row.state = app[a].state /\ row.user = app[a].user
    BY <2>3 DEF Updated
  <2>5. \A b \in AppIds : app'[b].state = app[b].state /\ app'[b].user = app[b].user
    BY <1>t, <2>1, <2>2, <2>4
  <2> QED
    BY <2>5 DEF OneApplicationPerUser
<1>7. Pending("removed", NoUser, NoStore).state # "stored"
  BY DEF Pending
<1>8. ASSUME NEW c \in Calls, Delete(c)
      PROVE  OneApplicationPerUser'
  <2>1. app' = [app EXCEPT ![id[c]] = Pending("removed", NoUser, NoStore)] /\ pc[c] = "delete"
    BY <1>8, Zenon DEF Delete, At
  <2>2. id[c] \in AppIds
    BY <2>1, CallHolds DEF Carries, AppPCs
  <2> QED
    BY <1>2, <1>7, <2>1, <2>2, Zenon
<1>9. ASSUME NEW u \in Users, DeleteAccount(u)
      PROVE  OneApplicationPerUser'
  <2> DEFINE mine == {a \in AppIds : app[a].state = "stored" /\ app[a].user = u}
  <2>1. app' = [a \in AppIds |-> IF a \in mine THEN Pending("removed", NoUser, NoStore) ELSE app[a]]
    BY <1>9, Zenon DEF DeleteAccount
  <2>2. mine \in SUBSET AppIds
    OBVIOUS
  <2> QED
    BY <1>3, <1>7, <2>1, <2>2, Zenon
<1>10. UNCHANGED appVars => app' = app
  BY DEF appVars
<1> QED
  BY <1>1, <1>4, <1>5, <1>6, <1>8, <1>9, <1>10, AppMoves

\* Two requests may both find that a user has no application, and a review may
\* bring one back after the user applied again: still there is only one.
THEOREM OneEach == Spec => []OneApplicationPerUser
<1>1. Init => OneApplicationPerUser
  BY DEF Init, OneApplicationPerUser, NoEntity, Pending
<1>2. Typed /\ OneApplicationPerUser /\ [Next]_vars => OneApplicationPerUser'
  BY OneStep
<1> QED
  BY <1>1, <1>2, TypedAlways, PTL DEF Spec

-----------------------------------------------------------------------------
(* Whose application an id is, and whose flyer, never changes: o and w say. *)

TablesOwned(o, w) ==
  /\ \A a \in AppIds : app[a].state = "stored" => app[a].user = o[a]
  /\ \A f \in FlyerIds : flyer[f].state = "stored" => flyer[f].author = w[f]
  /\ \A f \in FlyerIds : flyer[f].application # NoApp =>
       /\ app[flyer[f].application].state = "stored"
       /\ o[flyer[f].application] = flyer[f].author

\* What a request carries names ids that are in use, and their owners.
Belongs(a, e, f, d, o, w) ==
  /\ a # NoApp => app[a].state # "unused" /\ e.user \in {NoUser, o[a]}
  /\ f # NoFlyer => flyer[f].state # "unused" /\ d.author = w[f]
  /\ d.application # NoApp =>
       app[d.application].state # "unused" /\ d.author = o[d.application]

CallsOwned(o, w) == \A c \in Calls : Belongs(id[c], seen[c], page[c], draft[c], o, w)

Owned(o, w) == TablesOwned(o, w) /\ CallsOwned(o, w)

\* A request moves itself alone.
Moved(c) ==
  /\ \E x : pc' = [pc EXCEPT ![c] = x]
  /\ id' = id \/ \E x : id' = [id EXCEPT ![c] = x]
  /\ seen' = seen \/ \E x : seen' = [seen EXCEPT ![c] = x]
  /\ page' = page \/ \E x : page' = [page EXCEPT ![c] = x]
  /\ draft' = draft \/ \E x : draft' = [draft EXCEPT ![c] = x]
  /\ dirty' = dirty \/ \E x : dirty' = [dirty EXCEPT ![c] = x]

\* All requests but those of C stand still.
Stand(C) ==
  \A d \in Calls \ C : /\ pc'[d] = pc[d] /\ id'[d] = id[d] /\ seen'[d] = seen[d]
                       /\ page'[d] = page[d] /\ draft'[d] = draft[d] /\ dirty'[d] = dirty[d]

\* Ids in use stay in use, by their owners.
KeepOwners(o, w, o2, w2) ==
  /\ \A a \in AppIds : app[a].state # "unused" => app'[a].state # "unused" /\ o2[a] = o[a]
  /\ \A f \in FlyerIds : flyer[f].state # "unused" => flyer'[f].state # "unused" /\ w2[f] = w[f]

LEMMA OthersStand ==
  ASSUME Typed, NEW c \in Calls, Start(c) \/ Statement(c) \/ Crash(c)
  PROVE  Stand({c})
<1>1. End(c) => Moved(c)
  BY Zenon DEF End, Moved
<1>2. ASSUME NEW where, NEW a, NEW e, LoadApp(c, where, a, e)
      PROVE  Moved(c)
  BY <1>2, Zenon DEF LoadApp, Moved
<1>3. ASSUME NEW where, NEW f, LoadFlyer(c, where, f)
      PROVE  Moved(c)
  BY <1>3, Zenon DEF LoadFlyer, Moved
<1>4. ASSUME NEW u, NEW s, StartApplication(c, u, s)
      PROVE  Moved(c)
  BY <1>4, Zenon DEF StartApplication, Moved
<1>5. Reload(c) \/ ReloadFlyer(c) => Moved(c)
  BY Zenon DEF Reload, ReloadFlyer, Moved
<1>6. Start(c) => Moved(c)
  BY <1>2, <1>3, <1>4, Zenon DEF Start, UpdateApplication, RemoveApplication, Approve,
     RejectApplication, ApprovedApplication, FindFlyer
<1>7. Statement(c) \/ Crash(c) => Moved(c)
  BY <1>1, <1>3, <1>5, Zenon DEF Statement, Crash, Reject, InsertApplication, Write, Reinsert,
     Delete, PostFlyer, FindMyFlyer, WriteFlyer, ReinsertFlyer, DeleteFlyer
<1>8. Moved(c)
  BY <1>6, <1>7
<1> QED
  BY <1>8 DEF Moved, Typed, LocalsTyped, Stand

\* Requests keep their claims while the ids in use keep their owners.
LEMMA CallsStay ==
  ASSUME Typed, NEW o, NEW w, NEW o2, NEW w2, CallsOwned(o, w),
         NEW C \in SUBSET Calls,
         Stand(C), \A d \in C : Belongs(id[d], seen[d], page[d], draft[d], o2, w2)',
         KeepOwners(o, w, o2, w2)
  PROVE  CallsOwned(o2, w2)'
<1> SUFFICES ASSUME NEW d \in Calls \ C
             PROVE  Belongs(id[d], seen[d], page[d], draft[d], o2, w2)'
  BY DEF CallsOwned
<1>1. Belongs(id[d], seen[d], page[d], draft[d], o, w)
  BY DEF CallsOwned
<1>2. /\ id[d] \in AppIds \cup {NoApp} /\ page[d] \in FlyerIds \cup {NoFlyer}
      /\ draft[d].application \in AppIds \cup {NoApp}
  BY CallHolds DEF FlyerRow
<1>3. id'[d] = id[d] /\ seen'[d] = seen[d] /\ page'[d] = page[d] /\ draft'[d] = draft[d]
  BY DEF Stand
<1> QED
  BY <1>1, <1>2, <1>3 DEF Belongs, KeepOwners

LEMMA EndBelongs ==
  ASSUME Typed, NEW c \in Calls, End(c), NEW o, NEW w
  PROVE  Belongs(id[c], seen[c], page[c], draft[c], o, w)'
<1>1. id'[c] = NoApp /\ page'[c] = NoFlyer /\ draft'[c] = NoDraft
  BY DEF End, Typed, LocalsTyped
<1>2. NoDraft.application = NoApp
  BY DEF NoDraft, Flyer
<1> QED
  BY <1>1, <1>2 DEF Belongs

\* The tables are left as they are.
LEMMA TurnOwned ==
  ASSUME Typed, NEW c \in Calls, Start(c) \/ Statement(c) \/ Crash(c), NEW o, NEW w, Owned(o, w),
         app' = app, flyer' = flyer, Belongs(id'[c], seen'[c], page'[c], draft'[c], o, w)
  PROVE  Owned(o, w)'
<1>1. TablesOwned(o, w)'
  BY DEF Owned, TablesOwned
<1>2. Belongs(id[c], seen[c], page[c], draft[c], o, w)'
  BY DEF Belongs
<1>3. CallsOwned(o, w)'
  <2>1. Stand({c}) /\ KeepOwners(o, w, o, w)
    BY OthersStand DEF KeepOwners
  <2>2. \A d \in {c} : Belongs(id[d], seen[d], page[d], draft[d], o, w)'
    BY <1>2
  <2>3. {c} \in SUBSET Calls /\ CallsOwned(o, w)
    BY DEF Owned
  <2> QED
    BY <2>1, <2>2, <2>3, CallsStay
<1> QED
  BY <1>1, <1>3 DEF Owned

\* A request goes on with a flyer.
LEMMA FlyerLoadedOwned ==
  ASSUME Typed, NEW c \in Calls, Start(c) \/ Statement(c) \/ Crash(c), NEW o, NEW w, Owned(o, w),
         NEW where, NEW f \in FlyerIds, LoadFlyer(c, where, f)
  PROVE  Owned(o, w)'
<1>1. /\ id'[c] = id[c] /\ seen'[c] = seen[c] /\ page'[c] = f /\ draft'[c] = flyer[f]
      /\ app' = app /\ flyer' = flyer
  BY DEF LoadFlyer, appVars, Typed, LocalsTyped
<1>2. Belongs(id[c], seen[c], page[c], draft[c], o, w)
  BY DEF Owned, CallsOwned
<1>3. flyer[f].state = "stored" /\ flyer[f].author = w[f]
  BY DEF LoadFlyer, Owned, TablesOwned
<1>4. flyer[f].application # NoApp =>
        /\ app[flyer[f].application].state # "unused"
        /\ flyer[f].author = o[flyer[f].application]
  BY DEF Owned, TablesOwned
<1>5. Belongs(id'[c], seen'[c], page'[c], draft'[c], o, w)
  BY <1>1, <1>2, <1>3, <1>4 DEF Belongs
<1> QED
  BY <1>1, <1>5, TurnOwned

LEMMA StartOwned ==
  ASSUME Typed, NEW c \in Calls, Start(c), NEW o, NEW w, Owned(o, w)
  PROVE  Owned(o, w)'
<1>1. pc[c] = "idle"
  BY Zenon DEF Start, StartApplication, UpdateApplication, RemoveApplication, Approve,
               RejectApplication, ApprovedApplication, FindFlyer, LoadApp, At
<1>2. id[c] = NoApp /\ page[c] = NoFlyer /\ draft[c] = NoDraft /\ draft[c].application = NoApp
  BY <1>1, CallHolds DEF Carries, NoDraft, Flyer
<1>3. ASSUME NEW where, NEW a \in AppIds, NEW e, LoadApp(c, where, a, e),
             e.user \in {NoUser, app[a].user}
      PROVE  Owned(o, w)'
  <2>1. /\ id'[c] = a /\ seen'[c] = e /\ page'[c] = NoFlyer /\ draft'[c] = draft[c]
        /\ app' = app /\ flyer' = flyer
    BY <1>2, <1>3 DEF LoadApp, appVars, Typed, LocalsTyped
  <2>2. app[a].state = "stored" /\ app[a].user = o[a]
    BY <1>3 DEF LoadApp, Owned, TablesOwned
  <2>3. Belongs(id'[c], seen'[c], page'[c], draft'[c], o, w)
    BY <1>2, <1>3, <2>1, <2>2 DEF Belongs
  <2> QED
    BY <2>1, <2>3, TurnOwned
<1>4. ASSUME NEW u \in Users, NEW s \in Stores, StartApplication(c, u, s)
      PROVE  Owned(o, w)'
  <2>1. /\ id'[c] = NoApp /\ page'[c] = NoFlyer /\ draft'[c] = draft[c]
        /\ app' = app /\ flyer' = flyer
    BY <1>2, <1>4 DEF StartApplication, appVars
  <2>2. Belongs(id'[c], seen'[c], page'[c], draft'[c], o, w)
    BY <1>2, <2>1 DEF Belongs
  <2> QED
    BY <2>1, <2>2, TurnOwned
<1>5. ASSUME NEW a \in AppIds, NEW s \in Stores, UpdateApplication(c, a, s)
      PROVE  Owned(o, w)'
  <2>1. Pending("stored", NoUser, s).user = NoUser
    BY DEF Pending
  <2> QED
    BY <1>3, <1>5, <2>1 DEF UpdateApplication
<1>6. ASSUME NEW a \in AppIds, RemoveApplication(c, a) \/ Approve(c, a) \/ RejectApplication(c, a)
      PROVE  Owned(o, w)'
  <2>1. PICK where, e : LoadApp(c, where, a, e) /\ e.user = app[a].user
    <3>1. app[a] \in AppRow
      BY CallHolds
    <3>2. /\ [app[a] EXCEPT !.status = "approved", !.rejectionReason = FALSE, !.reviewedAt = TRUE].user
               = app[a].user
          /\ [app[a] EXCEPT !.status = "rejected", !.rejectionReason = TRUE, !.reviewedAt = TRUE].user
               = app[a].user
      BY <3>1 DEF AppRow
    <3> QED
      BY <1>6, <3>2, Zenon DEF RemoveApplication, Approve, RejectApplication
  <2> QED
    BY <1>3, <2>1
<1>7. ASSUME NEW u \in Users, NEW where, ApprovedApplication(c, u, where)
      PROVE  Owned(o, w)'
  <2>1. PICK a \in AppIds : LoadApp(c, where, a, app[a])
    BY <1>7 DEF ApprovedApplication
  <2> QED
    BY <1>3, <2>1
<1>8. ASSUME NEW f \in FlyerIds, FindFlyer(c, f)
      PROVE  Owned(o, w)'
  BY <1>8, FlyerLoadedOwned DEF FindFlyer
<1> QED
  BY <1>4, <1>5, <1>6, <1>7, <1>8 DEF Start

\* A statement that writes the row of an application, and ends the request.
LEMMA RowOwned ==
  ASSUME Typed, NEW c \in Calls, Statement(c), End(c), NEW o, NEW w, NEW o2, Owned(o, w),
         NEW a \in AppIds, NEW row, app' = [app EXCEPT ![a] = row], flyer' = flyer,
         row.state = "stored", row.user = o2[a],
         \A b \in AppIds : app[b].state # "unused" => o2[b] = o[b]
  PROVE  Owned(o2, w)'
<1>1. \A b \in AppIds : app'[b] = IF b = a THEN row ELSE app[b]
  BY DEF Typed, TablesTyped
<1>2. \A f \in FlyerIds : flyer[f].application \in AppIds \cup {NoApp}
  BY CallHolds DEF FlyerRow
<1>3. TablesOwned(o2, w)'
  BY <1>1, <1>2 DEF Owned, TablesOwned
<1>4. Stand({c})
  BY OthersStand
<1>5. \A d \in {c} : Belongs(id[d], seen[d], page[d], draft[d], o2, w)'
  BY EndBelongs
<1>6. {c} \in SUBSET Calls /\ CallsOwned(o, w)
  BY DEF Owned
<1>7. KeepOwners(o, w, o2, w)
  BY <1>1 DEF KeepOwners
<1>8. CallsOwned(o2, w)'
  BY <1>4, <1>5, <1>6, <1>7, CallsStay, Zenon
<1> QED
  BY <1>3, <1>8 DEF Owned

\* A row that may stand in flyer f.
Fits(row, f, o, w) ==
  /\ row.state = "stored" => row.author = w[f]
  /\ row.application # NoApp =>
       app[row.application].state = "stored" /\ o[row.application] = row.author

\* A flyer's row is written: it belongs to its author's application, or to none.
LEMMA PageOwned ==
  ASSUME Typed, NEW o, NEW w, NEW w2, TablesOwned(o, w), app' = app,
         NEW f \in FlyerIds, NEW row, flyer' = [flyer EXCEPT ![f] = row],
         Fits(row, f, o, w2), \A g \in FlyerIds \ {f} : w2[g] = w[g]
  PROVE  TablesOwned(o, w2)'
<1>1. \A g \in FlyerIds : flyer'[g] = IF g = f THEN row ELSE flyer[g]
  BY DEF Typed, TablesTyped
<1> QED
  BY <1>1 DEF TablesOwned, Fits

LEMMA PageWritten ==
  ASSUME Typed, NEW c \in Calls, Statement(c), End(c), NEW o, NEW w, NEW w2, Owned(o, w),
         app' = app, NEW f \in FlyerIds, NEW row, flyer' = [flyer EXCEPT ![f] = row],
         row.state # "unused", Fits(row, f, o, w2),
         \A g \in FlyerIds \ {f} : w2[g] = w[g], flyer[f].state # "unused" => w2[f] = w[f]
  PROVE  Owned(o, w2)'
<1>0. TablesOwned(o, w)
  BY DEF Owned
<1>1. TablesOwned(o, w2)'
  BY <1>0, PageOwned, Zenon
<1>2. Stand({c})
  BY OthersStand
<1>3. \A d \in {c} : Belongs(id[d], seen[d], page[d], draft[d], o, w2)'
  BY EndBelongs
<1>4. {c} \in SUBSET Calls /\ CallsOwned(o, w)
  BY DEF Owned
<1>5. KeepOwners(o, w, o, w2)
  BY DEF Typed, TablesTyped, KeepOwners
<1>6. CallsOwned(o, w2)'
  BY <1>2, <1>3, <1>4, <1>5, CallsStay, Zenon
<1> QED
  BY <1>1, <1>6 DEF Owned

\* Applications go, and their flyers lose them.
LEMMA GoneOwned ==
  ASSUME Typed, NEW o, NEW w, TablesOwned(o, w), NEW gone \in SUBSET AppIds,
         \A a \in AppIds : app'[a] = IF a \in gone THEN Pending("removed", NoUser, NoStore)
                                                   ELSE app[a],
         flyer' = Orphaned(gone)
  PROVE  TablesOwned(o, w)' /\ KeepOwners(o, w, o, w)
<1>1. \A f \in FlyerIds : /\ flyer'[f].state = flyer[f].state
                          /\ flyer'[f].author = flyer[f].author
                          /\ flyer'[f].application =
                               IF flyer[f].application \in gone THEN NoApp ELSE flyer[f].application
  BY OrphanedTyped
<1>2. \A f \in FlyerIds : flyer[f].application \in AppIds \cup {NoApp}
  BY DEF Typed, TablesTyped, FlyerRow
<1>3. Pending("removed", NoUser, NoStore).state = "removed"
  BY DEF Pending
<1> QED
  BY <1>1, <1>2, <1>3 DEF TablesOwned, KeepOwners

LEMMA InsertOwned ==
  ASSUME Typed, NEW c \in Calls, InsertApplication(c), ~ Reject(c),
         NEW o \in [AppIds -> Users \cup {NoUser}], NEW w, Owned(o, w)
  PROVE  \E o2 \in [AppIds -> Users \cup {NoUser}] : Owned(o2, w)'
<1>1. PICK a \in AppIds : app[a].state = "unused" /\ app' = [app EXCEPT ![a] = seen[c]]
  BY Zenon DEF InsertApplication
<1>2. pc[c] = "insert" /\ End(c) /\ flyer' = flyer
  BY Zenon DEF InsertApplication, At
<1>3. seen[c].state = "stored" /\ seen[c].user \in Users
  BY <1>2, CallHolds DEF Carries, SavePCs
<1>4. PICK o2 \in [AppIds -> Users \cup {NoUser}] :
        /\ seen[c].user = o2[a]
        /\ \A b \in AppIds : app[b].state # "unused" => o2[b] = o[b]
  <2> DEFINE p == [o EXCEPT ![a] = seen[c].user]
  <2>1. /\ p \in [AppIds -> Users \cup {NoUser}] /\ seen[c].user = p[a]
        /\ \A b \in AppIds : app[b].state # "unused" => p[b] = o[b]
    BY <1>1, <1>3
  <2> HIDE DEF p
  <2> QED
    BY <2>1
<1>5. Statement(c)
  BY DEF Statement
<1>6. Owned(o2, w)'
  BY <1>1, <1>2, <1>3, <1>4, <1>5, RowOwned
<1> QED
  BY <1>4, <1>6

LEMMA WriteOwned ==
  ASSUME Typed, NEW c \in Calls, Write(c), ~ Reject(c), NEW o, NEW w, Owned(o, w)
  PROVE  Owned(o, w)'
<1> DEFINE a == id[c]
           row == [k \in DOMAIN app[a] |-> IF k \in dirty[c] THEN seen[c][k] ELSE app[a][k]]
<1>1. /\ pc[c] = "write" /\ app[a].state = "stored" /\ app' = [app EXCEPT ![a] = row]
      /\ End(c) /\ flyer' = flyer
  BY Zenon DEF Write, At
<1>2. a \in AppIds
  BY <1>1, CallHolds DEF Carries, AppPCs
<1>3. Updated(row, app[a], seen[c], dirty[c])
  BY <1>2, CallHolds, UpdatedRow
<1> HIDE DEF row
<1>4. row.state = "stored" /\ row.user = o[a]
  BY <1>1, <1>2, <1>3 DEF Updated, Owned, TablesOwned
<1>5. Statement(c)
  BY DEF Statement
<1> QED
  BY <1>1, <1>2, <1>4, <1>5, RowOwned

LEMMA ReinsertOwned ==
  ASSUME Typed, NEW c \in Calls, Reinsert(c), ~ Reject(c), NEW o, NEW w, Owned(o, w)
  PROVE  Owned(o, w)'
<1>1. /\ pc[c] = "reinsert" /\ seen[c].user # NoUser /\ app' = [app EXCEPT ![id[c]] = seen[c]]
      /\ End(c) /\ flyer' = flyer
  BY Zenon DEF Reinsert, At
<1>2. id[c] \in AppIds /\ seen[c].state = "stored"
  BY <1>1, CallHolds DEF Carries, AppPCs, SavePCs
<1>3. seen[c].user = o[id[c]]
  BY <1>1, <1>2, ReviewAssumption DEF Owned, CallsOwned, Belongs
<1>4. Statement(c)
  BY DEF Statement
<1> QED
  BY <1>1, <1>2, <1>3, <1>4, RowOwned

LEMMA DeleteOwned ==
  ASSUME Typed, NEW c \in Calls, Delete(c), NEW o, NEW w, Owned(o, w)
  PROVE  Owned(o, w)'
<1>1. /\ pc[c] = "delete" /\ End(c) /\ flyer' = Orphaned({id[c]})
      /\ app' = [app EXCEPT ![id[c]] = Pending("removed", NoUser, NoStore)]
  BY Zenon DEF Delete, At
<1>2. {id[c]} \in SUBSET AppIds
  BY <1>1, CallHolds DEF Carries, AppPCs
<1>3. \A a \in AppIds : app'[a] = IF a \in {id[c]} THEN Pending("removed", NoUser, NoStore)
                                                   ELSE app[a]
  BY <1>1 DEF Typed, TablesTyped
<1>4. TablesOwned(o, w) /\ CallsOwned(o, w)
  BY DEF Owned
<1>5. TablesOwned(o, w)' /\ KeepOwners(o, w, o, w)
  BY <1>1, <1>2, <1>3, <1>4, GoneOwned
<1>6. Statement(c)
  BY DEF Statement
<1>7. Stand({c})
  BY <1>6, OthersStand
<1>8. \A d \in {c} : Belongs(id[d], seen[d], page[d], draft[d], o, w)'
  BY <1>1, EndBelongs
<1>9. CallsOwned(o, w)'
  BY <1>2, <1>4, <1>5, <1>7, <1>8, CallsStay, Zenon
<1> QED
  BY <1>5, <1>9 DEF Owned

LEMMA RejectOwned ==
  ASSUME Typed, NEW c \in Calls, Statement(c) \/ Crash(c), Reject(c), NEW o, NEW w, Owned(o, w)
  PROVE  Owned(o, w)'
<1>1. End(c) /\ app' = app /\ flyer' = flyer
  BY Zenon DEF Reject, appVars
<1>2. Belongs(id[c], seen[c], page[c], draft[c], o, w)'
  BY <1>1, EndBelongs
<1>3. Belongs(id'[c], seen'[c], page'[c], draft'[c], o, w)
  BY <1>1, <1>2 DEF Belongs
<1> QED
  BY <1>1, <1>3, TurnOwned

LEMMA ReloadOwned ==
  ASSUME Typed, NEW c \in Calls, Reload(c) \/ ReloadFlyer(c), NEW o, NEW w, Owned(o, w)
  PROVE  Owned(o, w)'
<1>1. UNCHANGED <<app, flyer, id, seen, page, draft>>
  BY DEF Reload, ReloadFlyer, appVars
<1>2. Belongs(id'[c], seen'[c], page'[c], draft'[c], o, w)
  BY <1>1 DEF Owned, CallsOwned
<1>3. Statement(c)
  BY DEF Statement
<1> QED
  BY <1>1, <1>2, <1>3, TurnOwned

LEMMA PostFlyerOwned ==
  ASSUME Typed, NEW c \in Calls, PostFlyer(c), ~ Reject(c),
         NEW o, NEW w \in [FlyerIds -> Users \cup {NoUser}], Owned(o, w)
  PROVE  \E w2 \in [FlyerIds -> Users \cup {NoUser}] : Owned(o, w2)'
<1> DEFINE row == Flyer("stored", id[c], seen[c].user)
<1>1. /\ pc[c] = "post" /\ app[id[c]].state = "stored" /\ End(c) /\ UNCHANGED appVars
  BY Zenon DEF PostFlyer, At
<1>2. PICK f \in FlyerIds : flyer[f].state = "unused" /\ flyer' = [flyer EXCEPT ![f] = row]
  BY Zenon DEF PostFlyer
<1>3. id[c] \in AppIds /\ id[c] # NoApp /\ seen[c].user \in Users
  BY <1>1, CallHolds, ReviewAssumption DEF Carries, AppPCs
<1>4. seen[c].user = o[id[c]]
  BY <1>3, ReviewAssumption DEF Owned, CallsOwned, Belongs
<1>5. row.state = "stored" /\ row.application = id[c] /\ row.author = seen[c].user
  BY DEF Flyer
<1> HIDE DEF row
<1>6. PICK w2 \in [FlyerIds -> Users \cup {NoUser}] :
        w2[f] = seen[c].user /\ \A g \in FlyerIds \ {f} : w2[g] = w[g]
  <2> DEFINE p == [w EXCEPT ![f] = seen[c].user]
  <2>1. /\ p \in [FlyerIds -> Users \cup {NoUser}] /\ p[f] = seen[c].user
        /\ \A g \in FlyerIds \ {f} : p[g] = w[g]
    BY <1>3
  <2> HIDE DEF p
  <2> QED
    BY <2>1
<1>7. Fits(row, f, o, w2)
  BY <1>1, <1>4, <1>5, <1>6 DEF Fits
<1>8. Statement(c) /\ app' = app /\ row.state # "unused"
  BY <1>1, <1>5 DEF Statement, appVars
<1>9. flyer[f].state # "unused" => w2[f] = w[f]
  BY <1>2
<1>10. Owned(o, w2)'
  BY <1>1, <1>2, <1>6, <1>7, <1>8, <1>9, PageWritten
<1> QED
  BY <1>10

LEMMA FindMyFlyerOwned ==
  ASSUME Typed, NEW c \in Calls, FindMyFlyer(c), ~ Reject(c), NEW o, NEW w, Owned(o, w)
  PROVE  Owned(o, w)'
<1>1. PICK f \in FlyerIds, where \in {"flyerReload", "flyerDelete"} : LoadFlyer(c, where, f)
  BY Zenon DEF FindMyFlyer
<1>2. Statement(c)
  BY DEF Statement
<1> QED
  BY <1>1, <1>2, FlyerLoadedOwned

\* What a request holds of a flyer it works on.
LEMMA DraftOwned ==
  ASSUME Typed, NEW c \in Calls, pc[c] \in FlyerPCs, NEW o, NEW w, Owned(o, w)
  PROVE  /\ page[c] \in FlyerIds /\ draft[c].state = "stored" /\ draft[c].author = w[page[c]]
         /\ draft[c].application # NoApp => draft[c].author = o[draft[c].application]
         /\ flyer[page[c]].state # "unused"
<1>1. page[c] \in FlyerIds /\ draft[c].state = "stored"
  BY CallHolds DEF Carries
<1>2. page[c] # NoFlyer
  BY <1>1, ReviewAssumption
<1>3. Belongs(id[c], seen[c], page[c], draft[c], o, w)
  BY DEF Owned, CallsOwned
<1> QED
  BY <1>1, <1>2, <1>3 DEF Belongs

LEMMA WriteFlyerOwned ==
  ASSUME Typed, NEW c \in Calls, WriteFlyer(c), ~ Reject(c), NEW o, NEW w, Owned(o, w)
  PROVE  Owned(o, w)'
<1> DEFINE f == page[c]
           row == [k \in DOMAIN flyer[f] |-> IF k \in dirty[c] THEN draft[c][k] ELSE flyer[f][k]]
<1>1. /\ pc[c] = "flyerWrite" /\ flyer' = [flyer EXCEPT ![f] = row]
      /\ flyer[f].state = "stored" /\ ~ ("application" \in dirty[c] /\ References(c))
      /\ End(c) /\ UNCHANGED appVars
  BY Zenon DEF WriteFlyer, At
<1>2. pc[c] \in FlyerPCs
  BY <1>1 DEF FlyerPCs
<1>3. /\ f \in FlyerIds /\ draft[c].author = w[f]
      /\ draft[c].application # NoApp => draft[c].author = o[draft[c].application]
  BY <1>2, DraftOwned
<1>4. UpdatedPage(row, flyer[f], draft[c], dirty[c])
  BY <1>3, CallHolds, UpdatedFlyer
<1> HIDE DEF row
<1>5. /\ flyer[f].author = w[f]
      /\ flyer[f].application # NoApp =>
           /\ app[flyer[f].application].state = "stored"
           /\ o[flyer[f].application] = flyer[f].author
  BY <1>1, <1>3 DEF Owned, TablesOwned
<1>6. /\ row.state = "stored" /\ row.author = w[f]
      /\ row.application = IF "application" \in dirty[c] THEN draft[c].application
                                                         ELSE flyer[f].application
  BY <1>1, <1>4, <1>5 DEF UpdatedPage
<1>7. Fits(row, f, o, w)
  BY <1>1, <1>3, <1>5, <1>6 DEF Fits, References
<1>8. Statement(c) /\ app' = app /\ row.state # "unused"
  BY <1>1, <1>6 DEF Statement, appVars
<1>9. \A g \in FlyerIds \ {f} : w[g] = w[g]
  OBVIOUS
<1> QED
  BY <1>1, <1>3, <1>7, <1>8, <1>9, PageWritten

LEMMA FlyerWrittenOwned ==
  ASSUME Typed, NEW c \in Calls, ReinsertFlyer(c) \/ DeleteFlyer(c), ~ Reject(c),
         NEW o, NEW w, Owned(o, w)
  PROVE  Owned(o, w)'
<1> DEFINE f == page[c]
           gone == Flyer("removed", NoApp, NoUser)
<1>1. pc[c] \in FlyerPCs /\ End(c) /\ UNCHANGED appVars
  BY DEF ReinsertFlyer, DeleteFlyer, At, FlyerPCs
<1>2. /\ f \in FlyerIds /\ draft[c].state = "stored" /\ draft[c].author = w[f]
      /\ draft[c].application # NoApp => draft[c].author = o[draft[c].application]
  BY <1>1, DraftOwned
<1>3. Statement(c) /\ app' = app
  BY <1>1 DEF Statement, appVars
<1>4. ASSUME NEW row, flyer' = [flyer EXCEPT ![f] = row], row.state # "unused", Fits(row, f, o, w)
      PROVE  Owned(o, w)'
  <2>1. \A g \in FlyerIds \ {f} : w[g] = w[g]
    OBVIOUS
  <2> QED
    BY <1>1, <1>2, <1>3, <1>4, <2>1, PageWritten
<1>5. CASE ReinsertFlyer(c)
  <2>1. flyer' = [flyer EXCEPT ![f] = draft[c]] /\ ~ References(c)
    BY <1>5, Zenon DEF ReinsertFlyer
  <2>2. Fits(draft[c], f, o, w) /\ draft[c].state # "unused"
    BY <1>2, <2>1 DEF Fits, References
  <2> QED
    BY <1>4, <2>1, <2>2
<1>6. CASE DeleteFlyer(c)
  <2>1. flyer' = [flyer EXCEPT ![f] = gone]
    BY <1>6, Zenon DEF DeleteFlyer
  <2>2. Fits(gone, f, o, w) /\ gone.state # "unused"
    BY DEF Fits, Flyer
  <2> QED
    BY <1>4, <2>1, <2>2
<1> QED
  BY <1>5, <1>6

LEMMA CreateFlyerOwned ==
  ASSUME Typed, NEW f \in FlyerIds, CreateFlyer(f),
         NEW o, NEW w \in [FlyerIds -> Users \cup {NoUser}], Owned(o, w)
  PROVE  \E w2 \in [FlyerIds -> Users \cup {NoUser}] : Owned(o, w2)'
<1> DEFINE row == Flyer("stored", NoApp, NoUser)
<1>1. /\ flyer[f].state = "unused" /\ flyer' = [flyer EXCEPT ![f] = row]
      /\ UNCHANGED <<app, pc, id, seen, page, draft, dirty>>
  BY DEF CreateFlyer, appVars, locals
<1>2. row.state = "stored" /\ row.application = NoApp /\ row.author = NoUser
  BY DEF Flyer
<1> HIDE DEF row
<1>3. PICK w2 \in [FlyerIds -> Users \cup {NoUser}] :
        w2[f] = NoUser /\ \A g \in FlyerIds \ {f} : w2[g] = w[g]
  <2>1. /\ [w EXCEPT ![f] = NoUser] \in [FlyerIds -> Users \cup {NoUser}]
        /\ [w EXCEPT ![f] = NoUser][f] = NoUser
        /\ \A g \in FlyerIds \ {f} : [w EXCEPT ![f] = NoUser][g] = w[g]
    OBVIOUS
  <2> QED
    BY <2>1
<1>4. Fits(row, f, o, w2) /\ TablesOwned(o, w) /\ CallsOwned(o, w) /\ app' = app
  BY <1>1, <1>2, <1>3 DEF Fits, Owned
<1>5. TablesOwned(o, w2)'
  BY <1>1, <1>3, <1>4, PageOwned
<1>6. KeepOwners(o, w, o, w2)
  BY <1>1, <1>2, <1>3 DEF Typed, TablesTyped, KeepOwners
<1>7. Stand({}) /\ {} \in SUBSET Calls
  BY <1>1 DEF Stand
<1>8. \A d \in {} : Belongs(id[d], seen[d], page[d], draft[d], o, w2)'
  OBVIOUS
<1>9. CallsOwned(o, w2)'
  BY <1>4, <1>6, <1>7, <1>8, CallsStay, Zenon
<1>10. Owned(o, w2)'
  BY <1>5, <1>9 DEF Owned
<1> QED
  BY <1>10

LEMMA DeleteAccountOwned ==
  ASSUME Typed, NEW u \in Users, DeleteAccount(u), NEW o, NEW w, Owned(o, w)
  PROVE  Owned(o, w)'
<1> DEFINE mine == {a \in AppIds : app[a].state = "stored" /\ app[a].user = u}
<1>1. /\ app' = [a \in AppIds |-> IF a \in mine THEN Pending("removed", NoUser, NoStore)
                                                ELSE app[a]]
      /\ flyer' = Orphaned(mine) /\ UNCHANGED <<pc, locals>>
  BY Zenon DEF DeleteAccount
<1>2. mine \in SUBSET AppIds
  OBVIOUS
<1> HIDE DEF mine
<1>3. \A a \in AppIds : app'[a] = IF a \in mine THEN Pending("removed", NoUser, NoStore)
                                                ELSE app[a]
  BY <1>1
<1>4. TablesOwned(o, w) /\ CallsOwned(o, w)
  BY DEF Owned
<1>5. TablesOwned(o, w)' /\ KeepOwners(o, w, o, w)
  BY <1>1, <1>2, <1>3, <1>4, GoneOwned
<1>6. Stand({}) /\ {} \in SUBSET Calls
  BY <1>1 DEF Stand, locals
<1>7. \A d \in {} : Belongs(id[d], seen[d], page[d], draft[d], o, w)'
  OBVIOUS
<1>8. CallsOwned(o, w)'
  BY <1>4, <1>5, <1>6, <1>7, CallsStay, Zenon
<1> QED
  BY <1>5, <1>8 DEF Owned

Ownership ==
  \E o \in [AppIds -> Users \cup {NoUser}], w \in [FlyerIds -> Users \cup {NoUser}] : Owned(o, w)

LEMMA OwnershipStart == Init => Ownership
<1> SUFFICES ASSUME Init PROVE Ownership
  OBVIOUS
<1> DEFINE o == [a \in AppIds |-> NoUser]
           w == [f \in FlyerIds |-> NoUser]
<1>1. NoEntity.state = "unused" /\ NoDraft.state = "unused" /\ NoDraft.application = NoApp
  BY DEF NoEntity, NoDraft, Pending, Flyer
<1>2. TablesOwned(o, w)
  BY <1>1 DEF Init, TablesOwned
<1>3. CallsOwned(o, w)
  BY <1>1 DEF Init, CallsOwned, Belongs
<1>4. o \in [AppIds -> Users \cup {NoUser}] /\ w \in [FlyerIds -> Users \cup {NoUser}]
  OBVIOUS
<1> HIDE DEF o, w
<1> QED
  BY <1>2, <1>3, <1>4 DEF Ownership, Owned

LEMMA OwnershipStep == Typed /\ Ownership /\ [Next]_vars => Ownership'
<1> SUFFICES ASSUME Typed, Ownership, [Next]_vars PROVE Ownership'
  OBVIOUS
<1>0. PICK o \in [AppIds -> Users \cup {NoUser}], w \in [FlyerIds -> Users \cup {NoUser}] :
        Owned(o, w)
  BY DEF Ownership
<1>a. Owned(o, w)' => Ownership'
  BY DEF Ownership
<1>1. ASSUME NEW c \in Calls, Start(c)
      PROVE  Ownership'
  BY <1>0, <1>1, <1>a, StartOwned
<1>2. ASSUME NEW c \in Calls, Statement(c) \/ Crash(c), Reject(c)
      PROVE  Ownership'
  BY <1>0, <1>2, <1>a, RejectOwned
<1>3. ASSUME NEW c \in Calls, InsertApplication(c), ~ Reject(c)
      PROVE  Ownership'
  <2>1. PICK o2 \in [AppIds -> Users \cup {NoUser}] : Owned(o2, w)'
    BY <1>0, <1>3, InsertOwned
  <2> QED
    BY <2>1 DEF Ownership
<1>4. ASSUME NEW c \in Calls, PostFlyer(c), ~ Reject(c)
      PROVE  Ownership'
  <2>1. PICK w2 \in [FlyerIds -> Users \cup {NoUser}] : Owned(o, w2)'
    BY <1>0, <1>4, PostFlyerOwned
  <2> QED
    BY <2>1 DEF Ownership
<1>5. ASSUME NEW c \in Calls, Statement(c), ~ Reject(c)
      PROVE  Ownership'
  BY <1>0, <1>3, <1>4, <1>5, <1>a, ReloadOwned, WriteOwned, ReinsertOwned, DeleteOwned,
     FindMyFlyerOwned, WriteFlyerOwned, FlyerWrittenOwned, Zenon DEF Statement
<1>6. ASSUME NEW f \in FlyerIds, CreateFlyer(f)
      PROVE  Ownership'
  <2>1. PICK w2 \in [FlyerIds -> Users \cup {NoUser}] : Owned(o, w2)'
    BY <1>0, <1>6, CreateFlyerOwned
  <2> QED
    BY <2>1 DEF Ownership
<1>7. ASSUME NEW u \in Users, DeleteAccount(u)
      PROVE  Ownership'
  BY <1>0, <1>7, <1>a, DeleteAccountOwned
<1>8. CASE UNCHANGED vars
  <2>1. UNCHANGED <<app, flyer, id, seen, page, draft>>
    BY <1>8 DEF vars
  <2>2. Owned(o, w)'
    BY <1>0, <2>1 DEF Owned, TablesOwned, CallsOwned, Belongs
  <2> QED
    BY <2>2, <1>a
<1>9. \A c \in Calls : Crash(c) => Reject(c)
  BY DEF Crash
<1> QED
  BY <1>1, <1>2, <1>5, <1>6, <1>7, <1>8, <1>9 DEF Next, Quiet

LEMMA OwnershipAlways == Spec => []Ownership
BY OwnershipStart, OwnershipStep, TypedAlways, PTL DEF Spec

\* A flyer's application exists and is its author's: a deletion clears the flyers
\* that name it, an id keeps its owner even if a review brings it back, and a save
\* of an old draft cannot name an application that is gone.
THEOREM FlyersFollow == Spec => []FlyersFollowApplication
<1>1. Typed /\ Ownership => FlyersFollowApplication
  <2> SUFFICES ASSUME Typed, Ownership PROVE FlyersFollowApplication
    OBVIOUS
  <2>1. PICK o, w : TablesOwned(o, w)
    BY DEF Ownership, Owned
  <2>2. \A f \in FlyerIds : flyer[f].application \in AppIds \cup {NoApp}
    BY DEF Typed, TablesTyped, FlyerRow
  <2> QED
    BY <2>1, <2>2 DEF TablesOwned, FlyersFollowApplication
<1> QED
  BY <1>1, OwnershipAlways, TypedAlways, PTL

-----------------------------------------------------------------------------
(* Reviews stand where no write fell between the read and the write of a save. *)

\* The columns outside D are those of the row.
Agree(D, e, row) ==
  /\ "store" \in D \/ e.store = row.store
  /\ "status" \in D \/ e.status = row.status
  /\ "rejectionReason" \in D \/ e.rejectionReason = row.rejectionReason
  /\ "reviewedAt" \in D \/ e.reviewedAt = row.reviewedAt

SaveOK(where, a, e, D) ==
  /\ where = "insert" => e.status = "pending"
  /\ where = "write" /\ a \notin raced /\ app[a].state = "stored" => Agree(D, e, app[a])

Saves == \A c \in Calls : SaveOK(pc[c], id[c], seen[c], dirty[c])

Stands(a) ==
  app[a].state = "stored" /\ a \notin raced =>
    /\ Coherent(app[a])
    /\ app[a].status = "approved" => app[a].store \in judged[a]

Standing == \A a \in AppIds : Stands(a)

LEMMA StandingMeans == Standing => UnracedReviewStands
BY DEF Standing, Stands, UnracedReviewStands, Coherent

\* What a step does to the rows that saves of calls outside C are about to write:
\* nothing, or it removes them, or it is remembered.
Undisturbed(C) ==
  /\ raced \subseteq raced'
  /\ \A d \in Calls \ C : pc[d] = "write" =>
       \/ app'[id[d]] = app[id[d]]
       \/ app'[id[d]].state # "stored"
       \/ id[d] \in raced'

LEMMA SavesStay ==
  ASSUME Saves, NEW C \in SUBSET Calls, Stand(C), Undisturbed(C),
         \A d \in C : SaveOK(pc[d], id[d], seen[d], dirty[d])'
  PROVE  Saves'
<1> SUFFICES ASSUME NEW d \in Calls \ C
             PROVE  SaveOK(pc[d], id[d], seen[d], dirty[d])'
  BY DEF Saves
<1>1. SaveOK(pc[d], id[d], seen[d], dirty[d])
  BY DEF Saves
<1>2. pc'[d] = pc[d] /\ id'[d] = id[d] /\ seen'[d] = seen[d] /\ dirty'[d] = dirty[d]
  BY DEF Stand
<1>3. CASE pc[d] # "write"
  BY <1>1, <1>2, <1>3 DEF SaveOK
<1>4. CASE pc[d] = "write"
  BY <1>1, <1>2, <1>4 DEF SaveOK, Undisturbed
<1> QED
  BY <1>3, <1>4

\* A request that is over, or at a statement that is neither an insert nor a write.
LEMMA SavedOrNot ==
  ASSUME NEW c \in Calls, pc'[c] \notin {"insert", "write"}
  PROVE  SaveOK(pc[c], id[c], seen[c], dirty[c])'
BY DEF SaveOK

LEMMA StandingStays ==
  ASSUME Standing, raced \subseteq raced', NEW A \in SUBSET AppIds,
         \A a \in AppIds \ A : app'[a] = app[a] /\ judged'[a] = judged[a],
         \A a \in A : Stands(a)'
  PROVE  Standing'
<1> SUFFICES ASSUME NEW a \in AppIds \ A
             PROVE  Stands(a)'
  BY DEF Standing
<1>1. Stands(a)
  BY DEF Standing
<1> QED
  BY <1>1, Zenon DEF Stands

Reviewed == Standing /\ Saves

\* The applications are left as they are.
LEMMA TurnReviewed ==
  ASSUME Typed, Reviewed, NEW c \in Calls, Start(c) \/ Statement(c) \/ Crash(c), UNCHANGED appVars,
         SaveOK(pc[c], id[c], seen[c], dirty[c])'
  PROVE  Reviewed'
<1>1. app' = app /\ judged' = judged /\ raced' = raced
  BY DEF appVars
<1>2. Standing'
  BY <1>1 DEF Reviewed, Standing, Stands
<1>3. Stand({c}) /\ {c} \in SUBSET Calls /\ Undisturbed({c})
  BY <1>1, OthersStand DEF Undisturbed
<1>4. \A d \in {c} : SaveOK(pc[d], id[d], seen[d], dirty[d])'
  OBVIOUS
<1>5. Saves'
  BY <1>3, <1>4, SavesStay DEF Reviewed
<1> QED
  BY <1>2, <1>5 DEF Reviewed

LEMMA StartReviewed ==
  ASSUME Typed, Reviewed, NEW c \in Calls, Start(c)
  PROVE  Reviewed'
<1>1. SaveOK(pc[c], id[c], seen[c], dirty[c])'
  <2>1. ASSUME NEW u \in Users, NEW s \in Stores, StartApplication(c, u, s)
        PROVE  SaveOK(pc[c], id[c], seen[c], dirty[c])'
    <3>1. pc'[c] = "insert" /\ seen'[c] = Pending("stored", u, s)
      BY <2>1 DEF StartApplication, Typed, LocalsTyped
    <3> QED
      BY <3>1 DEF SaveOK, Pending
  <2>2. ASSUME NEW where \in {"reload", "delete", "post", "edit", "remove",
                              "flyerReload", "flyerDelete"},
               pc' = [pc EXCEPT ![c] = where]
        PROVE  SaveOK(pc[c], id[c], seen[c], dirty[c])'
    <3>1. pc'[c] \notin {"insert", "write"}
      BY <2>2 DEF Typed, LocalsTyped
    <3> QED
      BY <3>1, SavedOrNot
  <2>3. \/ \E u \in Users, s \in Stores : StartApplication(c, u, s)
        \/ \E where \in {"reload", "delete", "post", "edit", "remove",
                         "flyerReload", "flyerDelete"} : pc' = [pc EXCEPT ![c] = where]
    BY Zenon DEF Start, UpdateApplication, RemoveApplication, Approve, RejectApplication,
       ApprovedApplication, FindFlyer, LoadApp, LoadFlyer
  <2> QED
    BY <2>1, <2>2, <2>3
<1>2. UNCHANGED appVars
  BY Zenon DEF Start, StartApplication, UpdateApplication, RemoveApplication, Approve,
     RejectApplication, ApprovedApplication, FindFlyer, LoadApp, LoadFlyer
<1> QED
  BY <1>1, <1>2, TurnReviewed

LEMMA EndReviewed ==
  ASSUME Typed, NEW c \in Calls, End(c)
  PROVE  SaveOK(pc[c], id[c], seen[c], dirty[c])'
<1>1. pc'[c] \notin {"insert", "write"}
  BY DEF End, Typed, LocalsTyped
<1> QED
  BY <1>1, SavedOrNot

LEMMA ReloadReviewed ==
  ASSUME Typed, Reviewed, NEW c \in Calls, Reload(c)
  PROVE  Reviewed'
<1>1. UNCHANGED appVars /\ Statement(c) /\ id' = id /\ seen' = seen /\ app' = app
  BY DEF Reload, Statement, appVars
<1>2. CASE app[id[c]].state = "stored"
  <2> DEFINE D == {k \in AppColumns : seen[c][k] # app[id[c]][k]}
                    \cup {k \in {"reviewedAt"} : seen[c][k]}
  <2>1. pc' = [pc EXCEPT ![c] = "write"] /\ dirty' = [dirty EXCEPT ![c] = D]
    BY <1>2, Zenon DEF Reload
  <2>2. Agree(D, seen[c], app[id[c]])
    <3>1. \A k \in AppColumns : k \in D \/ seen[c][k] = app[id[c]][k]
      BY Zenon
    <3>2. "store" \in AppColumns /\ "status" \in AppColumns
          /\ "rejectionReason" \in AppColumns /\ "reviewedAt" \in AppColumns
      BY DEF AppColumns
    <3> HIDE DEF D
    <3> QED
      BY <3>1, <3>2, Zenon DEF Agree
  <2> HIDE DEF D
  <2>3. pc'[c] = "write" /\ dirty'[c] = D
    BY <2>1 DEF Typed, LocalsTyped
  <2>4. SaveOK(pc[c], id[c], seen[c], dirty[c])'
    BY <1>1, <2>2, <2>3, Zenon DEF SaveOK
  <2> QED
    BY <1>1, <2>4, TurnReviewed
<1>3. CASE app[id[c]].state # "stored"
  <2>1. pc'[c] \notin {"insert", "write"}
    BY <1>3 DEF Reload, Typed, LocalsTyped
  <2>2. SaveOK(pc[c], id[c], seen[c], dirty[c])'
    BY <2>1, SavedOrNot
  <2> QED
    BY <1>1, <2>2, TurnReviewed
<1> QED
  BY <1>2, <1>3

\* Statements that leave the applications, and are not a save's read.
LEMMA ElsewhereReviewed ==
  ASSUME Typed, Reviewed, NEW c \in Calls, Statement(c) \/ Crash(c),
         Reject(c) \/ PostFlyer(c) \/ FindMyFlyer(c) \/ ReloadFlyer(c) \/ WriteFlyer(c)
           \/ ReinsertFlyer(c) \/ DeleteFlyer(c)
  PROVE  Reviewed'
<1>1. UNCHANGED appVars
  BY Zenon DEF Reject, PostFlyer, FindMyFlyer, LoadFlyer, ReloadFlyer, WriteFlyer, ReinsertFlyer,
               DeleteFlyer
<1>2. \E where \in {"idle", "flyerReload", "flyerWrite", "flyerReinsert", "flyerDelete"} :
        pc' = [pc EXCEPT ![c] = where]
  BY Zenon DEF Reject, End, PostFlyer, FindMyFlyer, LoadFlyer, ReloadFlyer, WriteFlyer,
               ReinsertFlyer, DeleteFlyer
<1>3. pc'[c] \notin {"insert", "write"}
  BY <1>2 DEF Typed, LocalsTyped
<1>4. SaveOK(pc[c], id[c], seen[c], dirty[c])'
  BY <1>3, SavedOrNot
<1> QED
  BY <1>1, <1>4, TurnReviewed

\* Saves that are about to write application a are marked, or find it gone.
Marked(c, a, row) ==
  /\ raced \subseteq raced'
  /\ \A b \in AppIds \ {a} : judged'[b] = judged[b]
  /\ \A d \in Calls \ {c} : pc[d] = "write" /\ id[d] = a => row.state # "stored" \/ a \in raced'

\* A row is written, and the request ends.
LEMMA RowReviewed ==
  ASSUME Typed, Reviewed, NEW c \in Calls, Statement(c), End(c), NEW a \in AppIds, NEW row,
         app' = [app EXCEPT ![a] = row], Stands(a)', Marked(c, a, row)
  PROVE  Reviewed'
<1>1. \A b \in AppIds : app'[b] = IF b = a THEN row ELSE app[b]
  BY DEF Typed, TablesTyped
<1>2. Standing'
  <2>1. {a} \in SUBSET AppIds /\ \A b \in {a} : Stands(b)'
    OBVIOUS
  <2>2. \A b \in AppIds \ {a} : app'[b] = app[b] /\ judged'[b] = judged[b]
    BY <1>1 DEF Marked
  <2>3. raced \subseteq raced'
    BY DEF Marked
  <2> QED
    BY <2>1, <2>2, <2>3, StandingStays DEF Reviewed
<1>3. \A d \in Calls : pc[d] = "write" => id[d] \in AppIds
  BY CallHolds DEF Carries, AppPCs
<1>4. Undisturbed({c})
  BY <1>1, <1>3 DEF Undisturbed, Marked
<1>5. Stand({c}) /\ {c} \in SUBSET Calls
  BY OthersStand
<1>6. \A d \in {c} : SaveOK(pc[d], id[d], seen[d], dirty[d])'
  BY EndReviewed
<1>7. Saves'
  BY <1>4, <1>5, <1>6, SavesStay DEF Reviewed
<1> QED
  BY <1>2, <1>7 DEF Reviewed

LEMMA InsertReviewed ==
  ASSUME Typed, Ownership, Reviewed, NEW c \in Calls, InsertApplication(c), ~ Reject(c)
  PROVE  Reviewed'
<1>1. PICK a \in AppIds : app[a].state = "unused" /\ app' = [app EXCEPT ![a] = seen[c]]
  BY Zenon DEF InsertApplication
<1>2. pc[c] = "insert" /\ End(c) /\ judged' = judged /\ raced' = raced
  BY Zenon DEF InsertApplication, At
<1>3. Coherent(seen[c]) /\ seen[c].status = "pending"
  BY <1>2, CallHolds DEF Carries, SavePCs, Reviewed, Saves, SaveOK
<1>4. app'[a] = seen[c]
  BY <1>1 DEF Typed, TablesTyped
<1>5. Stands(a)'
  <2>1. app'[a].status # "approved"
    BY <1>3, <1>4
  <2>2. Coherent(app'[a])
    BY <1>3, <1>4, Zenon
  <2> QED
    BY <2>1, <2>2, Zenon DEF Stands, Coherent
<1>6. \A d \in Calls : pc[d] = "write" => id[d] # a
  <2> SUFFICES ASSUME NEW d \in Calls, pc[d] = "write"
               PROVE  id[d] # a
    OBVIOUS
  <2>1. PICK o, w : CallsOwned(o, w)
    BY DEF Ownership, Owned
  <2>2. Belongs(id[d], seen[d], page[d], draft[d], o, w)
    BY <2>1 DEF CallsOwned
  <2>3. id[d] \in AppIds /\ id[d] # NoApp
    BY CallHolds, ReviewAssumption DEF Carries, AppPCs
  <2> QED
    BY <1>1, <2>2, <2>3 DEF Belongs
<1>7. Statement(c)
  BY DEF Statement
<1>8. Marked(c, a, seen[c])
  BY <1>2, <1>6 DEF Marked
<1> QED
  BY <1>1, <1>2, <1>5, <1>7, <1>8, RowReviewed

\* A save writes a whole review, and what it was about.
LEMMA SavedReviewed ==
  ASSUME Typed, Reviewed, NEW c \in Calls, Statement(c), End(c), NEW a \in AppIds, id[c] = a,
         NEW row, app' = [app EXCEPT ![a] = row], Record(c, a), Coherent(seen[c]),
         a \notin raced /\ row.state = "stored" =>
           /\ row.store = seen[c].store /\ row.status = seen[c].status
           /\ row.rejectionReason = seen[c].rejectionReason
           /\ row.reviewedAt = seen[c].reviewedAt
  PROVE  Reviewed'
<1>1. raced \subseteq raced'
      /\ \A d \in Calls \ {c} : pc[d] = "write" /\ id[d] = a => a \in raced'
  BY DEF Record
<1>2. \A b \in AppIds \ {a} : judged'[b] = judged[b]
  BY DEF Record, Typed, TablesTyped
<1>3. app'[a] = row
  BY DEF Typed, TablesTyped
<1>4. seen[c].status = "approved" => seen[c].store \in judged'[a]
  BY DEF Record, Typed, TablesTyped
<1>5. Stands(a)'
  <2> SUFFICES ASSUME row.state = "stored", a \notin raced'
               PROVE  Coherent(row) /\ (row.status = "approved" => row.store \in judged'[a])
    BY <1>3, Zenon DEF Stands, Coherent
  <2>1. /\ row.store = seen[c].store /\ row.status = seen[c].status
        /\ row.rejectionReason = seen[c].rejectionReason
        /\ row.reviewedAt = seen[c].reviewedAt
    BY <1>1
  <2>2. Coherent(row)
    BY <2>1, Zenon DEF Coherent
  <2> QED
    BY <1>4, <2>1, <2>2
<1>6. Marked(c, a, row)
  BY <1>1, <1>2 DEF Marked
<1> QED
  BY <1>5, <1>6, RowReviewed

LEMMA WriteReviewed ==
  ASSUME Typed, Reviewed, NEW c \in Calls, Write(c), ~ Reject(c)
  PROVE  Reviewed'
<1> DEFINE a == id[c]
           row == [k \in DOMAIN app[a] |-> IF k \in dirty[c] THEN seen[c][k] ELSE app[a][k]]
<1>1. /\ pc[c] = "write" /\ app[a].state = "stored" /\ app' = [app EXCEPT ![a] = row]
      /\ Record(c, a) /\ End(c)
  BY Zenon DEF Write, At
<1>2. a \in AppIds /\ Coherent(seen[c])
  BY <1>1, CallHolds DEF Carries, AppPCs, SavePCs
<1>3. Updated(row, app[a], seen[c], dirty[c])
  BY <1>2, CallHolds, UpdatedRow
<1> HIDE DEF row
<1>4. a \notin raced => Agree(dirty[c], seen[c], app[a])
  BY <1>1 DEF Reviewed, Saves, SaveOK
<1>5. a \notin raced =>
           /\ row.store = seen[c].store /\ row.status = seen[c].status
           /\ row.rejectionReason = seen[c].rejectionReason
           /\ row.reviewedAt = seen[c].reviewedAt
  BY <1>3, <1>4, Zenon DEF Updated, Agree
<1>6. Statement(c)
  BY DEF Statement
<1> QED
  BY <1>1, <1>2, <1>5, <1>6, SavedReviewed

LEMMA ReinsertReviewed ==
  ASSUME Typed, Reviewed, NEW c \in Calls, Reinsert(c), ~ Reject(c)
  PROVE  Reviewed'
<1>1. /\ pc[c] = "reinsert" /\ app' = [app EXCEPT ![id[c]] = seen[c]]
      /\ Record(c, id[c]) /\ End(c)
  BY Zenon DEF Reinsert, At
<1>2. id[c] \in AppIds /\ Coherent(seen[c])
  BY <1>1, CallHolds DEF Carries, AppPCs, SavePCs
<1>3. Statement(c)
  BY DEF Statement
<1> QED
  BY <1>1, <1>2, <1>3, SavedReviewed

LEMMA DeleteReviewed ==
  ASSUME Typed, Reviewed, NEW c \in Calls, Delete(c)
  PROVE  Reviewed'
<1> DEFINE row == Pending("removed", NoUser, NoStore)
<1>0. pc[c] = "delete"
  BY DEF Delete, At
<1>1. PICK a \in AppIds : id[c] = a
  BY <1>0, CallHolds DEF Carries, AppPCs
<1>2. /\ app' = [app EXCEPT ![a] = row] /\ End(c)
      /\ judged' = [judged EXCEPT ![a] = {}] /\ raced' = raced
  BY <1>1, Zenon DEF Delete
<1>3. row.state = "removed"
  BY DEF Pending
<1> HIDE DEF row
<1>4. app'[a] = row
  BY <1>2 DEF Typed, TablesTyped
<1>5. Stands(a)'
  BY <1>3, <1>4 DEF Stands
<1>6. Marked(c, a, row)
  BY <1>2, <1>3 DEF Marked, Typed, TablesTyped
<1>7. Statement(c)
  BY DEF Statement
<1> QED
  BY <1>2, <1>5, <1>6, <1>7, RowReviewed

LEMMA DeleteAccountReviewed ==
  ASSUME Typed, Reviewed, NEW u \in Users, DeleteAccount(u)
  PROVE  Reviewed'
<1> DEFINE row == Pending("removed", NoUser, NoStore)
           mine == {a \in AppIds : app[a].state = "stored" /\ app[a].user = u}
<1>1. /\ app' = [a \in AppIds |-> IF a \in mine THEN row ELSE app[a]]
      /\ judged' = [a \in AppIds |-> IF a \in mine THEN {} ELSE judged[a]]
      /\ UNCHANGED <<pc, locals, raced>>
  BY Zenon DEF DeleteAccount
<1>2. row.state = "removed"
  BY DEF Pending
<1> HIDE DEF row, mine
<1>3. \A a \in AppIds : (app'[a] = app[a] /\ judged'[a] = judged[a]) \/ app'[a] = row
  BY <1>1 DEF Typed, TablesTyped
<1>4. Standing'
  <2> SUFFICES ASSUME NEW a \in AppIds
               PROVE  Stands(a)'
    BY DEF Standing
  <2>1. CASE app'[a] = row
    BY <1>2, <2>1 DEF Stands
  <2>2. CASE app'[a] = app[a] /\ judged'[a] = judged[a]
    <3>1. Stands(a)
      BY DEF Reviewed, Standing
    <3> QED
      BY <1>1, <2>2, <3>1, Zenon DEF Stands
  <2> QED
    BY <1>3, <2>1, <2>2
<1>5. \A d \in Calls : pc[d] = "write" => id[d] \in AppIds
  BY CallHolds DEF Carries, AppPCs
<1>6. Undisturbed({})
  BY <1>1, <1>2, <1>3, <1>5 DEF Undisturbed
<1>7. Stand({}) /\ {} \in SUBSET Calls
  BY <1>1 DEF Stand, locals
<1>8. \A d \in {} : SaveOK(pc[d], id[d], seen[d], dirty[d])'
  OBVIOUS
<1>9. Saves'
  BY <1>6, <1>7, <1>8, SavesStay DEF Reviewed
<1> QED
  BY <1>4, <1>9 DEF Reviewed

LEMMA ReviewedStart == Init => Reviewed
<1> SUFFICES ASSUME Init PROVE Reviewed
  OBVIOUS
<1>1. NoEntity.state = "unused"
  BY DEF NoEntity, Pending
<1>2. Standing
  BY <1>1 DEF Init, Standing, Stands
<1>3. Saves
  BY DEF Init, Saves, SaveOK
<1> QED
  BY <1>2, <1>3 DEF Reviewed

LEMMA ReviewedStep == Typed /\ Ownership /\ Reviewed /\ [Next]_vars => Reviewed'
<1> SUFFICES ASSUME Typed, Ownership, Reviewed, [Next]_vars PROVE Reviewed'
  OBVIOUS
<1>1. ASSUME NEW c \in Calls, Start(c)
      PROVE  Reviewed'
  BY <1>1, StartReviewed
<1>2. ASSUME NEW c \in Calls, Statement(c) \/ Crash(c), Reject(c)
      PROVE  Reviewed'
  BY <1>2, ElsewhereReviewed
<1>3. ASSUME NEW c \in Calls, Statement(c), ~ Reject(c)
      PROVE  Reviewed'
  <2>1. CASE InsertApplication(c) \/ Reload(c) \/ Write(c) \/ Reinsert(c) \/ Delete(c)
    BY <1>3, <2>1, InsertReviewed, ReloadReviewed, WriteReviewed, ReinsertReviewed, DeleteReviewed
  <2>2. CASE PostFlyer(c) \/ FindMyFlyer(c) \/ ReloadFlyer(c) \/ WriteFlyer(c)
               \/ ReinsertFlyer(c) \/ DeleteFlyer(c)
    BY <1>3, <2>2, ElsewhereReviewed
  <2> QED
    BY <1>3, <2>1, <2>2 DEF Statement
<1>4. ASSUME UNCHANGED <<appVars, pc, locals>>
      PROVE  Reviewed'
  <2>1. app' = app /\ judged' = judged /\ raced' = raced
        /\ UNCHANGED <<pc, id, seen, page, draft, dirty>>
    BY <1>4 DEF appVars, locals
  <2>2. Standing'
    BY <2>1 DEF Reviewed, Standing, Stands
  <2>3. Saves'
    BY <2>1 DEF Reviewed, Saves, SaveOK
  <2> QED
    BY <2>2, <2>3 DEF Reviewed
<1>5. ASSUME NEW f \in FlyerIds, CreateFlyer(f)
      PROVE  Reviewed'
  BY <1>4, <1>5 DEF CreateFlyer
<1>6. ASSUME NEW u \in Users, DeleteAccount(u)
      PROVE  Reviewed'
  BY <1>6, DeleteAccountReviewed
<1>7. CASE UNCHANGED vars
  BY <1>4, <1>7 DEF vars, appVars, locals
<1>8. \A c \in Calls : Crash(c) => Reject(c)
  BY DEF Crash
<1> QED
  BY <1>1, <1>2, <1>3, <1>5, <1>6, <1>7, <1>8 DEF Next, Quiet

\* Where no write fell between the read and the write of another save, a review's
\* columns agree and what is approved is what an approval loaded: the columns a
\* save leaves out are still those its entity has.
THEOREM UnracedStand == Spec => []UnracedReviewStands
<1>1. Spec => []Reviewed
  BY ReviewedStart, ReviewedStep, OwnershipAlways, TypedAlways, PTL DEF Spec
<1>2. Reviewed => UnracedReviewStands
  BY StandingMeans DEF Reviewed
<1> QED
  BY <1>1, <1>2, PTL
=============================================================================
