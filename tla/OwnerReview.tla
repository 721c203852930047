------------------------------ MODULE OwnerReview ------------------------------
(***************************************************************************)
(* OwnerApplicationService (src/src/owner-application) and the flyers that *)
(* an approved owner may post (src/src/flyer/flyer.service.ts).            *)
(*                                                                         *)
(* Both services load an entity, change it and hand it to repository.save, *)
(* outside any transaction: save reads the row again, writes the columns   *)
(* in which the entity differs from it, and inserts the entity when the    *)
(* row is gone.  A step is one such statement.  A slot of Calls runs one   *)
(* request after another.                                                  *)
(***************************************************************************)

CONSTANTS
  Users, Stores,
  AppIds,     \* ids of owner_applications, never reused
  FlyerIds,   \* ids of flyers, never reused
  Calls,      \* requests that may run at once
  NoUser, NoStore, NoApp, NoFlyer

ASSUME ReviewAssumption ==
  /\ NoUser \notin Users
  /\ NoStore \notin Stores
  /\ NoApp \notin AppIds
  /\ NoFlyer \notin FlyerIds

VARIABLES
  account,   \* users: "live", "gone"
  app,       \* rows of owner_applications
  flyer,     \* rows of flyers
  pc,        \* the next statement of each call
  id,        \* the application it works on
  seen,      \* the application entity it loaded, and changed
  page,      \* the flyer it works on
  draft,     \* the flyer entity it loaded, and changed
  dirty,     \* the columns its save found different
  judged,    \* history: stores an approval loaded, since the last edit
  raced      \* history: applications written between a save's read and write

appVars == <<app, judged, raced>>
locals == <<id, seen, page, draft, dirty>>
vars == <<account, app, flyer, pc, id, seen, page, draft, dirty, judged, raced>>

States == {"unused", "stored", "removed"}
Statuses == {"pending", "approved", "rejected"}

\* The store stands for everything the owner submits; of the reason and of the
\* time of review only whether they are NULL.
AppRow == [state           : States,
           user            : Users \cup {NoUser},
           store           : Stores \cup {NoStore},
           status          : Statuses,
           rejectionReason : BOOLEAN,
           reviewedAt      : BOOLEAN]

\* What a flyer shows is left out. The author is not a column: it tells whose
\* request posted the flyer.
FlyerRow == [state       : States,
             application : AppIds \cup {NoApp},
             author      : Users \cup {NoUser}]

AppColumns == {"store", "status", "rejectionReason", "reviewedAt"}

Pending(state, u, s) ==
  [state |-> state, user |-> u, store |-> s, status |-> "pending",
   rejectionReason |-> FALSE, reviewedAt |-> FALSE]

Flyer(state, a, u) == [state |-> state, application |-> a, author |-> u]

NoEntity == Pending("unused", NoUser, NoStore)
NoDraft == Flyer("unused", NoApp, NoUser)

PCs == {"idle", "insert", "reload", "write", "reinsert", "delete",
        "post", "edit", "remove",
        "flyerReload", "flyerWrite", "flyerReinsert", "flyerDelete"}

TypeOK ==
  /\ account \in [Users -> {"live", "gone"}]
  /\ app \in [AppIds -> AppRow]
  /\ \A a \in AppIds : app[a].state = "stored" =>       \* NOT NULL
       app[a].user \in Users /\ app[a].store \in Stores
  /\ flyer \in [FlyerIds -> FlyerRow]
  /\ pc \in [Calls -> PCs]
  /\ id \in [Calls -> AppIds \cup {NoApp}]
  /\ seen \in [Calls -> AppRow]
  /\ page \in [Calls -> FlyerIds \cup {NoFlyer}]
  /\ draft \in [Calls -> FlyerRow]
  /\ dirty \in [Calls -> SUBSET (AppColumns \cup {"application"})]
  /\ judged \in [AppIds -> SUBSET Stores]
  /\ raced \subseteq AppIds

Init ==
  /\ account = [u \in Users |-> "live"]
  /\ app = [a \in AppIds |-> NoEntity]
  /\ flyer = [f \in FlyerIds |-> NoDraft]
  /\ pc = [c \in Calls |-> "idle"]
  /\ id = [c \in Calls |-> NoApp]
  /\ seen = [c \in Calls |-> NoEntity]
  /\ page = [c \in Calls |-> NoFlyer]
  /\ draft = [c \in Calls |-> NoDraft]
  /\ dirty = [c \in Calls |-> {}]
  /\ judged = [a \in AppIds |-> {}]
  /\ raced = {}

-----------------------------------------------------------------------------
At(c, where) == pc[c] = where

\* The request is answered, with a result or an error.
End(c) ==
  /\ pc' = [pc EXCEPT ![c] = "idle"]
  /\ id' = [id EXCEPT ![c] = NoApp]
  /\ seen' = [seen EXCEPT ![c] = NoEntity]
  /\ page' = [page EXCEPT ![c] = NoFlyer]
  /\ draft' = [draft EXCEPT ![c] = NoDraft]
  /\ dirty' = [dirty EXCEPT ![c] = {}]

Reject(c) == End(c) /\ UNCHANGED <<account, appVars, flyer>>

\* A request loads application a; what it makes of the entity is e.
LoadApp(c, where, a, e) ==
  /\ At(c, "idle")
  /\ app[a].state = "stored"
  /\ pc' = [pc EXCEPT ![c] = where]
  /\ id' = [id EXCEPT ![c] = a]
  /\ seen' = [seen EXCEPT ![c] = e]
  /\ UNCHANGED <<account, page, draft, dirty, appVars, flyer>>

\* user_id is unique.
Applied(u) == \E a \in AppIds : app[a].state = "stored" /\ app[a].user = u

-----------------------------------------------------------------------------
(* OwnerApplicationService *)

\* createMyApplication, the read.
StartApplication(c, u, s) ==
  /\ At(c, "idle")
  /\ account[u] = "live"
  /\ ~ Applied(u)
  /\ pc' = [pc EXCEPT ![c] = "insert"]
  /\ seen' = [seen EXCEPT ![c] = Pending("stored", u, s)]
  /\ UNCHANGED <<account, id, page, draft, dirty, appVars, flyer>>

\* Faulty variant: user_id is not unique.
InsertUnchecked(c) ==
  /\ At(c, "insert")
  /\ \E a \in AppIds :
       /\ app[a].state = "unused"
       /\ app' = [app EXCEPT ![a] = seen[c]]
  /\ End(c)
  /\ UNCHANGED <<account, flyer, judged, raced>>

\* createMyApplication, the insert.
InsertApplication(c) ==
  LET u == seen[c].user IN
  /\ At(c, "insert")
  /\ IF Applied(u) \/ account[u] = "gone"
     THEN Reject(c)
     ELSE /\ \E a \in AppIds :
               /\ app[a].state = "unused"
               /\ app' = [app EXCEPT ![a] = seen[c]]
          /\ End(c)
          /\ UNCHANGED <<account, flyer, judged, raced>>

\* updateMyApplication: whatever the status was, it is pending again. The entity
\* is loaded without its user.
UpdateApplication(c, a, s) == LoadApp(c, "reload", a, Pending("stored", NoUser, s))

\* removeMyApplication.
RemoveApplication(c, a) == LoadApp(c, "delete", a, app[a])

\* approve, of a pending application.
Approve(c, a) ==
  /\ app[a].status = "pending"
  /\ LoadApp(c, "reload", a, [app[a] EXCEPT !.status = "approved",
                                            !.rejectionReason = FALSE,
                                            !.reviewedAt = TRUE])

\* reject, of a pending application.
RejectApplication(c, a) ==
  /\ app[a].status = "pending"
  /\ LoadApp(c, "reload", a, [app[a] EXCEPT !.status = "rejected",
                                            !.rejectionReason = TRUE,
                                            !.reviewedAt = TRUE])

\* Faulty variant: save writes the columns that the request has set, and no others.
ReloadAssigned(c) ==
  /\ At(c, "reload")
  /\ app[id[c]].state = "stored"
  /\ dirty' = [dirty EXCEPT ![c] =
       IF seen[c].status = "pending" THEN AppColumns ELSE AppColumns \ {"store"}]
  /\ pc' = [pc EXCEPT ![c] = "write"]
  /\ UNCHANGED <<account, id, seen, page, draft, appVars, flyer>>

\* save, the read. A new time of review always differs.
Reload(c) ==
  LET row == app[id[c]] IN
  /\ At(c, "reload")
  /\ IF row.state = "stored"
     THEN /\ dirty' = [dirty EXCEPT ![c] =
                         {k \in AppColumns : seen[c][k] # row[k]}
                           \cup {k \in {"reviewedAt"} : seen[c][k]}]
          /\ pc' = [pc EXCEPT ![c] = "write"]
     ELSE /\ pc' = [pc EXCEPT ![c] = "reinsert"]
          /\ UNCHANGED dirty
  /\ UNCHANGED <<account, id, seen, page, draft, appVars, flyer>>

\* What the write of a leaves for the properties to tell.
Record(c, a) ==
  /\ judged' = [judged EXCEPT ![a] =
       CASE seen[c].status = "approved" -> @ \cup {seen[c].store}
         [] seen[c].status = "pending"  -> {}
         [] OTHER                       -> @]
  /\ raced' = IF \E d \in Calls \ {c} : id[d] = a /\ pc[d] \in {"write", "reinsert"}
              THEN raced \cup {a} ELSE raced

\* save, the UPDATE of the differing columns; a row removed since is not missed.
Write(c) ==
  LET a == id[c] IN
  /\ At(c, "write")
  /\ IF app[a].state # "stored"
     THEN Reject(c)
     ELSE /\ app' = [app EXCEPT ![a] =
               [k \in DOMAIN @ |-> IF k \in dirty[c] THEN seen[c][k] ELSE @[k]]]
          /\ Record(c, a)
          /\ End(c)
          /\ UNCHANGED <<account, flyer>>

\* Faulty variant: user_id may be NULL.
ReinsertWithoutUser(c) ==
  /\ At(c, "reinsert")
  /\ app' = [app EXCEPT ![id[c]] = seen[c]]
  /\ Record(c, id[c])
  /\ End(c)
  /\ UNCHANGED <<account, flyer>>

\* save, the INSERT of an entity whose row was gone: an edit's has no user and
\* fails, a review's brings the application back.
Reinsert(c) ==
  LET a == id[c] IN
  /\ At(c, "reinsert")
  /\ IF \/ seen[c].user = NoUser
        \/ account[seen[c].user] = "gone"
        \/ Applied(seen[c].user)
     THEN Reject(c)
     ELSE /\ app' = [app EXCEPT ![a] = seen[c]]
          /\ Record(c, a)
          /\ End(c)
          /\ UNCHANGED <<account, flyer>>

\* Faulty variant: ON DELETE does nothing.
FlyersUntouched(gone) == flyer

\* ON DELETE SET NULL: flyers outlive the application.
Orphaned(gone) ==
  [f \in FlyerIds |-> IF flyer[f].application \in gone
                      THEN [flyer[f] EXCEPT !.application = NoApp] ELSE flyer[f]]

\* removeMyApplication, the DELETE.
Delete(c) ==
  LET a == id[c] IN
  /\ At(c, "delete")
  /\ app' = [app EXCEPT ![a] = Pending("removed", NoUser, NoStore)]
  /\ flyer' = Orphaned({a})
  /\ End(c)
  /\ judged' = [judged EXCEPT ![a] = {}]
  /\ UNCHANGED <<account, raced>>

-----------------------------------------------------------------------------
(* FlyerService *)

\* getApprovedOwnerApplication, on the way to post, edit or remove a flyer.
ApprovedApplication(c, u, where) ==
  \E a \in AppIds : /\ app[a].user = u
                    /\ app[a].status = "approved"
                    /\ LoadApp(c, where, a, app[a])

\* createMyFlyer, the insert: the application must still be there.
PostFlyer(c) ==
  /\ At(c, "post")
  /\ IF app[id[c]].state # "stored"
     THEN Reject(c)
     ELSE /\ \E f \in FlyerIds :
               /\ flyer[f].state = "unused"
               /\ flyer' = [flyer EXCEPT ![f] =
                    Flyer("stored", id[c], seen[c].user)]
          /\ End(c)
          /\ UNCHANGED <<account, appVars>>

\* A request goes on with flyer f.
LoadFlyer(c, where, f) ==
  /\ flyer[f].state = "stored"
  /\ pc' = [pc EXCEPT ![c] = where]
  /\ page' = [page EXCEPT ![c] = f]
  /\ draft' = [draft EXCEPT ![c] = flyer[f]]
  /\ UNCHANGED <<account, id, seen, dirty, appVars, flyer>>

\* updateMyFlyer and removeMyFlyer: the flyer must belong to the application.
FindMyFlyer(c) ==
  LET mine == {f \in FlyerIds : flyer[f].application = id[c]} IN
  \/ At(c, "edit")   /\ \E f \in mine : LoadFlyer(c, "flyerReload", f)
  \/ At(c, "remove") /\ \E f \in mine : LoadFlyer(c, "flyerDelete", f)
  \/ pc[c] \in {"edit", "remove"} /\ mine = {} /\ Reject(c)

\* createFlyer, by an administrator, for no application.
CreateFlyer(f) ==
  /\ flyer[f].state = "unused"
  /\ flyer' = [flyer EXCEPT ![f] = Flyer("stored", NoApp, NoUser)]
  /\ UNCHANGED <<account, appVars, pc, locals>>

\* updateFlyer and removeFlyer, by an administrator: any flyer.
FindFlyer(c, f) ==
  /\ At(c, "idle")
  /\ LoadFlyer(c, "flyerReload", f) \/ LoadFlyer(c, "flyerDelete", f)

\* save, the read.
ReloadFlyer(c) ==
  LET row == flyer[page[c]] IN
  /\ At(c, "flyerReload")
  /\ IF row.state = "stored"
     THEN /\ dirty' = [dirty EXCEPT ![c] = {k \in {"application"} : draft[c][k] # row[k]}]
          /\ pc' = [pc EXCEPT ![c] = "flyerWrite"]
     ELSE /\ pc' = [pc EXCEPT ![c] = "flyerReinsert"]
          /\ UNCHANGED dirty
  /\ UNCHANGED <<account, id, seen, page, draft, appVars, flyer>>

\* The foreign key of the draft's application, if it is written.
References(c) == draft[c].application # NoApp /\ app[draft[c].application].state # "stored"

\* save, the UPDATE.
WriteFlyer(c) ==
  LET f == page[c] IN
  /\ At(c, "flyerWrite")
  /\ IF flyer[f].state # "stored" \/ ("application" \in dirty[c] /\ References(c))
     THEN Reject(c)
     ELSE /\ flyer' = [flyer EXCEPT ![f] =
                [k \in DOMAIN @ |-> IF k \in dirty[c] THEN draft[c][k] ELSE @[k]]]
          /\ End(c)
          /\ UNCHANGED <<account, appVars>>

\* save, the INSERT of a flyer that is gone.
ReinsertFlyer(c) ==
  LET f == page[c] IN
  /\ At(c, "flyerReinsert")
  /\ IF flyer[f].state = "stored" \/ References(c)
     THEN Reject(c)
     ELSE /\ flyer' = [flyer EXCEPT ![f] = draft[c]]
          /\ End(c)
          /\ UNCHANGED <<account, appVars>>

\* removeFlyer and removeMyFlyer, the DELETE.
DeleteFlyer(c) ==
  LET f == page[c] IN
  /\ At(c, "flyerDelete")
  /\ flyer' = [flyer EXCEPT ![f] = Flyer("removed", NoApp, NoUser)]
  /\ End(c)
  /\ UNCHANGED <<account, appVars>>

-----------------------------------------------------------------------------
\* UserService.deleteAccount: the application goes with the user.
DeleteAccount(u) ==
  LET mine == {a \in AppIds : app[a].state = "stored" /\ app[a].user = u} IN
  /\ account[u] = "live"
  /\ account' = [account EXCEPT ![u] = "gone"]
  /\ app' = [a \in AppIds |-> IF a \in mine THEN Pending("removed", NoUser, NoStore)
                                            ELSE app[a]]
  /\ flyer' = Orphaned(mine)
  /\ judged' = [a \in AppIds |-> IF a \in mine THEN {} ELSE judged[a]]
  /\ UNCHANGED <<pc, locals, raced>>

\* The process dies between two statements.
Crash(c) == pc[c] # "idle" /\ Reject(c)

Quiet ==
  /\ \A c \in Calls : pc[c] = "idle"
  /\ UNCHANGED vars

Statement(c) ==
  \/ InsertApplication(c) \/ Reload(c) \/ Write(c) \/ Reinsert(c) \/ Delete(c)
  \/ PostFlyer(c) \/ FindMyFlyer(c) \/ ReloadFlyer(c) \/ WriteFlyer(c)
  \/ ReinsertFlyer(c) \/ DeleteFlyer(c)

Start(c) ==
  \/ \E u \in Users, s \in Stores : StartApplication(c, u, s)
  \/ \E a \in AppIds, s \in Stores : UpdateApplication(c, a, s)
  \/ \E a \in AppIds : RemoveApplication(c, a) \/ Approve(c, a) \/ RejectApplication(c, a)
  \/ \E u \in Users, where \in {"post", "edit", "remove"} : ApprovedApplication(c, u, where)
  \/ \E f \in FlyerIds : FindFlyer(c, f)

Next ==
  \/ \E c \in Calls : Start(c) \/ Statement(c) \/ Crash(c)
  \/ \E f \in FlyerIds : CreateFlyer(f)
  \/ \E u \in Users : DeleteAccount(u)
  \/ Quiet

Spec == Init /\ [][Next]_vars

-----------------------------------------------------------------------------
(* Safety *)

\* A user has one application, although two requests may both find none.
OneApplicationPerUser ==
  \A a, b \in AppIds :
    app[a].state = "stored" /\ app[b].state = "stored" /\ app[a].user = app[b].user
      => a = b

\* Where no write fell between the read and the write of another save, the
\* columns of a review agree, and what is approved is what the approval loaded,
\* however long before its save an edit, a withdrawal or a second review ran.
UnracedReviewStands ==
  \A a \in AppIds \ raced : app[a].state = "stored" =>
    /\ app[a].reviewedAt <=> app[a].status # "pending"
    /\ app[a].rejectionReason <=> app[a].status = "rejected"
    /\ app[a].status = "approved" => app[a].store \in judged[a]

\* A flyer's application exists and is its author's, through withdrawals, new
\* applications and saves of drafts that still name an old one.
FlyersFollowApplication ==
  \A f \in FlyerIds : flyer[f].application # NoApp =>
    /\ app[flyer[f].application].state = "stored"
    /\ app[flyer[f].application].user = flyer[f].author

\* owner-application.service.ts:156 says an edit resets the status for another
\* review: an approved application holds what some approval loaded since.
EditsAreReviewed ==
  \A a \in AppIds : app[a].state = "stored" /\ app[a].status = "approved"
    => app[a].store \in judged[a]
=============================================================================
