---------------------------- MODULE PriceReaction ----------------------------
(***************************************************************************)
(* PriceReactionService (src/src/price-reaction): confirm and report, one  *)
(* transaction each, against removals of prices and accounts.              *)
(*                                                                         *)
(* A row of price_reactions is named after the call that inserted it; user *)
(* and price of the row are those of that call's request.                  *)
(***************************************************************************)

CONSTANTS Users, Prices, Calls, NoUser, NoCall, NoRequest

ASSUME ReactionAssumption ==
  /\ NoUser \notin Users
  /\ NoCall \notin Calls
  /\ NoRequest \notin [kind : {"confirm", "report"}, user : Users, price : Prices]

VARIABLES
  account,   \* users: "live", "gone"
  listed,    \* prices that exist
  owner,     \* prices: who registered it, NoUser when that account is gone
  pc,        \* the next statement of each call
  request,   \* what it asks for
  found,     \* the row it has locked
  row,       \* committed rows: the type, "none" where there is no row
  answer     \* what the call was told

subjects == <<account, listed, owner>>
vars == <<subjects, pc, request, found, row, answer>>

Kinds == {"confirm", "report"}
Request == [kind : Kinds, user : Users, price : Prices]
PCs == {"idle", "find", "price", "insert", "commit", "change", "done"}
Answers == {"none", "ok", "ignored", "conflict", "refused"}

TypeOK ==
  /\ account \in [Users -> {"live", "gone"}]
  /\ listed \subseteq Prices
  /\ owner \in [Prices -> Users \cup {NoUser}]
  /\ pc \in [Calls -> PCs]
  /\ request \in [Calls -> Request \cup {NoRequest}]
  /\ found \in [Calls -> Calls \cup {NoCall}]
  /\ row \in [Calls -> {"none"} \cup Kinds]
  /\ answer \in [Calls -> Answers]

Init ==
  /\ account = [u \in Users |-> "live"]
  /\ listed = Prices
  /\ owner \in [Prices -> Users]
  /\ pc = [c \in Calls |-> "idle"]
  /\ request = [c \in Calls |-> NoRequest]
  /\ found = [c \in Calls |-> NoCall]
  /\ row = [c \in Calls |-> "none"]
  /\ answer = [c \in Calls |-> "none"]

-----------------------------------------------------------------------------
At(c, where) == pc[c] = where
Goto(c, where) == pc' = [pc EXCEPT ![c] = where]

SameKey(c, d) ==
  /\ request[c].user = request[d].user
  /\ request[c].price = request[d].price

\* Committed rows of the user and the price of c.
Existing(c) == {r \in Calls : row[r] # "none" /\ SameKey(r, c)}

Locked(r) == \E d \in Calls : At(d, "change") /\ found[d] = r

\* The transaction ends, and its locks with it.
Finish(c, told) ==
  /\ Goto(c, "done")
  /\ found' = [found EXCEPT ![c] = NoCall]
  /\ answer' = [answer EXCEPT ![c] = told]
  /\ UNCHANGED <<subjects, request>>

Reject(c, told) == Finish(c, told) /\ UNCHANGED row

IsOwn(c) == owner[request[c].price] = request[c].user

\* Faulty variant: nobody catches the unique violation.
RepeatedUncaught(c) == "error"

\* What somebody is told whose reaction is there already.
Repeated(c) == IF request[c].kind = "confirm" THEN "ignored" ELSE "conflict"

-----------------------------------------------------------------------------
(* confirm and report *)

Start(c, q) ==
  /\ At(c, "idle")
  /\ account[q.user] = "live"
  /\ Goto(c, "find")
  /\ request' = [request EXCEPT ![c] = q]
  /\ UNCHANGED <<subjects, found, row, answer>>

\* The row is found: a report is not repeated, and nobody reacts to an own price.
Judge(c, r) ==
  IF request[c].kind = "report" /\ row[r] = "report" THEN Reject(c, "conflict")
  ELSE IF IsOwn(c) THEN Reject(c, "refused")
  ELSE /\ Goto(c, "change")
       /\ found' = [found EXCEPT ![c] = r]
       /\ UNCHANGED <<subjects, request, row, answer>>

\* No row is found.
Miss(c) ==
  /\ Existing(c) = {}
  /\ Goto(c, "price")
  /\ UNCHANGED <<subjects, request, found, row, answer>>

\* Faulty variant: the row is read without FOR UPDATE.
FindWithoutLock(c) == At(c, "find") /\ (Miss(c) \/ \E r \in Existing(c) : Judge(c, r))

\* findOne FOR UPDATE: it waits for a row that is locked, locks the row it
\* finds, and locks nothing when it finds none.
Find(c) ==
  /\ At(c, "find")
  /\ Miss(c) \/ \E r \in Existing(c) : ~ Locked(r) /\ Judge(c, r)

\* The locked row gets the other type, or a second confirm removes it: written
\* under the lock, shown by the commit.
Change(c) ==
  LET r == found[c]
      kind == request[c].kind IN
  /\ At(c, "change")
  /\ row' = [row EXCEPT ![r] = IF kind = "confirm" /\ @ = "confirm" THEN "none" ELSE kind]
  /\ Finish(c, "ok")

\* The price must exist and be somebody else's.
LoadPrice(c) ==
  LET p == request[c].price IN
  /\ At(c, "price")
  /\ IF p \notin listed \/ IsOwn(c)
     THEN Reject(c, "refused")
     ELSE Goto(c, "insert") /\ UNCHANGED <<subjects, request, found, row, answer>>

\* The foreign keys of the new row.
SubjectsExist(c) ==
  /\ request[c].price \in listed
  /\ account[request[c].user] = "live"

\* Faulty variant: (price, user) is not unique.
InsertUnchecked(c) ==
  /\ At(c, "insert")
  /\ IF ~ SubjectsExist(c)
     THEN Reject(c, "refused")
     ELSE Goto(c, "commit") /\ UNCHANGED <<subjects, request, found, row, answer>>

\* Faulty variant: no foreign keys.
InsertUnreferenced(c) ==
  /\ At(c, "insert")
  /\ ~ \E d \in Calls : At(d, "commit") /\ SameKey(d, c)
  /\ IF Existing(c) # {}
     THEN Reject(c, Repeated(c))
     ELSE Goto(c, "commit") /\ UNCHANGED <<subjects, request, found, row, answer>>

\* The insert waits for an uncommitted row with its key. A row that is there
\* makes it fail, and a commit of the failed transaction is a rollback.
Insert(c) ==
  /\ At(c, "insert")
  /\ ~ \E d \in Calls : At(d, "commit") /\ SameKey(d, c)
  /\ IF Existing(c) # {}
     THEN Reject(c, Repeated(c))
     ELSE IF ~ SubjectsExist(c)
     THEN Reject(c, "refused")
     ELSE Goto(c, "commit") /\ UNCHANGED <<subjects, request, found, row, answer>>

Commit(c) ==
  /\ At(c, "commit")
  /\ row' = [row EXCEPT ![c] = request[c].kind]
  /\ Finish(c, "ok")

\* The process or its connection dies: a rollback.
Crash(c) == pc[c] \notin {"idle", "done"} /\ Reject(c, "refused")

-----------------------------------------------------------------------------
(* Removals *)

\* Rows of the calls in S go: none of them may be locked, and none of their
\* inserts may be open, for it shares what is going.
Cascade(S) ==
  /\ \A c \in S : ~ At(c, "commit") /\ ~ Locked(c)
  /\ row' = [c \in Calls |-> IF c \in S THEN "none" ELSE row[c]]

\* PriceService.remove.
RemovePrice(p) ==
  /\ p \in listed
  /\ listed' = listed \ {p}
  /\ Cascade({c \in Calls : request[c] # NoRequest /\ request[c].price = p})
  /\ UNCHANGED <<account, owner, pc, request, found, answer>>

\* UserService.deleteAccount: the user's prices stay, without an owner.
DeleteAccount(u) ==
  /\ account[u] = "live"
  /\ account' = [account EXCEPT ![u] = "gone"]
  /\ owner' = [p \in Prices |-> IF owner[p] = u THEN NoUser ELSE owner[p]]
  /\ Cascade({c \in Calls : request[c] # NoRequest /\ request[c].user = u})
  /\ UNCHANGED <<listed, pc, request, found, answer>>

-----------------------------------------------------------------------------
Statement(c) == Find(c) \/ Change(c) \/ LoadPrice(c) \/ Insert(c) \/ Commit(c)

\* Every call has ended or not begun.
Quiet ==
  /\ \A c \in Calls : pc[c] \in {"idle", "done"}
  /\ UNCHANGED vars

Next ==
  \/ \E c \in Calls : (\E q \in Request : Start(c, q)) \/ Statement(c) \/ Crash(c)
  \/ \E p \in Prices : RemovePrice(p)
  \/ \E u \in Users : DeleteAccount(u)
  \/ Quiet

Spec == Init /\ [][Next]_vars

-----------------------------------------------------------------------------
(* Safety *)

\* A user has one reaction to a price, although two requests may both find
\* none and both insert.
OneReactionPerUser ==
  \A c, d \in Calls :
    row[c] # "none" /\ row[d] # "none" /\ SameKey(c, d) => c = d

\* No reaction is left behind a price or an account that went while its
\* request was under way.
NoOrphanedReaction ==
  \A c \in Calls : row[c] # "none" => SubjectsExist(c)

\* What users and administrators are shown of a user and a price.
ReactionIn(requests, rows, u, p) ==
  LET mine == {c \in Calls : /\ rows[c] # "none"
                             /\ requests[c].user = u
                             /\ requests[c].price = p}
  IN IF mine = {} THEN "none" ELSE rows[CHOOSE c \in mine : TRUE]

ReactionOf(u, p) == ReactionIn(request, row, u, p)

\* Every request, however it overlaps others, does and says what ReactionRegister
\* does and says in one step: no flip is lost, and none is counted twice.
Register == INSTANCE ReactionRegister
              WITH reaction <- [u \in Users |-> [p \in Prices |-> ReactionOf(u, p)]]
ImplementsRegister == Register!Spec
=============================================================================
