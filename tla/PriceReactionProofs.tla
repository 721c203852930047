-------------------------- MODULE PriceReactionProofs --------------------------
(***************************************************************************)
(* Theorems about PriceReaction, for any users, prices and calls.          *)
(***************************************************************************)
EXTENDS PriceReaction, TLAPS

\* A call has a request once it has begun, and neither a row nor an answer
\* before it has ended.
AskedOK ==
  \A c \in Calls :
    /\ pc[c] = "idle" => request[c] = NoRequest
    /\ pc[c] # "idle" => request[c] \in Request
    /\ pc[c] # "done" => row[c] = "none" /\ answer[c] = "none"

\* A row about to change exists, is the caller's and is locked by one call; a
\* report changes a confirm.
LockOK ==
  \A c \in Calls : pc[c] = "change" =>
    /\ found[c] \in Calls
    /\ row[found[c]] # "none"
    /\ SameKey(found[c], c)
    /\ request[c].kind = "report" => row[found[c]] = "confirm"
    /\ \A d \in Calls : pc[d] = "change" /\ found[d] = found[c] => d = c

\* A row inserted and not committed is the only one of its key, and what it
\* refers to exists.
OpenOK ==
  \A c \in Calls : pc[c] = "commit" =>
    /\ \A r \in Calls : row[r] # "none" => ~ SameKey(r, c)
    /\ SubjectsExist(c)
    /\ \A d \in Calls : pc[d] = "commit" /\ SameKey(d, c) => d = c

\* The inductive invariant.
IInv ==
  /\ TypeOK
  /\ AskedOK
  /\ LockOK
  /\ OpenOK
  /\ OneReactionPerUser
  /\ NoOrphanedReaction

-----------------------------------------------------------------------------
\* The initial states satisfy the invariant.
LEMMA InitHolds == Init => IInv
<1> SUFFICES ASSUME Init PROVE IInv
  OBVIOUS
<1>1. TypeOK
  BY DEF Init, TypeOK, PCs, Answers
<1>2. AskedOK /\ LockOK /\ OpenOK /\ OneReactionPerUser /\ NoOrphanedReaction
  BY DEF Init, AskedOK, LockOK, OpenOK, OneReactionPerUser, NoOrphanedReaction
<1> QED
  BY <1>1, <1>2 DEF IInv

\* A call that ends without touching a row keeps the invariant.
LEMMA RejectHolds ==
  ASSUME IInv, NEW c \in Calls, NEW told \in Answers \ {"none"},
         pc[c] # "idle", Reject(c, told)
  PROVE  IInv'
<1> USE ReactionAssumption
<1> USE DEF IInv, Reject, Finish, Goto, subjects
<1>1. TypeOK'
  BY DEF TypeOK, PCs, Answers
<1>2. AskedOK'
  BY DEF TypeOK, AskedOK, PCs
<1>3. LockOK'
  BY DEF TypeOK, AskedOK, LockOK, SameKey
<1>4. OpenOK'
  BY DEF TypeOK, OpenOK, SameKey, SubjectsExist
<1>5. OneReactionPerUser' /\ NoOrphanedReaction'
  BY DEF TypeOK, OneReactionPerUser, NoOrphanedReaction, SameKey, SubjectsExist
<1> QED
  BY <1>1, <1>2, <1>3, <1>4, <1>5

\* A call that goes on to a statement at which it has no lock and no open row
\* keeps the invariant.
LEMMA GotoHolds ==
  ASSUME IInv, NEW c \in Calls, NEW where \in {"price", "insert"},
         pc[c] \notin {"idle", "done"}, Goto(c, where),
         UNCHANGED <<subjects, request, found, row, answer>>
  PROVE  IInv'
<1> USE DEF IInv, Goto, subjects
<1>1. TypeOK'
  BY DEF TypeOK, PCs
<1>2. AskedOK'
  BY DEF TypeOK, AskedOK, PCs
<1>3. LockOK'
  BY DEF TypeOK, LockOK, SameKey
<1>4. OpenOK'
  BY DEF TypeOK, OpenOK, SameKey, SubjectsExist
<1>5. OneReactionPerUser' /\ NoOrphanedReaction'
  BY DEF TypeOK, OneReactionPerUser, NoOrphanedReaction, SameKey, SubjectsExist
<1> QED
  BY <1>1, <1>2, <1>3, <1>4, <1>5

\* The start of a call keeps the invariant: an idle call has no row.
LEMMA StartHolds ==
  ASSUME IInv, NEW c \in Calls, NEW q \in Request, Start(c, q)
  PROVE  IInv'
<1> USE DEF IInv, Start, At, Goto, subjects
<1>1. TypeOK'
  BY DEF TypeOK, PCs
<1>2. AskedOK'
  BY DEF TypeOK, AskedOK, PCs
<1>3. \A d \in Calls \ {c} : request'[d] = request[d] /\ pc'[d] = pc[d]
  BY DEF TypeOK
<1>4. row[c] = "none"
  BY DEF AskedOK
<1>5. LockOK'
  BY <1>3, <1>4 DEF TypeOK, LockOK, SameKey
<1>6. OpenOK'
  BY <1>3, <1>4 DEF TypeOK, OpenOK, SameKey, SubjectsExist
<1>7. OneReactionPerUser' /\ NoOrphanedReaction'
  BY <1>3, <1>4 DEF TypeOK, OneReactionPerUser, NoOrphanedReaction, SameKey, SubjectsExist
<1> QED
  BY <1>1, <1>2, <1>5, <1>6, <1>7

\* The look-up keeps the invariant: it locks a row that nobody has locked.
LEMMA FindHolds ==
  ASSUME IInv, NEW c \in Calls, Find(c)
  PROVE  IInv'
<1> USE DEF At
<1>0. pc[c] = "find"
  BY DEF Find
<1>1. CASE Miss(c)
  BY <1>0, <1>1, GotoHolds DEF Miss
<1>2. ASSUME NEW r \in Existing(c), ~ Locked(r), Judge(c, r)
      PROVE  IInv'
  <2>1. CASE Reject(c, "conflict") \/ Reject(c, "refused")
    BY <1>0, <2>1, RejectHolds DEF Answers
  <2>2. CASE /\ ~ (request[c].kind = "report" /\ row[r] = "report")
             /\ Goto(c, "change")
             /\ found' = [found EXCEPT ![c] = r]
             /\ UNCHANGED <<subjects, request, row, answer>>
    <3> USE <1>0, <2>2 DEF IInv, Goto, subjects
    <3>1. r \in Calls /\ row[r] # "none" /\ SameKey(r, c)
      BY <1>2 DEF Existing
    <3>2. TypeOK'
      BY <3>1 DEF TypeOK, PCs
    <3>3. AskedOK'
      BY DEF TypeOK, AskedOK, PCs
    <3>4. \A d \in Calls : pc[d] = "change" => found[d] # r
      BY <1>2 DEF Locked
    <3>5. request[c].kind = "report" => row[r] = "confirm"
      BY <3>1 DEF TypeOK, Kinds
    <3>6. LockOK'
      BY <3>1, <3>4, <3>5 DEF TypeOK, LockOK, SameKey
    <3>7. OpenOK'
      BY DEF TypeOK, OpenOK, SameKey, SubjectsExist
    <3>8. OneReactionPerUser' /\ NoOrphanedReaction'
      BY DEF TypeOK, OneReactionPerUser, NoOrphanedReaction, SameKey, SubjectsExist
    <3> QED
      BY <3>2, <3>3, <3>6, <3>7, <3>8
  <2> QED
    BY <1>2, <2>1, <2>2 DEF Judge
<1> QED
  BY <1>1, <1>2 DEF Find

\* The change of a locked row keeps the invariant: nobody else holds it.
LEMMA ChangeHolds ==
  ASSUME IInv, NEW c \in Calls, Change(c)
  PROVE  IInv'
<1> DEFINE r == found[c]
<1> USE ReactionAssumption
<1> USE DEF IInv, Change, Finish, At, Goto, subjects
<1>1. r \in Calls /\ row[r] # "none" /\ r # c
  BY DEF LockOK, AskedOK
<1>2. /\ \A d \in Calls \ {r} : row'[d] = row[d]
      /\ row'[r] \in {"none"} \cup Kinds
  BY <1>1 DEF TypeOK, AskedOK, Request
<1>3. TypeOK'
  BY <1>1, <1>2 DEF TypeOK, PCs, Answers, AskedOK, Request, Kinds
<1>4. AskedOK'
  BY <1>1, <1>2 DEF TypeOK, AskedOK, PCs
<1>5. \A d \in Calls : pc'[d] = "change" => pc[d] = "change" /\ found'[d] = found[d] /\ found[d] # r
  BY DEF TypeOK, LockOK
<1>6. LockOK'
  BY <1>2, <1>5 DEF TypeOK, LockOK, SameKey
<1>7. OpenOK'
  BY <1>1, <1>2 DEF TypeOK, OpenOK, SameKey, SubjectsExist
<1>8. OneReactionPerUser' /\ NoOrphanedReaction'
  BY <1>1, <1>2 DEF TypeOK, OneReactionPerUser, NoOrphanedReaction, SameKey, SubjectsExist
<1> QED
  BY <1>3, <1>4, <1>6, <1>7, <1>8

\* The insert keeps the invariant: it goes on only when the key is free and
\* nobody else has it open.
LEMMA InsertHolds ==
  ASSUME IInv, NEW c \in Calls, Insert(c)
  PROVE  IInv'
<1> USE DEF At
<1>0. pc[c] = "insert"
  BY DEF Insert
<1>1. CASE \E told \in Answers \ {"none"} : Reject(c, told)
  BY <1>0, <1>1, RejectHolds
<1>2. CASE /\ Existing(c) = {}
           /\ SubjectsExist(c)
           /\ Goto(c, "commit")
           /\ UNCHANGED <<subjects, request, found, row, answer>>
  <2> USE <1>0, <1>2 DEF IInv, Goto, subjects
  <2>1. \A d \in Calls : pc[d] = "commit" => ~ SameKey(d, c)
    BY DEF Insert
  <2>2. \A d \in Calls : row[d] # "none" => ~ SameKey(d, c)
    BY DEF Existing
  <2>3. TypeOK'
    BY DEF TypeOK, PCs
  <2>4. AskedOK'
    BY DEF TypeOK, AskedOK, PCs
  <2>5. LockOK'
    BY DEF TypeOK, LockOK, SameKey
  <2>6. OpenOK'
    BY <2>1, <2>2 DEF TypeOK, OpenOK, SameKey, SubjectsExist
  <2>7. OneReactionPerUser' /\ NoOrphanedReaction'
    BY DEF TypeOK, OneReactionPerUser, NoOrphanedReaction, SameKey, SubjectsExist
  <2> QED
    BY <2>3, <2>4, <2>5, <2>6, <2>7
<1> QED
  BY <1>1, <1>2 DEF Insert, Repeated, Answers

\* The commit of a new row keeps the invariant: its key is still free.
LEMMA CommitHolds ==
  ASSUME IInv, NEW c \in Calls, Commit(c)
  PROVE  IInv'
<1> USE ReactionAssumption
<1> USE DEF IInv, Commit, Finish, At, Goto, subjects
<1>1. /\ row[c] = "none"
      /\ row'[c] \in Kinds
      /\ \A d \in Calls \ {c} : row'[d] = row[d]
  BY DEF TypeOK, AskedOK, Request
<1>2. TypeOK'
  BY DEF TypeOK, PCs, Answers, AskedOK, Request
<1>3. AskedOK'
  BY <1>1 DEF TypeOK, AskedOK, PCs
<1>4. LockOK'
  BY <1>1 DEF TypeOK, LockOK, SameKey
<1>5. OpenOK'
  BY <1>1 DEF TypeOK, OpenOK, SameKey, SubjectsExist
<1>6. OneReactionPerUser' /\ NoOrphanedReaction'
  BY <1>1 DEF TypeOK, OneReactionPerUser, NoOrphanedReaction, OpenOK, SameKey, SubjectsExist
<1> QED
  BY <1>2, <1>3, <1>4, <1>5, <1>6

\* A removal keeps the invariant: it waits for locked rows and open inserts of
\* what is going, and takes all other rows of it along.
LEMMA RemovalHolds ==
  ASSUME IInv,
         \/ \E p \in Prices : RemovePrice(p)
         \/ \E u \in Users : DeleteAccount(u)
  PROVE  IInv'
<1> USE ReactionAssumption
<1>1. ASSUME NEW S \in SUBSET Calls, Cascade(S),
             UNCHANGED <<pc, request, found, answer>>, TypeOK',
             \A c \in Calls : request[c] # NoRequest /\ SubjectsExist(c) /\ ~ SubjectsExist(c)' => c \in S
      PROVE  IInv'
  <2> USE <1>1 DEF IInv, Cascade, At
  <2>1. /\ \A c \in S : row'[c] = "none"
        /\ \A c \in Calls \ S : row'[c] = row[c]
    OBVIOUS
  <2>2. \A c \in Calls : row'[c] # "none" => c \notin S /\ row[c] = row'[c]
    BY <2>1
  <2>3. AskedOK'
    BY <2>1 DEF AskedOK
  <2>4. \A c \in Calls : pc[c] = "change" => found[c] \notin S
    BY DEF Locked
  <2>5. LockOK'
    BY <2>1, <2>4 DEF LockOK, SameKey
  <2>6. \A c \in Calls : row[c] # "none" \/ pc[c] = "commit" => request[c] # NoRequest
    BY DEF AskedOK, Request, Kinds
  <2>7. OpenOK'
    BY <2>2, <2>6 DEF OpenOK, SameKey
  <2>8. OneReactionPerUser' /\ NoOrphanedReaction'
    BY <2>2, <2>6 DEF OneReactionPerUser, NoOrphanedReaction, SameKey
  <2> QED
    BY <2>3, <2>5, <2>7, <2>8
<1>2. ASSUME NEW p \in Prices, RemovePrice(p)
      PROVE  IInv'
  <2> DEFINE S == {c \in Calls : request[c] # NoRequest /\ request[c].price = p}
  <2>1. TypeOK'
    BY <1>2 DEF IInv, RemovePrice, Cascade, TypeOK
  <2>2. \A c \in Calls : request[c] # NoRequest /\ SubjectsExist(c) /\ ~ SubjectsExist(c)' => c \in S
    BY <1>2 DEF RemovePrice, SubjectsExist
  <2> QED
    BY <1>1, <1>2, <2>1, <2>2 DEF RemovePrice
<1>3. ASSUME NEW u \in Users, DeleteAccount(u)
      PROVE  IInv'
  <2> DEFINE S == {c \in Calls : request[c] # NoRequest /\ request[c].user = u}
  <2>1. TypeOK'
    BY <1>3 DEF IInv, DeleteAccount, Cascade, TypeOK
  <2>2. \A c \in Calls : request[c] # NoRequest /\ SubjectsExist(c) /\ ~ SubjectsExist(c)' => c \in S
    BY <1>3 DEF IInv, TypeOK, DeleteAccount, SubjectsExist, Request
  <2> QED
    BY <1>1, <1>3, <2>1, <2>2 DEF DeleteAccount
<1> QED
  BY <1>2, <1>3

\* Every step keeps the invariant.
LEMMA NextHolds == IInv /\ [Next]_vars => IInv'
<1> SUFFICES ASSUME IInv, [Next]_vars PROVE IInv'
  OBVIOUS
<1>1. ASSUME NEW c \in Calls, NEW q \in Request, Start(c, q) PROVE IInv'
  BY <1>1, StartHolds
<1>2. ASSUME NEW c \in Calls, Find(c) PROVE IInv'
  BY <1>2, FindHolds
<1>3. ASSUME NEW c \in Calls, Change(c) PROVE IInv'
  BY <1>3, ChangeHolds
<1>4. ASSUME NEW c \in Calls, LoadPrice(c) PROVE IInv'
  BY <1>4, RejectHolds, GotoHolds DEF LoadPrice, At, Answers
<1>5. ASSUME NEW c \in Calls, Insert(c) PROVE IInv'
  BY <1>5, InsertHolds
<1>6. ASSUME NEW c \in Calls, Commit(c) PROVE IInv'
  BY <1>6, CommitHolds
<1>7. ASSUME NEW c \in Calls, Crash(c) PROVE IInv'
  BY <1>7, RejectHolds DEF Crash, Answers
<1>8. CASE \/ \E p \in Prices : RemovePrice(p)
           \/ \E u \in Users : DeleteAccount(u)
  BY <1>8, RemovalHolds
<1>9. CASE UNCHANGED vars
  BY <1>9 DEF vars, subjects, IInv, TypeOK, AskedOK, LockOK, OpenOK, OneReactionPerUser,
              NoOrphanedReaction, SameKey, SubjectsExist
<1> QED
  BY <1>1, <1>2, <1>3, <1>4, <1>5, <1>6, <1>7, <1>8, <1>9 DEF Next, Statement, Quiet

LEMMA Invariance == Spec => []IInv
BY InitHolds, NextHolds, PTL DEF Spec

\* Every variable keeps its type, and a call is told one of the five answers.
THEOREM ReactionTypeCorrect == Spec => []TypeOK
BY Invariance, PTL DEF IInv

\* confirm and report never leave a user two reactions to one price, however
\* many of their inserts overlap.
THEOREM ReactsOnce == Spec => []OneReactionPerUser
BY Invariance, PTL DEF IInv

\* No insert that overlaps a removal leaves a reaction to nothing or of nobody.
THEOREM ReactionsHaveSubjects == Spec => []NoOrphanedReaction
BY Invariance, PTL DEF IInv

-----------------------------------------------------------------------------
(* PriceReaction implements ReactionRegister *)

\* What is shown of a key is the type of a row of that key, if it has one.
LEMMA ShownRow ==
  ASSUME NEW requests, NEW rows, NEW u, NEW p
  PROVE  LET isRow(d) == rows[d] # "none" /\ requests[d].user = u /\ requests[d].price = p
         IN \/ /\ \A d \in Calls : ~ isRow(d)
               /\ ReactionIn(requests, rows, u, p) = "none"
            \/ \E d \in Calls : isRow(d) /\ ReactionIn(requests, rows, u, p) = rows[d]
<1> DEFINE mine == {d \in Calls : /\ rows[d] # "none"
                                  /\ requests[d].user = u
                                  /\ requests[d].price = p}
<1>1. CASE mine = {}
  BY <1>1 DEF ReactionIn
<1>2. CASE mine # {}
  <2>1. (CHOOSE d \in mine : TRUE) \in mine
    BY <1>2
  <2> QED
    BY <1>2, <2>1 DEF ReactionIn
<1> QED
  BY <1>1, <1>2

\* What is shown of a key does not depend on the rows of other keys.
LEMMA ShownSame ==
  ASSUME NEW requests, NEW rows, NEW requests2, NEW rows2, NEW u, NEW p,
         \A d \in Calls :
           LET isRow(rs, ws) == ws[d] # "none" /\ rs[d].user = u /\ rs[d].price = p
           IN /\ isRow(requests, rows) <=> isRow(requests2, rows2)
              /\ isRow(requests, rows) => rows[d] = rows2[d]
  PROVE  ReactionIn(requests2, rows2, u, p) = ReactionIn(requests, rows, u, p)
<1> DEFINE mine(rs, ws) == {d \in Calls : /\ ws[d] # "none"
                                          /\ rs[d].user = u
                                          /\ rs[d].price = p}
<1>1. mine(requests, rows) = mine(requests2, rows2)
  OBVIOUS
<1>2. CASE mine(requests, rows) = {}
  BY <1>1, <1>2 DEF ReactionIn
<1>3. CASE mine(requests, rows) # {}
  <2> DEFINE d == CHOOSE d \in mine(requests, rows) : TRUE
  <2>1. d \in mine(requests, rows)
    BY <1>3
  <2>2. rows[d] = rows2[d]
    BY <2>1
  <2> QED
    BY <1>1, <1>3, <2>2 DEF ReactionIn
<1> QED
  BY <1>2, <1>3

\* A change of one place of a function of two arguments.
LEMMA NestedExcept ==
  ASSUME NEW f, DOMAIN f = Users, \A u \in Users : f[u] = [p \in Prices |-> f[u][p]],
         NEW v \in Users, NEW x \in Prices, NEW w
  PROVE  [u \in Users |-> [p \in Prices |-> IF u = v /\ p = x THEN w ELSE f[u][p]]]
           = [f EXCEPT ![v][x] = w]
<1> DEFINE g == [u \in Users |-> [p \in Prices |-> IF u = v /\ p = x THEN w ELSE f[u][p]]]
           h == [f EXCEPT ![v][x] = w]
<1>1. \A u \in Users \ {v} : g[u] = h[u]
  OBVIOUS
<1>2. g[v] = h[v]
  OBVIOUS
<1>3. DOMAIN h = Users /\ h = [u \in Users |-> h[u]]
  OBVIOUS
<1> QED
  BY <1>1, <1>2, <1>3

Shown == [u \in Users |-> [p \in Prices |-> ReactionOf(u, p)]]

\* A call that finds a row of its key is told so in one step of the register.
LEMMA RepeatedMaps ==
  ASSUME IInv, NEW c \in Calls, pc[c] \notin {"idle", "done"},
         Existing(c) # {}, Reject(c, Repeated(c))
  PROVE  Register!AlreadyThere(c)
<1>1. PICK r \in Calls : row[r] # "none" /\ SameKey(r, c)
  BY DEF Existing
<1>2. request[c] \in Request /\ answer[c] = "none"
  BY DEF IInv, AskedOK
<1>3. ReactionIn(request, row, request[c].user, request[c].price) = row[r]
  <2>1. \A d \in Calls : row[d] # "none" /\ SameKey(d, c) => d = r
    BY <1>1 DEF IInv, OneReactionPerUser, SameKey
  <2> QED
    BY <1>1, <2>1, ShownRow DEF SameKey
<1>4. Shown[request[c].user][request[c].price] # "none"
  BY <1>1, <1>2, <1>3 DEF Shown, ReactionOf, SameKey, Request
<1>5. Shown' = Shown
  BY DEF Shown, ReactionOf, Reject, Finish
<1>6. request[c] # NoRequest
  BY <1>2, ReactionAssumption DEF Request, Kinds
<1> QED
  BY <1>2, <1>4, <1>5, <1>6
     DEF Register!AlreadyThere, Register!Waiting, Shown, Reject, Finish, Repeated

\* A call that is refused, or dies, is a refusal of the register.
LEMMA RefusedMaps ==
  ASSUME IInv, NEW c \in Calls, pc[c] \notin {"idle", "done"}, Reject(c, "refused")
  PROVE  Register!Refuse(c)
<1>1. request[c] # NoRequest /\ answer[c] = "none"
  BY ReactionAssumption DEF IInv, AskedOK, Request, Kinds
<1>2. Shown' = Shown
  BY DEF Shown, ReactionOf, Reject, Finish
<1> QED
  BY <1>1, <1>2 DEF Register!Refuse, Register!Waiting, Shown, Reject, Finish

\* What a step does that leaves row, request and answer alone.
LEMMA StutterMaps ==
  ASSUME UNCHANGED <<request, row, answer>>
  PROVE  UNCHANGED Register!vars
<1>1. Shown' = Shown
  BY DEF Shown, ReactionOf
<1> QED
  BY <1>1 DEF Register!vars, Shown

\* The start of a call asks.
LEMMA StartMaps ==
  ASSUME IInv, NEW c \in Calls, NEW q \in Request, Start(c, q)
  PROVE  Register!Ask(c, q)
<1>1. request[c] = NoRequest /\ row[c] = "none"
  BY DEF IInv, AskedOK, Start, At
<1>2. \A d \in Calls \ {c} : request'[d] = request[d]
  BY DEF IInv, TypeOK, Start
<1>3. row' = row
  BY DEF Start
<1>4. \A u \in Users, p \in Prices : ReactionIn(request', row', u, p) = ReactionIn(request, row, u, p)
  <2> TAKE u \in Users, p \in Prices
  <2> QED
    BY <1>1, <1>2, <1>3, ShownSame
<1>5. Shown' = Shown
  BY <1>4 DEF Shown, ReactionOf
<1> QED
  BY <1>1, <1>5 DEF Register!Ask, Start, Shown, subjects

\* A step that sets the reaction of the caller's key from what is shown, and no
\* other, is an acceptance.
LEMMA AcceptMaps ==
  ASSUME IInv, NEW c \in Calls, pc[c] \notin {"idle", "done"}, request' = request,
         answer' = [answer EXCEPT ![c] = "ok"],
         NEW r \in Calls, SameKey(r, c), request[r] \in Request,
         \A d \in Calls : row[d] # "none" /\ SameKey(d, c) => d = r,
         \A d \in Calls \ {r} : row'[d] = row[d],
         request[c].kind = "report" => row[r] # "report",
         row'[r] = Register!Flipped(request[c].kind, row[r])
  PROVE  Register!Accept(c)
<1> DEFINE v == request[c].user
           x == request[c].price
<1>1. /\ request[c] \in Request /\ request[c] # NoRequest /\ answer[c] = "none"
      /\ v \in Users /\ x \in Prices
  BY ReactionAssumption DEF IInv, AskedOK, Request, Kinds
<1>2. ReactionIn(request, row, v, x) = row[r]
  BY ShownRow DEF SameKey
<1>3. ReactionIn(request, row', v, x) = row'[r]
  <2>1. \A d \in Calls : row'[d] # "none" /\ request[d].user = v /\ request[d].price = x => d = r
    BY DEF SameKey
  <2>2. request[r].user = v /\ request[r].price = x
    BY DEF SameKey
  <2> QED
    BY <2>1, <2>2, ShownRow
<1>4. \A u \in Users, p \in Prices : u # v \/ p # x =>
        ReactionIn(request, row', u, p) = ReactionIn(request, row, u, p)
  <2> TAKE u \in Users, p \in Prices
  <2> HAVE u # v \/ p # x
  <2>1. \A d \in Calls : request[d].user = u /\ request[d].price = p => row'[d] = row[d]
    BY DEF SameKey
  <2> QED
    BY <2>1, ShownSame
<1>5. \A u \in Users, p \in Prices :
        Shown'[u][p] = IF u = v /\ p = x THEN Register!Flipped(request[c].kind, Shown[v][x])
                                         ELSE Shown[u][p]
  BY <1>1, <1>2, <1>3, <1>4 DEF Shown, ReactionOf
<1>6. Shown' = [Shown EXCEPT ![v][x] = Register!Flipped(request[c].kind, @)]
  <2> DEFINE w == Register!Flipped(request[c].kind, Shown[v][x])
  <2>1. Shown' = [u \in Users |-> [p \in Prices |-> IF u = v /\ p = x THEN w ELSE Shown[u][p]]]
    BY <1>5 DEF Shown
  <2>2. DOMAIN Shown = Users /\ \A u \in Users : Shown[u] = [p \in Prices |-> Shown[u][p]]
    BY DEF Shown
  <2> HIDE DEF w
  <2>3. Shown' = [Shown EXCEPT ![v][x] = w]
    BY <1>1, <2>1, <2>2, NestedExcept
  <2> QED
    BY <2>3 DEF w
<1>7. request[c].kind = "report" => Shown[v][x] # "report"
  BY <1>1, <1>2 DEF Shown, ReactionOf
<1> QED
  BY <1>1, <1>6, <1>7 DEF Register!Accept, Register!Waiting, Shown

\* A removal forgets.
LEMMA RemovalMaps ==
  ASSUME IInv
  PROVE  /\ \A p \in Prices : RemovePrice(p) => Register!Forget({}, {p})
         /\ \A u \in Users : DeleteAccount(u) => Register!Forget({u}, {})
<1>1. ASSUME NEW users, NEW prices, NEW S \in SUBSET Calls, Cascade(S),
             UNCHANGED <<request, answer>>,
             \A c \in Calls : row[c] # "none" =>
               (c \in S <=> request[c].user \in users \/ request[c].price \in prices)
      PROVE  Register!Forget(users, prices)
  <2>1. \A c \in Calls : row'[c] = IF c \in S THEN "none" ELSE row[c]
    BY <1>1 DEF Cascade
  <2>2. ASSUME NEW u \in Users, NEW p \in Prices
        PROVE  ReactionIn(request, row', u, p)
                 = IF u \in users \/ p \in prices THEN "none" ELSE ReactionIn(request, row, u, p)
    <3>1. CASE u \in users \/ p \in prices
      <4>1. \A d \in Calls : row'[d] # "none" => request[d].user # u \/ request[d].price # p
        BY <1>1, <2>1, <3>1
      <4> QED
        BY <3>1, <4>1, ShownRow
    <3>2. CASE ~ (u \in users \/ p \in prices)
      <4>1. \A d \in Calls : row[d] # "none" /\ request[d].user = u /\ request[d].price = p
                               => row'[d] = row[d]
        BY <1>1, <2>1, <3>2
      <4>2. \A d \in Calls : row'[d] # "none" => row'[d] = row[d]
        BY <2>1
      <4>3. ReactionIn(request, row', u, p) = ReactionIn(request, row, u, p)
        BY <4>1, <4>2, ShownSame
      <4> QED
        BY <3>2, <4>3
    <3> QED
      BY <3>1, <3>2
  <2>3. Shown' = [u \in Users |-> [p \in Prices |->
                    IF u \in users \/ p \in prices THEN "none" ELSE Shown[u][p]]]
    BY <1>1, <2>2 DEF Shown, ReactionOf
  <2> QED
    BY <1>1, <2>3 DEF Register!Forget, Shown
<1>2. \A c \in Calls : row[c] # "none" => request[c] # NoRequest
  BY ReactionAssumption DEF IInv, AskedOK, Request, Kinds
<1>3. ASSUME NEW p \in Prices, RemovePrice(p)
      PROVE  Register!Forget({}, {p})
  <2> DEFINE S == {c \in Calls : request[c] # NoRequest /\ request[c].price = p}
  <2>1. Cascade(S)
    BY <1>3 DEF RemovePrice
  <2> QED
    BY <1>1, <1>2, <1>3, <2>1 DEF RemovePrice
<1>4. ASSUME NEW u \in Users, DeleteAccount(u)
      PROVE  Register!Forget({u}, {})
  <2> DEFINE S == {c \in Calls : request[c] # NoRequest /\ request[c].user = u}
  <2>1. Cascade(S)
    BY <1>4 DEF DeleteAccount
  <2> QED
    BY <1>1, <1>2, <1>4, <2>1 DEF DeleteAccount
<1> QED
  BY <1>3, <1>4

\* A statement is a step of the register, or leaves it alone.
LEMMA StatementMaps ==
  ASSUME IInv, NEW c \in Calls, Statement(c) \/ Crash(c)
  PROVE  Register!Accept(c) \/ Register!AlreadyThere(c) \/ Register!Refuse(c)
           \/ UNCHANGED Register!vars
<1> USE DEF At
<1>1. CASE Find(c)
  <2>1. CASE Miss(c)
    BY <2>1, StutterMaps DEF Miss
  <2>2. ASSUME NEW r \in Existing(c), Judge(c, r)
        PROVE  Register!AlreadyThere(c) \/ Register!Refuse(c) \/ UNCHANGED Register!vars
    <3>1. CASE request[c].kind = "report" /\ Reject(c, "conflict")
      BY <1>1, <2>2, <3>1, RepeatedMaps DEF Find, Repeated
    <3>2. CASE Reject(c, "refused")
      BY <1>1, <3>2, RefusedMaps DEF Find
    <3>3. CASE UNCHANGED <<subjects, request, row, answer>>
      BY <3>3, StutterMaps
    <3> QED
      BY <2>2, <3>1, <3>2, <3>3 DEF Judge
  <2> QED
    BY <1>1, <2>1, <2>2 DEF Find
<1>2. CASE Change(c)
  <2> DEFINE r == found[c]
  <2>1. /\ pc[c] = "change" /\ r \in Calls /\ row[r] # "none" /\ SameKey(r, c)
        /\ request[c].kind = "report" => row[r] = "confirm"
    BY <1>2 DEF IInv, LockOK, Change
  <2>2. request[r] \in Request
    BY <2>1 DEF IInv, AskedOK
  <2>3. \A d \in Calls : row[d] # "none" /\ SameKey(d, c) => d = r
    BY <2>1 DEF IInv, OneReactionPerUser, SameKey
  <2>4. row'[r] = Register!Flipped(request[c].kind, row[r])
    BY <1>2, <2>1 DEF Change, Register!Flipped, IInv, TypeOK
  <2>5. \A d \in Calls \ {r} : row'[d] = row[d]
    BY <1>2 DEF Change, IInv, TypeOK
  <2> QED
    BY <1>2, <2>1, <2>2, <2>3, <2>4, <2>5, AcceptMaps DEF Change, Finish
<1>3. CASE LoadPrice(c)
  BY <1>3, RefusedMaps, StutterMaps DEF LoadPrice
<1>4. CASE Insert(c)
  BY <1>4, RepeatedMaps, RefusedMaps, StutterMaps DEF Insert
<1>5. CASE Commit(c)
  <2>1. pc[c] = "commit" /\ row[c] = "none" /\ request[c] \in Request
    BY <1>5 DEF Commit, IInv, AskedOK
  <2>2. \A d \in Calls : row[d] # "none" /\ SameKey(d, c) => d = c
    BY <2>1 DEF IInv, OpenOK
  <2>3. row'[c] = Register!Flipped(request[c].kind, row[c])
    BY <1>5, <2>1 DEF Commit, Register!Flipped, IInv, TypeOK
  <2>4. \A d \in Calls \ {c} : row'[d] = row[d]
    BY <1>5 DEF Commit, IInv, TypeOK
  <2>5. SameKey(c, c)
    BY DEF SameKey
  <2> QED
    BY <1>5, <2>1, <2>2, <2>3, <2>4, <2>5, AcceptMaps DEF Commit, Finish
<1>6. CASE Crash(c)
  BY <1>6, RefusedMaps DEF Crash
<1> QED
  BY <1>1, <1>2, <1>3, <1>4, <1>5, <1>6 DEF Statement

\* Every change of a reaction and every answer of the service is one step of the
\* register: a flip is neither lost nor done twice, under any overlap.
THEOREM RefinesRegister == Spec => ImplementsRegister
<1>1. Init => Register!Init
  <2> SUFFICES ASSUME Init PROVE Register!Init
    OBVIOUS
  <2>1. \A u \in Users, p \in Prices : ReactionIn(request, row, u, p) = "none"
    BY ShownRow DEF Init
  <2> QED
    BY <2>1 DEF Init, Register!Init, ReactionOf
<1>2. IInv /\ [Next]_vars => [Register!Next]_(Register!vars)
  <2> SUFFICES ASSUME IInv, [Next]_vars
               PROVE  Register!Next \/ UNCHANGED Register!vars
    OBVIOUS
  <2>1. ASSUME NEW c \in Calls, NEW q \in Request, Start(c, q)
        PROVE  Register!Next
    <3>1. q \in Register!Request
      BY DEF Request, Kinds, Register!Request, Register!Kinds
    <3> QED
      BY <2>1, <3>1, StartMaps DEF Register!Next
  <2>2. ASSUME NEW c \in Calls, Statement(c) \/ Crash(c)
        PROVE  Register!Next \/ UNCHANGED Register!vars
    BY <2>2, StatementMaps DEF Register!Next
  <2>3. CASE \/ \E p \in Prices : RemovePrice(p)
             \/ \E u \in Users : DeleteAccount(u)
    BY <2>3, RemovalMaps DEF Register!Next
  <2>4. CASE UNCHANGED vars
    BY <2>4, StutterMaps DEF vars
  <2> QED
    BY <2>1, <2>2, <2>3, <2>4 DEF Next, Quiet
<1> QED
  BY <1>1, <1>2, Invariance, PTL DEF Spec, ImplementsRegister, Register!Spec
=============================================================================
