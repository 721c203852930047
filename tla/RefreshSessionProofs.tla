-------------------------- MODULE RefreshSessionProofs --------------------------
(***************************************************************************)
(* Theorems about RefreshSession, for any users, calls and seconds.        *)
(***************************************************************************)
EXTENDS RefreshSession, TLAPS

\* A key holds a token of its own user, and never a revoked one.
StoreOK ==
  \A u \in Users : store[u] # NoToken =>
    /\ store[u].user = u
    /\ store[u] \notin revoked

\* A call that is about to write the key has signed a token of its user; a
\* refresh presents a token of its user.
SignedOK ==
  \A c \in Calls :
    /\ pc[c] \in {"set", "reply"} =>
         /\ signed[c] \in Token
         /\ signed[c].user = request[c].user
    /\ request[c].kind = "refresh" =>
         /\ request[c].token \in Token
         /\ request[c].token.user = request[c].user

\* Only a refresh reads the key or looks up its user, and only a login
\* creates a user.
KindOK ==
  \A c \in Calls :
    /\ pc[c] \in {"get", "user"} => request[c].kind = "refresh"
    /\ pc[c] = "create" => request[c].kind = "login"

\* A late refresh belongs to an account that is gone and has gone no further
\* than the look-up of its user.
LateOK ==
  \A c \in late :
    /\ account[request[c].user] = "gone"
    /\ pc[c] \in {"get", "user", "refused"}

\* The inductive invariant.
IInv ==
  /\ TypeOK
  /\ StoreOK
  /\ SignedOK
  /\ KindOK
  /\ LateOK
  /\ RevokedStaysRevoked

-----------------------------------------------------------------------------
\* The initial states satisfy the invariant.
LEMMA InitHolds == Init => IInv
<1> SUFFICES ASSUME Init PROVE IInv
  OBVIOUS
<1> USE SessionAssumption
<1>1. TypeOK
  BY DEF Init, TypeOK, Request, Kinds, PCs
<1>2. StoreOK /\ SignedOK /\ KindOK /\ LateOK /\ RevokedStaysRevoked
  BY DEF Init, StoreOK, SignedOK, KindOK, LateOK, RevokedStaysRevoked
<1> QED
  BY <1>1, <1>2 DEF IInv

\* The start of a call keeps the invariant: an idle call has no history.
LEMMA StartHolds ==
  ASSUME IInv,
         \/ \E c \in Calls : \/ \E u \in Users : \/ Login(c, u) \/ FirstLogin(c, u)
                                                 \/ Logout(c, u)
                             \/ \E t \in Token : Refresh(c, t)
  PROVE  IInv'
<1> USE SessionAssumption
<1>1. ASSUME NEW c \in Calls, NEW u \in Users, Login(c, u)
      PROVE  IInv'
  <2>1. /\ [user |-> u, second |-> now] \in Token
        /\ [kind |-> "login", user |-> u, token |-> NoToken] \in Request
    BY DEF IInv, TypeOK, Token, Request, Kinds
  <2>2. /\ pc' = [pc EXCEPT ![c] = "set"] /\ pc[c] = "idle"
        /\ request' = [request EXCEPT ![c] =
                         [kind |-> "login", user |-> u, token |-> NoToken]]
        /\ signed' = [signed EXCEPT ![c] = [user |-> u, second |-> now]]
        /\ UNCHANGED <<account, now, store, held, revoked, late>>
    BY <1>1 DEF Login, Begin, Move, Sign
  <2>3. TypeOK'
    BY <2>1, <2>2 DEF IInv, TypeOK, PCs
  <2>4. StoreOK' /\ SignedOK' /\ KindOK' /\ LateOK' /\ RevokedStaysRevoked'
    BY <2>1, <2>2 DEF IInv, TypeOK, StoreOK, SignedOK, KindOK, LateOK, RevokedStaysRevoked
  <2> QED
    BY <2>3, <2>4 DEF IInv
<1>2. ASSUME NEW c \in Calls, NEW u \in Users, FirstLogin(c, u) \/ Logout(c, u)
      PROVE  IInv'
  <2> PICK w \in {"create", "del"}, k \in {"login", "logout"} :
        /\ w = "create" => k = "login"
        /\ pc' = [pc EXCEPT ![c] = w] /\ pc[c] = "idle"
        /\ request' = [request EXCEPT ![c] = [kind |-> k, user |-> u, token |-> NoToken]]
        /\ UNCHANGED <<account, now, store, held, signed, revoked, late>>
    BY <1>2 DEF FirstLogin, Logout, Begin, Move
  <2>1. [kind |-> k, user |-> u, token |-> NoToken] \in Request
    BY DEF Request, Kinds
  <2>2. TypeOK'
    BY <2>1 DEF IInv, TypeOK, PCs
  <2>3. StoreOK' /\ SignedOK' /\ KindOK' /\ LateOK' /\ RevokedStaysRevoked'
    BY <2>1 DEF IInv, TypeOK, StoreOK, SignedOK, KindOK, LateOK, RevokedStaysRevoked
  <2> QED
    BY <2>2, <2>3 DEF IInv
<1>3. ASSUME NEW c \in Calls, NEW t \in Token, Refresh(c, t)
      PROVE  IInv'
  <2>1. /\ t.user \in Users
        /\ [kind |-> "refresh", user |-> t.user, token |-> t] \in Request
    BY DEF Token, Request, Kinds
  <2>2. /\ pc' = [pc EXCEPT ![c] = "get"] /\ pc[c] = "idle"
        /\ request' = [request EXCEPT ![c] =
                         [kind |-> "refresh", user |-> t.user, token |-> t]]
        /\ late' = IF account[t.user] = "gone" THEN late \cup {c} ELSE late
        /\ UNCHANGED <<account, now, store, held, signed, revoked>>
    BY <1>3 DEF Refresh, Begin, Move
  <2>3. TypeOK'
    BY <2>1, <2>2 DEF IInv, TypeOK, PCs
  <2>4. StoreOK' /\ SignedOK' /\ KindOK' /\ RevokedStaysRevoked'
    BY <2>1, <2>2 DEF IInv, TypeOK, StoreOK, SignedOK, KindOK, RevokedStaysRevoked
  <2>5. LateOK'
    BY <2>1, <2>2 DEF IInv, TypeOK, LateOK
  <2> QED
    BY <2>3, <2>4, <2>5 DEF IInv
<1> QED
  BY <1>1, <1>2, <1>3

\* c ends with an error.
Refused(c) ==
  /\ pc' = [pc EXCEPT ![c] = "refused"]
  /\ UNCHANGED <<account, now, store, held, request, signed, revoked, late>>

\* c signs a token for an account that is, or becomes, live.
Signs(c) ==
  /\ pc[c] \in {"create", "user"}
  /\ pc' = [pc EXCEPT ![c] = "set"]
  /\ Sign(c, request[c].user)
  /\ account[request[c].user] # "gone"
  /\ account' \in [Users -> {"none", "live", "gone"}]
  /\ \A w \in Users : account[w] = "gone" => account'[w] = "gone"
  /\ UNCHANGED <<now, store, held, request, revoked, late>>

\* An error keeps the invariant, wherever it happens.
LEMMA RefusedHolds ==
  ASSUME IInv, NEW c \in Calls, Refused(c)
  PROVE  IInv'
<1>1. TypeOK'
  BY DEF IInv, TypeOK, Refused, PCs
<1>2. StoreOK' /\ SignedOK' /\ KindOK' /\ LateOK' /\ RevokedStaysRevoked'
  BY DEF IInv, TypeOK, Refused, StoreOK, SignedOK, KindOK, LateOK, RevokedStaysRevoked
<1> QED
  BY <1>1, <1>2 DEF IInv

\* Signing keeps the invariant: a late refresh never gets this far.
LEMMA SignsHolds ==
  ASSUME IInv, NEW c \in Calls, Signs(c)
  PROVE  IInv'
<1> USE SessionAssumption
<1> DEFINE t == [user |-> request[c].user, second |-> now]
<1>1. /\ t \in Token
      /\ signed' = [signed EXCEPT ![c] = t]
      /\ \A d \in Calls : request[d].user \in Users
  BY DEF IInv, TypeOK, Token, Request, Signs, Sign
<1> HIDE DEF t
<1>2. TypeOK'
  BY <1>1 DEF IInv, TypeOK, Signs, PCs
<1>3. c \notin late
  BY DEF IInv, LateOK, Signs
<1>4. LateOK'
  BY <1>1, <1>3 DEF IInv, TypeOK, LateOK, Signs
<1>5. StoreOK' /\ KindOK'
  BY <1>1 DEF IInv, TypeOK, StoreOK, KindOK, Signs
<1>6. SignedOK'
  BY <1>1 DEF IInv, TypeOK, SignedOK, Signs, t
<1>7. RevokedStaysRevoked'
  BY DEF IInv, TypeOK, KindOK, RevokedStaysRevoked, Signs
<1> QED
  BY <1>2, <1>4, <1>5, <1>6, <1>7 DEF IInv

\* GET: a token that matches the key is not revoked.
LEMMA GetTokenHolds ==
  ASSUME IInv, NEW c \in Calls, GetToken(c)
  PROVE  IInv'
<1> USE SessionAssumption
<1>1. CASE Refused(c)
  BY <1>1, RefusedHolds
<1>2. CASE /\ pc' = [pc EXCEPT ![c] = "user"] /\ pc[c] = "get"
           /\ store[request[c].user] = request[c].token
           /\ UNCHANGED <<account, now, store, held, request, signed, revoked, late>>
  <2>1. request[c].user \in Users /\ request[c].kind = "refresh" /\ request[c].token \in Token
    BY <1>2 DEF IInv, TypeOK, Request, KindOK, SignedOK
  <2>2. request[c].token \notin revoked
    BY <1>2, <2>1 DEF IInv, StoreOK
  <2>3. TypeOK'
    BY <1>2 DEF IInv, TypeOK, PCs
  <2>4. StoreOK' /\ SignedOK' /\ KindOK' /\ LateOK' /\ RevokedStaysRevoked'
    BY <1>2, <2>1, <2>2
    DEF IInv, TypeOK, StoreOK, SignedOK, KindOK, LateOK, RevokedStaysRevoked
  <2> QED
    BY <2>3, <2>4 DEF IInv
<1> QED
  BY <1>1, <1>2 DEF GetToken, At, Stop, Move, Refused

\* A write of the key by c revokes only tokens of its user, and none of them
\* while another call is past its check.
LEMMA WriteHolds ==
  ASSUME IInv, NEW c \in Calls,
         \/ SetToken(c)
         \/ DeleteToken(c)
  PROVE  IInv'
<1> USE SessionAssumption
<1> DEFINE u == request[c].user
           S == Superseded(c, u)
<1>1. u \in Users /\ \A d \in Calls : request[d].user \in Users
  BY DEF IInv, TypeOK, Request
<1>2. S \subseteq Token /\ \A t \in S : t.user = u
  BY DEF Superseded
<1>3. ASSUME NEW d \in Calls, d # c, pc[d] \in {"user", "set"}, request[d].user = u
      PROVE  S = {}
  BY <1>3 DEF Superseded, Underway
<1> HIDE DEF S
<1>4. CASE SetToken(c)
  <2>1. /\ pc[c] = "set" /\ pc' = [pc EXCEPT ![c] = "reply"]
        /\ store' = [store EXCEPT ![u] = signed[c]]
        /\ revoked' = (revoked \cup S) \ {signed[c]}
        /\ UNCHANGED <<account, now, held, request, signed, late>>
    BY <1>4 DEF SetToken, At, Move, S
  <2>2. signed[c] \in Token /\ signed[c].user = u
    BY <2>1 DEF IInv, SignedOK
  <2>3. TypeOK'
    BY <1>1, <1>2, <2>1, <2>2 DEF IInv, TypeOK, PCs
  <2>4. StoreOK'
    BY <1>1, <1>2, <2>1, <2>2 DEF IInv, TypeOK, StoreOK
  <2>5. SignedOK' /\ KindOK' /\ LateOK'
    BY <2>1 DEF IInv, TypeOK, SignedOK, KindOK, LateOK
  <2>6. RevokedStaysRevoked'
    BY <1>1, <1>2, <1>3, <2>1 DEF IInv, TypeOK, SignedOK, RevokedStaysRevoked
  <2> QED
    BY <2>3, <2>4, <2>5, <2>6 DEF IInv
<1>5. CASE DeleteToken(c)
  <2>1. /\ pc[c] = "del" /\ pc' = [pc EXCEPT ![c] = "answered"]
        /\ store' = [store EXCEPT ![u] = NoToken]
        /\ revoked' = revoked \cup S
        /\ UNCHANGED <<account, now, held, request, signed, late>>
    BY <1>5 DEF DeleteToken, At, Move, S
  <2>2. TypeOK'
    BY <1>1, <1>2, <2>1 DEF IInv, TypeOK, PCs
  <2>3. StoreOK'
    BY <1>1, <1>2, <2>1 DEF IInv, TypeOK, StoreOK
  <2>4. SignedOK' /\ KindOK' /\ LateOK'
    BY <2>1 DEF IInv, TypeOK, SignedOK, KindOK, LateOK
  <2>5. RevokedStaysRevoked'
    BY <1>1, <1>2, <1>3, <2>1 DEF IInv, TypeOK, SignedOK, RevokedStaysRevoked
  <2> QED
    BY <2>2, <2>3, <2>4, <2>5 DEF IInv
<1> QED
  BY <1>4, <1>5

\* What happens around the calls keeps the invariant.
LEMMA OutsideHolds ==
  ASSUME IInv,
         \/ \E c \in Calls : Reply(c)
         \/ \E u \in Users : Expire(u) \/ DeleteAccount(u)
         \/ Tick \/ UNCHANGED vars
  PROVE  IInv'
<1> USE SessionAssumption
<1>1. ASSUME NEW c \in Calls, Reply(c)
      PROVE  IInv'
  <2>1. TypeOK'
    BY <1>1 DEF Reply, At, Move, IInv, TypeOK, PCs, SignedOK
  <2>2. StoreOK' /\ SignedOK' /\ KindOK' /\ LateOK' /\ RevokedStaysRevoked'
    BY <1>1 DEF Reply, At, Move, IInv, TypeOK, StoreOK, SignedOK, KindOK, LateOK,
                RevokedStaysRevoked
  <2> QED
    BY <2>1, <2>2 DEF IInv
<1>2. ASSUME NEW u \in Users, Expire(u) \/ DeleteAccount(u)
      PROVE  IInv'
  <2>1. TypeOK'
    BY <1>2 DEF Expire, DeleteAccount, IInv, TypeOK
  <2>2. \A d \in late : request[d].user \in Users
    BY DEF IInv, TypeOK, Request
  <2>3. StoreOK' /\ SignedOK' /\ KindOK' /\ LateOK' /\ RevokedStaysRevoked'
    BY <1>2, <2>2 DEF Expire, DeleteAccount, IInv, TypeOK, StoreOK, SignedOK, KindOK,
                      LateOK, RevokedStaysRevoked
  <2> QED
    BY <2>1, <2>3 DEF IInv
<1>3. CASE Tick \/ UNCHANGED vars
  BY <1>3 DEF Tick, vars, IInv, TypeOK, StoreOK, SignedOK, KindOK, LateOK,
              RevokedStaysRevoked
<1> QED
  BY <1>1, <1>2, <1>3

\* Every step keeps the invariant.
LEMMA StepHolds == IInv /\ [Next]_vars => IInv'
<1> SUFFICES ASSUME IInv, [Next]_vars PROVE IInv'
  OBVIOUS
<1>1. ASSUME NEW c \in Calls, NEW u \in Users, Login(c, u) \/ FirstLogin(c, u) \/ Logout(c, u)
      PROVE  IInv'
  BY <1>1, StartHolds
<1>2. ASSUME NEW c \in Calls, NEW t \in Token, Refresh(c, t)
      PROVE  IInv'
  BY <1>2, StartHolds
<1>3. ASSUME NEW c \in Calls, CreateUser(c) \/ FindUser(c)
      PROVE  IInv'
  <2>1. Refused(c) \/ Signs(c)
    BY <1>3 DEF CreateUser, FindUser, Stop, Move, At, Refused, Signs, IInv, TypeOK
  <2> QED
    BY <2>1, RefusedHolds, SignsHolds
<1>4. ASSUME NEW c \in Calls, GetToken(c)
      PROVE  IInv'
  BY <1>4, GetTokenHolds
<1>5. ASSUME NEW c \in Calls, SetToken(c) \/ DeleteToken(c)
      PROVE  IInv'
  BY <1>5, WriteHolds
<1>6. ASSUME NEW c \in Calls, Fail(c)
      PROVE  IInv'
  BY <1>6, RefusedHolds DEF Fail, Stop, Move, Refused
<1>7. CASE \/ \E c \in Calls : Reply(c)
           \/ \E u \in Users : Expire(u) \/ DeleteAccount(u)
           \/ Tick \/ UNCHANGED vars
  BY <1>7, OutsideHolds
<1> QED
  BY <1>1, <1>2, <1>3, <1>4, <1>5, <1>6, <1>7 DEF Next, Quiet

-----------------------------------------------------------------------------
\* The invariant holds in every reachable state.
THEOREM SessionInvariance == Spec => []IInv
<1> QED
  BY InitHolds, StepHolds, PTL DEF Spec

\* Every variable keeps its type.
THEOREM SessionTypeCorrect == Spec => []TypeOK
<1>1. IInv => TypeOK
  BY DEF IInv
<1> QED
  BY <1>1, SessionInvariance, PTL

\* A token replaced or deleted while nobody was using it is never accepted
\* again, with any number of clients and calls.
THEOREM RevocationIsFinal == Spec => []RevokedStaysRevoked
<1>1. IInv => RevokedStaysRevoked
  BY DEF IInv
<1> QED
  BY <1>1, SessionInvariance, PTL

\* A refresh that starts after its account is gone never gets a token.
THEOREM DeletionEndsSessions == Spec => []GoneAccountNeverRenews
<1>1. IInv => GoneAccountNeverRenews
  BY DEF IInv, LateOK, GoneAccountNeverRenews
<1> QED
  BY <1>1, SessionInvariance, PTL
=============================================================================
