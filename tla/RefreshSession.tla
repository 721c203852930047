---------------------------- MODULE RefreshSession ----------------------------
(***************************************************************************)
(* The refresh token of AuthService (src/src/auth/auth.service.ts): issued *)
(* by a login, kept in Redis under one key per user, exchanged by refresh, *)
(* deleted by logout.  A step is one awaited round trip to Redis or to     *)
(* PostgreSQL; calls of one user interleave at will.                       *)
(*                                                                         *)
(* A JWT holds the user and the second in which it was signed, and nothing *)
(* random: two tokens of one user signed in one second are the same token. *)
(* Redis is configured, as RedisService demands in production; its TTL and *)
(* the token's own expiry may strike at any time.                          *)
(***************************************************************************)
EXTENDS Integers

CONSTANTS
  Users, Calls,
  NoToken,
  LastSecond   \* bound: the clock stops there

Token == [user : Users, second : 0 .. LastSecond]

ASSUME SessionAssumption ==
  /\ LastSecond \in Nat
  /\ NoToken \notin Token

VARIABLES
  account,  \* users: "none", "live", "gone"
  now,      \* the current second
  store,    \* Redis: key rt:<user>
  held,     \* tokens that reached a client
  pc,       \* the next round trip of each call
  request,  \* its kind, its user and the token it presents
  signed,   \* the token it signed
  revoked,  \* history: tokens replaced or deleted while no call was using them
  late      \* history: refreshes that started after their account had gone

vars == <<account, now, store, held, pc, request, signed, revoked, late>>

Kinds == {"none", "login", "refresh", "logout"}

Request == [kind : Kinds, user : Users, token : Token \cup {NoToken}]

PCs == {"idle", "create", "get", "user", "set", "reply", "del",
        "answered", "refused"}

TypeOK ==
  /\ account \in [Users -> {"none", "live", "gone"}]
  /\ now \in 0 .. LastSecond
  /\ store \in [Users -> Token \cup {NoToken}]
  /\ held \subseteq Token
  /\ pc \in [Calls -> PCs]
  /\ request \in [Calls -> Request]
  /\ signed \in [Calls -> Token \cup {NoToken}]
  /\ revoked \subseteq Token
  /\ late \subseteq Calls

Init ==
  /\ account = [u \in Users |-> "none"]
  /\ now = 0
  /\ store = [u \in Users |-> NoToken]
  /\ held = {}
  /\ pc = [c \in Calls |-> "idle"]
  /\ request \in [Calls -> {[kind |-> "none", user |-> u, token |-> NoToken] : u \in Users}]
  /\ signed = [c \in Calls |-> NoToken]
  /\ revoked = {}
  /\ late = {}

-----------------------------------------------------------------------------
At(c, where) == pc[c] = where

Move(c, where) == pc' = [pc EXCEPT ![c] = where]

Begin(c, where, k, u, t) ==
  /\ pc[c] = "idle"
  /\ Move(c, where)
  /\ request' = [request EXCEPT ![c] = [kind |-> k, user |-> u, token |-> t]]

Stop(c, how) ==
  /\ Move(c, how)
  /\ UNCHANGED <<account, now, store, held, request, signed, revoked, late>>

\* Faulty variant: the second is rounded up.
SignRoundedUp(c, u) ==
  signed' = [signed EXCEPT ![c] = [user |-> u, second |-> now + 1]]

\* issueTokens signs the current second's token of u.
Sign(c, u) == signed' = [signed EXCEPT ![c] = [user |-> u, second |-> now]]

\* Calls of u that have passed their check and not yet written the key.
Underway(u) == {c \in Calls : request[c].user = u /\ pc[c] \in {"user", "set"}}

\* What c's write to u's key revokes: every token of u so far, unless another
\* call may still write over it.
Superseded(c, u) ==
  IF Underway(u) \subseteq {c}
  THEN {t \in Token : t.user = u /\ t.second <= now}
  ELSE {}

-----------------------------------------------------------------------------
(* kakaoLogin and adminLogin *)

\* The user is known: the tokens are signed.
Login(c, u) ==
  /\ account[u] = "live"
  /\ Begin(c, "set", "login", u, NoToken)
  /\ Sign(c, u)
  /\ UNCHANGED <<account, now, store, held, revoked, late>>

\* findOrCreateUser finds no user_oauths row.
FirstLogin(c, u) ==
  /\ account[u] = "none"
  /\ Begin(c, "create", "login", u, NoToken)
  /\ UNCHANGED <<account, now, store, held, signed, revoked, late>>

\* ... and inserts the user: of two first logins the unique email refuses one.
CreateUser(c) ==
  LET u == request[c].user IN
  /\ At(c, "create")
  /\ IF account[u] = "none"
     THEN /\ account' = [account EXCEPT ![u] = "live"]
          /\ Sign(c, u)
          /\ Move(c, "set")
          /\ UNCHANGED <<now, store, held, request, revoked, late>>
     ELSE Stop(c, "refused")

-----------------------------------------------------------------------------
(* refresh *)

\* A client presents a token it was given and whose signature still verifies.
Refresh(c, t) ==
  /\ t \in held
  /\ Begin(c, "get", "refresh", t.user, t)
  /\ late' = IF account[t.user] = "gone" THEN late \cup {c} ELSE late
  /\ UNCHANGED <<account, now, store, held, signed, revoked>>

\* Faulty variant: a missing key is not a mismatch.
GetOrMissing(c) ==
  /\ At(c, "get")
  /\ Stop(c, IF store[request[c].user] \in {request[c].token, NoToken}
             THEN "user" ELSE "refused")

\* GET: a missing or different token is refused.
GetToken(c) ==
  /\ At(c, "get")
  /\ Stop(c, IF store[request[c].user] = request[c].token THEN "user" ELSE "refused")

\* Faulty variant: the tokens are signed from the payload.
SignPayload(c) ==
  /\ At(c, "user")
  /\ Sign(c, request[c].user)
  /\ Move(c, "set")
  /\ UNCHANGED <<account, now, store, held, request, revoked, late>>

\* The user still exists: the tokens are signed.
FindUser(c) ==
  /\ At(c, "user")
  /\ IF account[request[c].user] = "live"
     THEN /\ Sign(c, request[c].user)
          /\ Move(c, "set")
          /\ UNCHANGED <<account, now, store, held, request, revoked, late>>
     ELSE Stop(c, "refused")

\* issueTokens, SET: the new token replaces whatever is there by now.
SetToken(c) ==
  LET u == request[c].user IN
  /\ At(c, "set")
  /\ store' = [store EXCEPT ![u] = signed[c]]
  /\ revoked' = (revoked \cup Superseded(c, u)) \ {signed[c]}
  /\ Move(c, "reply")
  /\ UNCHANGED <<account, now, held, request, signed, late>>

Reply(c) ==
  /\ At(c, "reply")
  /\ held' = held \cup {signed[c]}
  /\ Move(c, "answered")
  /\ UNCHANGED <<account, now, store, request, signed, revoked, late>>

-----------------------------------------------------------------------------
(* logout, and what happens around the calls *)

Logout(c, u) ==
  /\ account[u] = "live"
  /\ Begin(c, "del", "logout", u, NoToken)
  /\ UNCHANGED <<account, now, store, held, signed, revoked, late>>

DeleteToken(c) ==
  LET u == request[c].user IN
  /\ At(c, "del")
  /\ store' = [store EXCEPT ![u] = NoToken]
  /\ revoked' = revoked \cup Superseded(c, u)
  /\ Move(c, "answered")
  /\ UNCHANGED <<account, now, held, request, signed, late>>

\* The key's TTL runs out.
Expire(u) ==
  /\ store[u] # NoToken
  /\ store' = [store EXCEPT ![u] = NoToken]
  /\ UNCHANGED <<account, now, held, pc, request, signed, revoked, late>>

\* UserService.deleteAccount: the key stays in Redis.
DeleteAccount(u) ==
  /\ account[u] = "live"
  /\ account' = [account EXCEPT ![u] = "gone"]
  /\ UNCHANGED <<now, store, held, pc, request, signed, revoked, late>>

\* The process dies or Redis refuses a command: the client gets an error.
Fail(c) ==
  /\ pc[c] \notin {"idle", "answered", "refused"}
  /\ Stop(c, "refused")

Tick ==
  /\ now < LastSecond
  /\ now' = now + 1
  /\ UNCHANGED <<account, store, held, pc, request, signed, revoked, late>>

Quiet ==
  /\ \A c \in Calls : pc[c] \in {"idle", "answered", "refused"}
  /\ UNCHANGED vars

Next ==
  \/ \E c \in Calls :
       \/ \E u \in Users : Login(c, u) \/ FirstLogin(c, u) \/ Logout(c, u)
       \/ \E t \in Token : Refresh(c, t)
       \/ CreateUser(c) \/ GetToken(c) \/ FindUser(c) \/ SetToken(c) \/ Reply(c)
       \/ DeleteToken(c) \/ Fail(c)
  \/ \E u \in Users : Expire(u) \/ DeleteAccount(u)
  \/ Tick
  \/ Quiet

Spec == Init /\ [][Next]_vars

-----------------------------------------------------------------------------
(* Safety *)

\* A token that a login replaced or a logout deleted, with no other call past
\* its check at that time, never passes the check again, whoever kept it.
RevokedStaysRevoked ==
  \A c \in Calls :
    request[c].kind = "refresh" /\ pc[c] \in {"user", "set"}
      => request[c].token \notin revoked

\* A refresh that starts after the account is deleted never gets a token,
\* although the deletion leaves the key in Redis.
GoneAccountNeverRenews ==
  \A c \in late : pc[c] \notin {"reply", "answered"}

\* PROGRESS.md:56 says renewal rotates: the previous token is invalidated. Then
\* one token is never exchanged for two new ones.
RotationInvalidates ==
  \A c, d \in Calls :
    /\ \A x \in {c, d} : /\ request[x].kind = "refresh"
                          /\ pc[x] = "answered"
                          /\ signed[x] # request[x].token
    /\ request[c].token = request[d].token
    => signed[c] = signed[d]
=============================================================================
