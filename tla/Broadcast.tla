------------------------------- MODULE Broadcast -------------------------------
(***************************************************************************)
(* Pushes to many users: the promotion of a new flyer (FlyerService,       *)
(* src/src/flyer) goes to everyone who agreed, a page at a time; a new     *)
(* price (PriceService, src/src/price) to those who wish for its product,  *)
(* at once.  Both save one row for each user of a page and send to their   *)
(* devices (NotificationService, src/src/notification), and then clear the *)
(* tokens that the push service no longer knows.  Nobody waits for a push: *)
(* users come, go and change their settings between its statements.        *)
(***************************************************************************)
EXTENDS Naturals, FiniteSets

CONSTANTS
  Users,        \* ids of users: numbers, in the order of the column
  Tokens,       \* tokens of devices
  Pushes,
  BatchSize,    \* 500 in the code
  MaxChanges,   \* bound: what users do meanwhile
  NoToken, NoReceiver

ASSUME BroadcastAssumption ==
  /\ Users \subseteq Nat /\ IsFiniteSet(Users)
  /\ BatchSize \in Nat \ {0}
  /\ MaxChanges \in Nat
  /\ NoToken \notin Tokens /\ NoReceiver \notin Users

VARIABLES
  account,   \* rows of users
  consent,   \* the kinds of push each of them gets
  token,     \* column fcmToken
  device,    \* history: the token that each user registered last
  expired,   \* tokens that the push service no longer knows
  push,      \* the local variables of each push
  rows,      \* rows of notifications, by push and user
  changes

broadcastVars == <<account, consent, token, device, expired, push, rows, changes>>

\* A flyer goes to users with notifPromotion; a price to those with notifPriceChange
\* who wish for its product.
Kinds == {"flyer", "price"}

NoPush == [pc |-> "idle", kind |-> "flyer", registerer |-> NoReceiver, skip |-> 0,
           page |-> {}, failed |-> {}, stayed |-> {}, came |-> {}, gone |-> {}]

BroadcastTypeOK ==
  /\ account \in [Users -> {"unused", "stored", "removed"}]
  /\ consent \in [Users -> SUBSET Kinds]
  /\ token \in [Users -> Tokens \cup {NoToken}]
  /\ device \in [Users -> Tokens \cup {NoToken}]
  /\ expired \subseteq Tokens
  /\ \A p \in Pushes :
       /\ push[p].pc \in {"idle", "read", "save", "send", "clear", "done", "crashed"}
       /\ push[p].kind \in Kinds
       /\ push[p].registerer \in Users \cup {NoReceiver}
       /\ push[p].skip \in {BatchSize * n : n \in 0..Cardinality(Users) + MaxChanges}
       /\ push[p].page \subseteq [user : Users, token : Tokens \cup {NoToken}]
       /\ push[p].failed \subseteq Tokens
       /\ \A who \in {"stayed", "came", "gone"} : push[p][who] \subseteq Users
  /\ rows \in [Pushes -> [Users -> Nat]]
  /\ changes \in 0..MaxChanges

Gets(u, kind) == account[u] = "stored" /\ kind \in consent[u]

\* The users of a push.
Receivers(p) == {u \in Users \ {push[p].registerer} : Gets(u, push[p].kind)}

\* How many come before u in the order of their ids.
Rank(u, all) == Cardinality({v \in all : v < u})

BroadcastInit ==
  /\ \E S \in SUBSET Users :
       account = [u \in Users |-> IF u \in S THEN "stored" ELSE "unused"]
  /\ consent \in [Users -> {{}, Kinds}]
  /\ \A u \in Users : account[u] = "unused" => consent[u] = {}
  /\ \E t \in Tokens : token = [u \in Users |-> IF account[u] = "stored" THEN t ELSE NoToken]
  /\ device = token
  /\ expired = {}
  /\ push = [p \in Pushes |-> NoPush]
  /\ rows = [p \in Pushes |-> [u \in Users |-> 0]]
  /\ changes = 0

-----------------------------------------------------------------------------
(* A push *)

PushAt(p, where) == push[p].pc = where

Running(p) == ~ push[p].pc \in {"idle", "done", "crashed"}

Push(p, where) == push' = [push EXCEPT ![p].pc = where]

\* A flyer is published, or a price created by the registerer, who is not told.
StartPush(p, kind, registerer) ==
  /\ PushAt(p, "idle")
  /\ IF kind = "flyer" THEN registerer = NoReceiver
     ELSE registerer # NoReceiver /\ account[registerer] = "stored"
  /\ push' = [push EXCEPT ![p] = [NoPush EXCEPT
       !.pc = "read", !.kind = kind, !.registerer = registerer,
       !.stayed = {u \in Users \ {registerer} : Gets(u, kind)}]]
  /\ UNCHANGED <<account, consent, token, device, expired, rows, changes>>

\* Users skip + 1 .. skip + BatchSize of those who agree now; or every wish.
ReadPage(p) ==
  LET all  == Receivers(p)
      some == IF push[p].kind = "price" THEN all
              ELSE {u \in all : Rank(u, all) \in push[p].skip .. push[p].skip + BatchSize - 1}
  IN /\ PushAt(p, "read")
     /\ push' = [push EXCEPT
          ![p].pc = IF some = {} THEN "done" ELSE "save",
          ![p].page = {[user |-> u, token |-> token[u]] : u \in some}]
     /\ UNCHANGED <<account, consent, token, device, expired, rows, changes>>

Listed(p) == {item.user : item \in push[p].page}

\* One transaction: the row of one removed user takes those of the page with it, and
\* the error is only logged.
SavePage(p) ==
  /\ PushAt(p, "save")
  /\ rows' = [rows EXCEPT ![p] = [u \in Users |->
       IF u \in Listed(p) /\ \A v \in Listed(p) : account[v] = "stored" THEN @[u] + 1 ELSE @[u]]]
  /\ Push(p, "send")
  /\ UNCHANGED <<account, consent, token, device, expired, changes>>

\* On to the next page, unless this one was short or the push has but one.
NextPage(p) ==
  push' = [push EXCEPT
    ![p].pc = IF push[p].kind = "price" \/ Cardinality(push[p].page) < BatchSize
              THEN "done" ELSE "read",
    ![p].skip = IF push[p].kind = "price" THEN @ ELSE @ + BatchSize,
    ![p].page = {}, ![p].failed = {}]

\* The push service refuses some tokens; only those it says it does not know fail for
\* good. A multicast that fails as a whole names none.
Send(p) ==
  /\ PushAt(p, "send")
  /\ \E failed \in SUBSET ({item.token : item \in push[p].page} \cap expired) :
       IF failed = {} THEN NextPage(p)
       ELSE push' = [push EXCEPT ![p].pc = "clear", ![p].failed = failed]
  /\ UNCHANGED <<account, consent, token, device, expired, rows, changes>>

\* Faulty variant: the tokens are cleared by user, not by value.
ClearUsers(p) ==
  /\ PushAt(p, "clear")
  /\ token' = [u \in Users |->
       IF \E item \in push[p].page : item.user = u /\ item.token \in push[p].failed
       THEN NoToken ELSE token[u]]
  /\ NextPage(p)
  /\ UNCHANGED <<account, consent, device, expired, rows, changes>>

\* One UPDATE by the values of the tokens. That of PriceService names a column that
\* does not exist, fails, and the push ends with a line in the log.
Clear(p) ==
  /\ PushAt(p, "clear")
  /\ token' = [u \in Users |->
       IF push[p].kind = "flyer" /\ token[u] \in push[p].failed THEN NoToken ELSE token[u]]
  /\ NextPage(p)
  /\ UNCHANGED <<account, consent, device, expired, rows, changes>>

CrashPush(p) ==
  /\ Running(p)
  /\ Push(p, "crashed")
  /\ UNCHANGED <<account, consent, token, device, expired, rows, changes>>

-----------------------------------------------------------------------------
(* What users do meanwhile *)

Meanwhile == changes < MaxChanges /\ changes' = changes + 1

\* User u comes to, or leaves, the users of a kind: pushes that run take note.
TakeNote(u, before, after) ==
  push' = [p \in Pushes |->
    IF ~ Running(p) THEN push[p]
    ELSE [push[p] EXCEPT
      !.stayed = IF push[p].kind \in after THEN @ ELSE @ \ {u},
      !.came = IF push[p].kind \in after \ before THEN @ \cup {u} ELSE @,
      !.gone = IF push[p].kind \in before \ after THEN @ \cup {u} ELSE @]]

\* A new user, whose random id may come anywhere in the order, registers a device.
Join(u, kinds, t) ==
  /\ Meanwhile
  /\ account[u] = "unused"
  /\ account' = [account EXCEPT ![u] = "stored"]
  /\ consent' = [consent EXCEPT ![u] = kinds]
  /\ token' = [token EXCEPT ![u] = t]
  /\ device' = [device EXCEPT ![u] = t]
  /\ TakeNote(u, {}, kinds)
  /\ UNCHANGED <<expired, rows>>

\* Settings change, or wishes come and go.
Agree(u, kinds) ==
  /\ Meanwhile
  /\ account[u] = "stored" /\ kinds # consent[u]
  /\ consent' = [consent EXCEPT ![u] = kinds]
  /\ TakeNote(u, consent[u], kinds)
  /\ UNCHANGED <<account, token, device, expired, rows>>

\* The account is deleted, and its notifications with it.
RemoveUser(u) ==
  /\ Meanwhile
  /\ account[u] = "stored"
  /\ account' = [account EXCEPT ![u] = "removed"]
  /\ consent' = [consent EXCEPT ![u] = {}]
  /\ token' = [token EXCEPT ![u] = NoToken]
  /\ device' = [device EXCEPT ![u] = NoToken]
  /\ rows' = [p \in Pushes |-> [rows[p] EXCEPT ![u] = 0]]
  /\ TakeNote(u, consent[u], {})
  /\ UNCHANGED expired

\* The application sends the token of its device: one UPDATE.
UpdateFcmToken(u, t) ==
  /\ Meanwhile
  /\ account[u] = "stored" /\ t # token[u] /\ t \notin expired
  /\ token' = [token EXCEPT ![u] = t]
  /\ device' = [device EXCEPT ![u] = t]
  /\ UNCHANGED <<account, consent, expired, push, rows>>

\* The push service forgets a token: the application is gone, or has a new one.
Expire(t) ==
  /\ Meanwhile
  /\ t \notin expired
  /\ expired' = expired \cup {t}
  /\ UNCHANGED <<account, consent, token, device, push, rows>>

BroadcastNext ==
  \/ \E p \in Pushes :
       \/ \E kind \in Kinds, by \in Users \cup {NoReceiver} : StartPush(p, kind, by)
       \/ ReadPage(p) \/ SavePage(p) \/ Send(p) \/ Clear(p) \/ CrashPush(p)
  \/ \E u \in Users :
       \/ \E kinds \in {{}, Kinds} :
            Agree(u, kinds) \/ \E t \in Tokens \ expired : Join(u, kinds, t)
       \/ RemoveUser(u)
       \/ \E t \in Tokens : UpdateFcmToken(u, t)
  \/ \E t \in Tokens : Expire(t)

BroadcastSpec == BroadcastInit /\ [][BroadcastNext]_broadcastVars

-----------------------------------------------------------------------------
\* A push that ended has reached every user who would get it from its beginning to its
\* end, unless an account was deleted under a page or, for a flyer, someone before
\* them in the order left and moved them to a page already read; and nobody twice,
\* unless someone before them came. It never takes the token of a device away from
\* the user who registered it last, unless the push service forgot it.
PushesReachOnce ==
  /\ \A p \in Pushes, u \in Users :
       /\ PushAt(p, "done") /\ u \in push[p].stayed
         /\ account[u] = "stored" /\ rows[p][u] = 0 =>
            \E v \in push[p].gone :
              account[v] = "removed" \/ (push[p].kind = "flyer" /\ v < u)
       /\ rows[p][u] > 1 => push[p].kind = "flyer" /\ \E v \in push[p].came : v < u
  /\ \A u \in Users : token[u] = device[u] \/ device[u] \in expired
=============================================================================
