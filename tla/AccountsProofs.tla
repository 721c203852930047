---------------------------- MODULE AccountsProofs ----------------------------
(***************************************************************************)
(* The row of a user and its scores, for any users, requests and batches.  *)
(*                                                                         *)
(* A request that holds an entity knows, of every field nobody has marked  *)
(* stale since, what was last meant of it: a write of another request      *)
(* marks what it writes, so the columns it saves besides its own are the   *)
(* ones that stand.                                                        *)
(*                                                                         *)
(* A batch that writes scores writes those it planned; while it is sure of *)
(* a member no other batch writes, and it has written that member's score  *)
(* to both tables or will.                                                 *)
(***************************************************************************)
EXTENDS MCAccounts, SumLemmas

Entity == {"check", "evaluate", "reload", "write", "reinsert"}

RequestRecord ==
  [pc    : {"idle", "check", "evaluate", "reload", "write", "reinsert", "sync", "signup"},
   user  : UserIds \cup {NoUserId},
   seen  : UserRow,
   means : SUBSET Columns,
   dirty : SUBSET Columns]

\* What NOT NULL says of a row.
Complete(row) == row.email \in Emails /\ row.nickname \in Nicknames

\* What a request may mean to change.
Intents == {{"nickname", "nicknameAt"}, {"badge", "badgeAt"}, {"email"}, {"nickname"}, {"image"}}

\* What a request knows at the statement it has reached.
Knows(r) ==
  /\ r.pc \in {"idle", "signup"} => r.user = NoUserId
  /\ r.pc \in Entity \cup {"sync"} => r.user \in UserIds
  /\ r.pc \in Entity => r.seen.state = "stored" /\ Complete(r.seen) /\ r.means \in Intents
  /\ r.pc = "signup" => \E p \in Persons, n \in Nicknames : r.seen = NewUser(p, p, n)

RowsTyped ==
  /\ profile \in [UserIds -> UserRow]
  /\ \A u \in UserIds : Stored(u) => Complete(profile[u])
  /\ wanted \in [UserIds -> UserRow]
  /\ stale \in [UserIds -> SUBSET Fields]

RequestsTyped ==
  /\ request \in [Requests -> RequestRecord]
  /\ \A c \in Requests : Knows(request[c])

CountersTyped ==
  /\ clock \in 0..MaxTime
  /\ asked \in 0..MaxRequests
  /\ rivals \subseteq Persons

ProfileTyped == RowsTyped /\ RequestsTyped /\ CountersTyped

LEMMA ProfileTypedMeans == ProfileTyped => ProfileTypeOK
BY DEF ProfileTyped, RowsTyped, RequestsTyped, CountersTyped, ProfileTypeOK, RequestRecord,
   Complete, Stored

-----------------------------------------------------------------------------
(* Rows. *)

LEMMA FieldsOfRow == ASSUME NEW row \in UserRow PROVE DOMAIN row = Fields
BY DEF UserRow, Fields, Columns

LEMMA BlankRow ==
  ASSUME NEW state \in {"unused", "stored", "removed"}
  PROVE  Blank(state) \in UserRow /\ Blank(state).state = state
<1>1. NoBadge \in Choices \cup {NoBadge} /\ 0 \in 0..MaxTime
  BY ProfileAssumption
<1> QED
  BY <1>1 DEF Blank, UserRow

LEMMA NewRow ==
  ASSUME NEW p \in Persons \cup {NoPerson}, NEW e \in Emails, NEW n \in Nicknames
  PROVE  /\ NewUser(p, e, n) \in UserRow /\ Complete(NewUser(p, e, n))
         /\ NewUser(p, e, n).state = "stored" /\ NewUser(p, e, n).oauth = p
         /\ NewUser(p, e, n).email = e /\ NewUser(p, e, n).nickname = n
<1>1. NoBadge \in Choices \cup {NoBadge} /\ 0 \in 0..MaxTime
  BY ProfileAssumption
<1> QED
  BY <1>1 DEF NewUser, Blank, UserRow, Complete

LEMMA WaitingKnows == Waiting \in RequestRecord /\ Knows(Waiting) /\ Waiting.user = NoUserId
                      /\ Waiting.pc = "idle"
BY BlankRow DEF Waiting, RequestRecord, Knows, Entity

\* A row with the fields of S taken from another.
Mixed(m, a, b, S) == \A k \in Fields : m[k] = IF k \in S THEN a[k] ELSE b[k]

LEMMA MixedRow ==
  ASSUME NEW a \in UserRow, NEW b \in UserRow, NEW S,
         NEW m, m = [k \in Fields |-> IF k \in S THEN a[k] ELSE b[k]]
  PROVE  m \in UserRow /\ Mixed(m, a, b, S)
<1>1. Mixed(m, a, b, S)
  BY DEF Mixed
<1>2. m = [state |-> m.state, oauth |-> m.oauth, email |-> m.email, nickname |-> m.nickname,
           nicknameAt |-> m.nicknameAt, badge |-> m.badge, badgeAt |-> m.badgeAt,
           image |-> m.image, setting |-> m.setting]
  BY DEF Fields, Columns
<1>3. /\ m.state \in {"unused", "stored", "removed"} /\ m.oauth \in Persons \cup {NoPerson}
      /\ m.email \in Emails \cup {NoPerson} /\ m.nickname \in Nicknames \cup {NoPerson}
      /\ m.nicknameAt \in 0..MaxTime /\ m.badge \in Choices \cup {NoBadge}
      /\ m.badgeAt \in 0..MaxTime /\ m.image \in {"kakao", "own"} /\ m.setting \in BOOLEAN
  BY <1>1 DEF Mixed, UserRow, Fields, Columns
<1>4. m \in UserRow
  BY <1>2, <1>3 DEF UserRow
<1> QED
  BY <1>1, <1>4

-----------------------------------------------------------------------------
(* Requests. *)

\* A request begins or goes on with r, and no row changes.
Moves(c, r) == request' = [request EXCEPT ![c] = r] /\ UNCHANGED <<profile, wanted, stale>>

LEMMA RequestHolds ==
  ASSUME ProfileTyped, NEW c \in Requests
  PROVE  /\ request[c] \in RequestRecord /\ Knows(request[c]) /\ request[c].seen \in UserRow
         /\ request[c].means \in SUBSET Columns /\ request[c].dirty \in SUBSET Columns
BY DEF ProfileTyped, RequestsTyped, RequestRecord

LEMMA RowHolds ==
  ASSUME ProfileTyped, NEW u \in UserIds
  PROVE  /\ profile[u] \in UserRow /\ wanted[u] \in UserRow /\ stale[u] \in SUBSET Fields
         /\ Stored(u) => Complete(profile[u])
BY DEF ProfileTyped, RowsTyped

LEMMA RequestTyped ==
  ASSUME ProfileTyped, NEW c \in Requests, NEW r \in RequestRecord, Knows(r),
         request' = [request EXCEPT ![c] = r]
  PROVE  RequestsTyped'
BY DEF ProfileTyped, RequestsTyped

LEMMA MovesTyped ==
  ASSUME ProfileTyped, NEW c \in Requests, NEW r \in RequestRecord, Knows(r), Moves(c, r),
         CountersTyped'
  PROVE  ProfileTyped'
<1>1. RequestsTyped'
  BY RequestTyped DEF Moves
<1>2. RowsTyped'
  BY DEF Moves, ProfileTyped, RowsTyped, Stored
<1> QED
  BY <1>1, <1>2 DEF ProfileTyped

LEMMA RefuseStep ==
  ASSUME ProfileTyped, NEW c \in Requests, Refuse(c)
  PROVE  ProfileTyped' /\ Moves(c, Waiting) /\ UNCHANGED <<clock, rivals>>
<1>1. Moves(c, Waiting) /\ UNCHANGED <<clock, asked, rivals>>
  BY DEF Refuse, Answer, Moves
<1>2. CountersTyped'
  BY <1>1 DEF ProfileTyped, CountersTyped
<1> QED
  BY <1>1, <1>2, MovesTyped, WaitingKnows

\* What a request makes of the entity it has loaded.
Loaded(r, u, w) ==
  /\ r.user = u /\ r.pc \in {"check", "evaluate", "reload"} /\ r.dirty = {}
  /\ \A k \in Fields \ r.means : r.seen[k] = w[k]
  /\ "nicknameAt" \in r.means => r.seen.nicknameAt - w.nicknameAt >= NicknameLimit
  /\ "badgeAt" \in r.means => r.seen.badgeAt - w.badgeAt >= BadgeCooldown

\* A request loads user u and makes e of it.
LoadsAs(c, u, where, e, ks) ==
  /\ LoadUser(c, u, where, e, ks)
  /\ where \in {"check", "evaluate", "reload"} /\ ks \in SUBSET Columns /\ ks \in Intents
  /\ e \in UserRow /\ e.state = "stored" /\ Complete(e)
  /\ \A k \in Fields \ ks : e[k] = profile[u][k]
  /\ "nicknameAt" \in ks => e.nicknameAt - profile[u].nicknameAt >= NicknameLimit
  /\ "badgeAt" \in ks => e.badgeAt - profile[u].badgeAt >= BadgeCooldown

LEMMA LoadTyped ==
  ASSUME ProfileTyped, NEW c \in Requests, NEW u \in UserIds, NEW where, NEW e, NEW ks,
         LoadsAs(c, u, where, e, ks)
  PROVE  /\ ProfileTyped' /\ Stored(u) /\ request[c].pc = "idle" /\ UNCHANGED <<clock, rivals>>
         /\ \E r : Moves(c, r) /\ Loaded(r, u, profile[u])
<1> DEFINE r == [pc |-> where, user |-> u, seen |-> e, means |-> ks, dirty |-> {}]
<1>1. /\ request[c].pc = "idle" /\ Stored(u) /\ asked < MaxRequests /\ asked' = asked + 1
      /\ UNCHANGED <<clock, rivals>> /\ Moves(c, r)
  BY DEF LoadsAs, LoadUser, Pc, Begin, Moves
<1>2. r \in RequestRecord
  BY DEF LoadsAs, RequestRecord
<1>3. Knows(r)
  BY DEF LoadsAs, Knows, Entity
<1>4. Loaded(r, u, profile[u])
  BY DEF LoadsAs, Loaded
<1>5. CountersTyped'
  BY <1>1, ProfileAssumption DEF ProfileTyped, CountersTyped
<1> HIDE DEF r
<1>6. ProfileTyped'
  BY <1>1, <1>2, <1>3, <1>5, MovesTyped
<1> QED
  BY <1>1, <1>4, <1>6

Loads(c, u) ==
  \/ \E n \in Nicknames : StartNickname(c, u, n)
  \/ \E b \in Choices \cup {NoBadge} : StartBadge(c, u, b)
  \/ StartPatch(c, u)

LEMMA LoadStep ==
  ASSUME ProfileTyped, NEW c \in Requests, NEW u \in UserIds, Loads(c, u)
  PROVE  /\ ProfileTyped' /\ Stored(u) /\ request[c].pc = "idle" /\ UNCHANGED <<clock, rivals>>
         /\ \E r : Moves(c, r) /\ Loaded(r, u, profile[u])
<1> PICK row \in UserRow : row = profile[u]
  BY RowHolds
<1>0. Stored(u) /\ row.state = "stored" /\ Complete(row) /\ clock \in 0..MaxTime
  <2>1. Stored(u)
    BY DEF Loads, StartNickname, StartBadge, StartPatch, LoadUser
  <2> QED
    BY <2>1, RowHolds DEF ProfileTyped, CountersTyped, Stored
<1>1. ASSUME NEW n \in Nicknames, StartNickname(c, u, n)
      PROVE  \E where, e, ks : LoadsAs(c, u, where, e, ks)
  <2> PICK e : e = [row EXCEPT !.nickname = n, !.nicknameAt = clock]
    OBVIOUS
  <2>1. e \in UserRow /\ e.state = "stored" /\ Complete(e) /\ e.nicknameAt = clock
    BY <1>0 DEF UserRow, Complete
  <2>2. \A k \in Fields \ {"nickname", "nicknameAt"} : e[k] = row[k]
    BY DEF UserRow, Fields, Columns
  <2>3. PICK where \in {"check", "reload"} : LoadUser(c, u, where, e, {"nickname", "nicknameAt"})
    BY <1>1 DEF StartNickname
  <2>4. clock - row.nicknameAt >= NicknameLimit
    BY <1>1 DEF StartNickname
  <2>5. /\ {"nickname", "nicknameAt"} \in SUBSET Columns /\ "badgeAt" \notin {"nickname", "nicknameAt"}
        /\ {"nickname", "nicknameAt"} \in Intents
    BY DEF Columns, Intents
  <2>6. LoadsAs(c, u, where, e, {"nickname", "nicknameAt"})
    BY <2>1, <2>2, <2>3, <2>4, <2>5 DEF LoadsAs
  <2> QED
    BY <2>6
<1>2. ASSUME NEW b \in Choices \cup {NoBadge}, StartBadge(c, u, b)
      PROVE  \E where, e, ks : LoadsAs(c, u, where, e, ks)
  <2> PICK e : e = [row EXCEPT !.badge = b, !.badgeAt = clock]
    OBVIOUS
  <2>1. e \in UserRow /\ e.state = "stored" /\ Complete(e) /\ e.badgeAt = clock
    BY <1>0 DEF UserRow, Complete
  <2>2. \A k \in Fields \ {"badge", "badgeAt"} : e[k] = row[k]
    BY DEF UserRow, Fields, Columns
  <2>3. PICK where \in {"evaluate", "reload"} : LoadUser(c, u, where, e, {"badge", "badgeAt"})
    BY <1>2 DEF StartBadge
  <2>4. clock - row.badgeAt >= BadgeCooldown
    BY <1>2 DEF StartBadge
  <2>5. /\ {"badge", "badgeAt"} \in SUBSET Columns /\ "nicknameAt" \notin {"badge", "badgeAt"}
        /\ {"badge", "badgeAt"} \in Intents
    BY DEF Columns, Intents
  <2>6. LoadsAs(c, u, where, e, {"badge", "badgeAt"})
    BY <2>1, <2>2, <2>3, <2>4, <2>5 DEF LoadsAs
  <2> QED
    BY <2>6
<1>3. ASSUME StartPatch(c, u)
      PROVE  \E where, e, ks : LoadsAs(c, u, where, e, ks)
  <2> DEFINE Patches(e, k) ==
               /\ LoadUser(c, u, "reload", e, {k}) /\ k \in {"email", "nickname", "image"}
               /\ e \in UserRow /\ e.state = "stored" /\ Complete(e)
               /\ \A j \in Fields \ {k} : e[j] = row[j]
  <2>1. \E e, k : Patches(e, k)
    <3>1. ASSUME NEW x \in Emails, LoadUser(c, u, "reload", [row EXCEPT !.email = x], {"email"})
          PROVE  <2>1
      <4> PICK e : e = [row EXCEPT !.email = x]
        OBVIOUS
      <4>1. e \in UserRow /\ e.state = "stored" /\ Complete(e)
            /\ \A j \in Fields \ {"email"} : e[j] = row[j]
        BY <1>0 DEF UserRow, Complete, Fields, Columns
      <4>2. Patches(e, "email")
        BY <3>1, <4>1
      <4> HIDE DEF Patches
      <4> QED
        BY <4>2
    <3>2. ASSUME NEW x \in Nicknames,
                 LoadUser(c, u, "reload", [row EXCEPT !.nickname = x], {"nickname"})
          PROVE  <2>1
      <4> PICK e : e = [row EXCEPT !.nickname = x]
        OBVIOUS
      <4>1. e \in UserRow /\ e.state = "stored" /\ Complete(e)
            /\ \A j \in Fields \ {"nickname"} : e[j] = row[j]
        BY <1>0 DEF UserRow, Complete, Fields, Columns
      <4>2. Patches(e, "nickname")
        BY <3>2, <4>1
      <4> HIDE DEF Patches
      <4> QED
        BY <4>2
    <3>3. ASSUME LoadUser(c, u, "reload", [row EXCEPT !.image = "own"], {"image"})
          PROVE  <2>1
      <4> PICK e : e = [row EXCEPT !.image = "own"]
        OBVIOUS
      <4>1. e \in UserRow /\ e.state = "stored" /\ Complete(e)
            /\ \A j \in Fields \ {"image"} : e[j] = row[j]
        BY <1>0 DEF UserRow, Complete, Fields, Columns
      <4>2. Patches(e, "image")
        BY <3>3, <4>1
      <4> HIDE DEF Patches
      <4> QED
        BY <4>2
    <3> QED
      BY <1>3, <3>1, <3>2, <3>3 DEF StartPatch
  <2>2. PICK e, k : Patches(e, k)
    BY <2>1
  <2>3. /\ {k} \in SUBSET Columns /\ "nicknameAt" \notin {k} /\ "badgeAt" \notin {k}
        /\ {k} \in Intents
    BY <2>2 DEF Columns, Intents
  <2>4. LoadsAs(c, u, "reload", e, {k})
    BY <2>2, <2>3 DEF LoadsAs
  <2> QED
    BY <2>4
<1> QED
  BY <1>1, <1>2, <1>3, LoadTyped DEF Loads

\* A login finds its user, or that it has none.
LEMMA FindStep ==
  ASSUME ProfileTyped, NEW c \in Requests, NEW p \in Persons, FindOauth(c, p)
  PROVE  /\ ProfileTyped' /\ request[c].pc = "idle" /\ clock' = clock /\ rivals \subseteq rivals'
         /\ \/ \E u \in UserIds :
                 /\ Moves(c, [Waiting EXCEPT !.pc = "sync", !.user = u])
                 /\ Stored(u) /\ profile[u].image # "own" /\ rivals' = rivals
            \/ \E n \in Nicknames :
                 /\ Moves(c, [Waiting EXCEPT !.pc = "signup", !.seen = NewUser(p, p, n)])
                 /\ \A u \in UserIds : Stored(u) => profile[u].oauth # p
                 /\ \A d \in Requests : Pc(d, "signup") /\ request[d].seen.oauth = p => p \in rivals'
<1>1. /\ request[c].pc = "idle" /\ asked < MaxRequests /\ asked' = asked + 1 /\ clock' = clock
      /\ UNCHANGED <<profile, wanted, stale>>
  BY DEF FindOauth, Pc, Begin
<1>2. rivals \subseteq rivals' /\ rivals' \subseteq rivals \cup {p}
  BY DEF FindOauth
<1>3. CountersTyped'
  BY <1>1, <1>2, ProfileAssumption DEF ProfileTyped, CountersTyped
<1>4. CASE \E u \in UserIds : /\ Stored(u) /\ ~ KeepsImage(u) /\ UNCHANGED rivals
                              /\ request' = [request EXCEPT ![c] = [Waiting EXCEPT !.pc = "sync", !.user = u]]
  <2>1. PICK u \in UserIds : /\ Stored(u) /\ ~ KeepsImage(u) /\ UNCHANGED rivals
                             /\ request' = [request EXCEPT ![c] = [Waiting EXCEPT !.pc = "sync", !.user = u]]
    BY <1>4
  <2>2. PICK r : r = [Waiting EXCEPT !.pc = "sync", !.user = u]
    OBVIOUS
  <2>3. r \in RequestRecord
    BY <2>2, BlankRow DEF Waiting, RequestRecord
  <2>4. Knows(r)
    BY <2>2 DEF Knows, Entity, Waiting
  <2>5. Moves(c, r)
    BY <1>1, <2>1, <2>2 DEF Moves
  <2>6. ProfileTyped'
    BY <1>3, <2>3, <2>4, <2>5, MovesTyped
  <2> QED
    BY <1>1, <1>2, <2>1, <2>2, <2>5, <2>6 DEF KeepsImage
<1>5. CASE \E n \in Nicknames :
             /\ \A u \in UserIds : Stored(u) => profile[u].oauth # p
             /\ request' = [request EXCEPT ![c] = [Waiting EXCEPT !.pc = "signup", !.seen = NewUser(p, p, n)]]
             /\ rivals' = IF \E d \in Requests : Pc(d, "signup") /\ request[d].seen.oauth = p
                          THEN rivals \cup {p} ELSE rivals
  <2>1. PICK n \in Nicknames :
          /\ \A u \in UserIds : Stored(u) => profile[u].oauth # p
          /\ request' = [request EXCEPT ![c] = [Waiting EXCEPT !.pc = "signup", !.seen = NewUser(p, p, n)]]
          /\ rivals' = IF \E d \in Requests : Pc(d, "signup") /\ request[d].seen.oauth = p
                       THEN rivals \cup {p} ELSE rivals
    BY <1>5
  <2>2. PICK r : r = [Waiting EXCEPT !.pc = "signup", !.seen = NewUser(p, p, n)]
    OBVIOUS
  <2>3. NewUser(p, p, n) \in UserRow
    BY NewRow, ProfileAssumption
  <2>4. r \in RequestRecord
    BY <2>2, <2>3 DEF Waiting, RequestRecord
  <2>5. Knows(r)
    BY <2>2 DEF Knows, Entity, Waiting
  <2>6. Moves(c, r)
    BY <1>1, <2>1, <2>2 DEF Moves
  <2>7. ProfileTyped'
    BY <1>3, <2>4, <2>5, <2>6, MovesTyped
  <2>8. \A d \in Requests : Pc(d, "signup") /\ request[d].seen.oauth = p => p \in rivals'
    BY <2>1
  <2> QED
    BY <1>1, <1>2, <2>1, <2>2, <2>6, <2>7, <2>8
<1> QED
  BY <1>4, <1>5 DEF FindOauth

\* A request checks what it loaded.
LEMMA CheckStep ==
  ASSUME ProfileTyped, NEW c \in Requests, CheckNickname(c) \/ EvaluateBadge(c), ~ Refuse(c)
  PROVE  /\ ProfileTyped' /\ UNCHANGED <<clock, rivals>> /\ request[c].pc \in Entity
         /\ Moves(c, [request[c] EXCEPT !.pc = "reload"])
<1>1. /\ request[c].pc \in Entity /\ UNCHANGED <<profile, wanted, stale, clock, asked, rivals>>
      /\ request' = [request EXCEPT ![c].pc = "reload"]
  BY DEF CheckNickname, EvaluateBadge, Pc, Goto, Entity
<1>2. PICK r : r = [request[c] EXCEPT !.pc = "reload"]
  OBVIOUS
<1>3. Moves(c, r)
  BY <1>1, <1>2 DEF Moves, ProfileTyped, RequestsTyped
<1>4. r \in RequestRecord
  BY <1>2, RequestHolds DEF RequestRecord
<1>5. Knows(r)
  BY <1>1, <1>2, RequestHolds DEF Knows, Entity, RequestRecord
<1>6. CountersTyped'
  BY <1>1 DEF ProfileTyped, CountersTyped
<1> QED
  BY <1>1, <1>2, <1>3, <1>4, <1>5, <1>6, MovesTyped

\* The read of a save.
LEMMA ReloadStep ==
  ASSUME ProfileTyped, NEW c \in Requests, ReloadUser(c)
  PROVE  /\ ProfileTyped' /\ UNCHANGED <<clock, rivals>>
         /\ request[c].pc = "reload" /\ request[c].user \in UserIds
         /\ \E r : /\ Moves(c, r) /\ r.user = request[c].user /\ r.seen = request[c].seen
                   /\ r.means = request[c].means /\ r.pc \in {"write", "reinsert"}
                   /\ r.pc = "write" => \A k \in Columns \ r.dirty : r.seen[k] = profile[r.user][k]
<1> DEFINE u == request[c].user
           D == IF Stored(u) THEN {k \in Columns : request[c].seen[k] # profile[u][k]} ELSE {}
           where == IF Stored(u) THEN "write" ELSE "reinsert"
<1>1. /\ request[c].pc = "reload" /\ UNCHANGED <<profile, wanted, stale, clock, asked, rivals>>
      /\ request' = [request EXCEPT ![c].pc = where, ![c].dirty = D]
  BY DEF ReloadUser, Pc
<1>2. PICK r : r = [request[c] EXCEPT !.pc = where, !.dirty = D]
  OBVIOUS
<1>3. D \in SUBSET Columns /\ (Stored(u) => \A k \in Columns \ D : request[c].seen[k] = profile[u][k])
      /\ (Stored(u) => where = "write") /\ (~ Stored(u) => where = "reinsert")
  OBVIOUS
<1> HIDE DEF D, where
<1>4. Moves(c, r)
  BY <1>1, <1>2 DEF Moves, ProfileTyped, RequestsTyped
<1>5. where \in {"write", "reinsert"}
  BY <1>3
<1>6. r \in RequestRecord /\ r.user = u /\ r.seen = request[c].seen /\ r.means = request[c].means
      /\ r.pc = where /\ r.dirty = D
  BY <1>2, <1>3, <1>5, RequestHolds DEF RequestRecord
<1>7. Knows(request[c])
  BY RequestHolds
<1>8. Knows(r) /\ u \in UserIds
  BY <1>1, <1>5, <1>6, <1>7 DEF Knows, Entity
<1>9. CountersTyped'
  BY <1>1 DEF ProfileTyped, CountersTyped
<1>10. ProfileTyped'
  BY <1>4, <1>6, <1>8, <1>9, MovesTyped
<1> QED
  BY <1>1, <1>3, <1>4, <1>5, <1>6, <1>8, <1>10

-----------------------------------------------------------------------------
(* Writes. *)

\* Only user u may get another row, other intentions or other stale fields.
Touches(u) ==
  \A v \in UserIds \ {u} :
    profile'[v] = profile[v] /\ wanted'[v] = wanted[v] /\ stale'[v] = stale[v]

\* Nothing is taken off the stale fields of u while another request holds the user.
Marks(c, u, ks) ==
  /\ \A d \in Requests : d # c /\ request[d].user = u => stale'[u] = stale[u] \cup ks
  /\ stale'[u] \in {stale[u] \cup ks, stale[u] \ ks}

LEMMA SettlesMarks ==
  ASSUME ProfileTyped, NEW u \in UserIds, NEW c, NEW ks \in SUBSET Fields, Settles(c, u, ks)
  PROVE  /\ Marks(c, u, ks) /\ stale' \in [UserIds -> SUBSET Fields]
         /\ \A v \in UserIds \ {u} : stale'[v] = stale[v]
<1>1. stale' = [stale EXCEPT ![u] =
        IF \E d \in Requests \ {c} : request[d].user = u THEN @ \cup ks ELSE @ \ ks]
  BY DEF Settles
<1> QED
  BY <1>1 DEF ProfileTyped, RowsTyped, Marks

LEMMA MeansRow ==
  ASSUME ProfileTyped, NEW u \in UserIds, NEW ks, NEW row \in UserRow, Means(u, ks, row)
  PROVE  /\ wanted' \in [UserIds -> UserRow] /\ Mixed(wanted'[u], row, wanted[u], ks)
         /\ \A v \in UserIds \ {u} : wanted'[v] = wanted[v]
<1> PICK w : w = [k \in Fields |-> IF k \in ks THEN row[k] ELSE wanted[u][k]]
  OBVIOUS
<1>1. wanted' = [wanted EXCEPT ![u] = w]
  BY DEF Means
<1>2. w \in UserRow /\ Mixed(w, row, wanted[u], ks)
  BY RowHolds, MixedRow
<1> QED
  BY <1>1, <1>2 DEF ProfileTyped, RowsTyped

LEMMA ProfileMoves ==
  ASSUME ProfileTyped, NEW u \in UserIds, NEW row \in UserRow, profile' = [profile EXCEPT ![u] = row],
         row.state = "stored" => Complete(row),
         wanted' \in [UserIds -> UserRow], stale' \in [UserIds -> SUBSET Fields]
  PROVE  RowsTyped' /\ profile'[u] = row /\ \A v \in UserIds \ {u} : profile'[v] = profile[v]
<1>1. /\ profile \in [UserIds -> UserRow]
      /\ \A v \in UserIds : profile[v].state = "stored" => Complete(profile[v])
  BY DEF ProfileTyped, RowsTyped, Stored
<1>2. profile' \in [UserIds -> UserRow]
  BY <1>1
<1>3. profile'[u] = row /\ \A v \in UserIds \ {u} : profile'[v] = profile[v]
  BY <1>1
<1>4. \A v \in UserIds : profile'[v].state = "stored" => Complete(profile'[v])
  BY <1>1, <1>3
<1>5. \A v \in UserIds : Stored(v)' => Complete(profile[v])'
  BY <1>4 DEF Stored, Complete
<1> QED
  BY <1>2, <1>3, <1>5 DEF RowsTyped

LEMMA AnswerStep ==
  ASSUME ProfileTyped, NEW c \in Requests, Answer(c)
  PROVE  RequestsTyped' /\ request'[c] = Waiting /\ \A d \in Requests \ {c} : request'[d] = request[d]
<1>1. request' = [request EXCEPT ![c] = Waiting]
  BY DEF Answer
<1> QED
  BY <1>1, RequestTyped, WaitingKnows DEF ProfileTyped, RequestsTyped

LEMMA CountersStay ==
  ASSUME ProfileTyped, UNCHANGED <<clock, asked, rivals>>
  PROVE  CountersTyped'
BY DEF ProfileTyped, CountersTyped

\* The answer of request c, and what it leaves alone.
Answers(c) ==
  /\ ProfileTyped' /\ UNCHANGED <<clock, rivals>>
  /\ request'[c] = Waiting /\ \A d \in Requests \ {c} : request'[d] = request[d]

LEMMA WriteStep ==
  ASSUME ProfileTyped, NEW c \in Requests, WriteUser(c), ~ Refuse(c)
  PROVE  \E u \in UserIds :
           /\ u = request[c].user /\ request[c].pc = "write" /\ Stored(u)
           /\ Answers(c) /\ Touches(u)
           /\ Marks(c, u, request[c].means \cap request[c].dirty)
           /\ Mixed(profile'[u], request[c].seen, profile[u], request[c].dirty)
           /\ Mixed(wanted'[u], request[c].seen, wanted[u], request[c].means)
           /\ ~ Taken(u, profile'[u].email, profile'[u].nickname)
<1> PICK r : r = request[c]
  OBVIOUS
<1> PICK u : u = r.user
  OBVIOUS
<1> PICK new : new = [k \in Fields |-> IF k \in r.dirty THEN r.seen[k] ELSE profile[u][k]]
  OBVIOUS
<1>1. /\ r.pc = "write" /\ Stored(u) /\ ~ Taken(u, new.email, new.nickname)
      /\ profile' = [profile EXCEPT ![u] = new]
      /\ Means(u, r.means, r.seen)
      /\ Settles(c, u, r.means \cap r.dirty)
      /\ Answer(c)
      /\ UNCHANGED <<clock, asked, rivals>>
  BY DEF WriteUser, Pc
<1>2. /\ Knows(r) /\ r.seen \in UserRow /\ r.means \in SUBSET Columns /\ r.dirty \in SUBSET Columns
  BY RequestHolds
<1>3. u \in UserIds /\ r.seen.state = "stored" /\ Complete(r.seen)
  BY <1>1, <1>2 DEF Knows, Entity
<1>4. profile[u] \in UserRow /\ Complete(profile[u])
  BY <1>1, <1>3, RowHolds
<1>5. new \in UserRow /\ Mixed(new, r.seen, profile[u], r.dirty)
  BY <1>2, <1>4, MixedRow
<1>6. Complete(new)
  BY <1>3, <1>4, <1>5 DEF Mixed, Complete, Fields, Columns
<1>7. /\ wanted' \in [UserIds -> UserRow] /\ Mixed(wanted'[u], r.seen, wanted[u], r.means)
      /\ \A v \in UserIds \ {u} : wanted'[v] = wanted[v]
  BY <1>1, <1>2, <1>3, MeansRow
<1>8. r.means \cap r.dirty \in SUBSET Fields
  BY <1>2 DEF Fields
<1>9. /\ Marks(c, u, r.means \cap r.dirty) /\ stale' \in [UserIds -> SUBSET Fields]
      /\ \A v \in UserIds \ {u} : stale'[v] = stale[v]
  BY <1>1, <1>3, <1>8, SettlesMarks
<1>a. /\ u \in UserIds /\ new \in UserRow /\ profile' = [profile EXCEPT ![u] = new]
      /\ wanted' \in [UserIds -> UserRow] /\ stale' \in [UserIds -> SUBSET Fields]
  BY <1>1, <1>3, <1>5, <1>7, <1>9
<1>10. RowsTyped' /\ profile'[u] = new /\ \A v \in UserIds \ {u} : profile'[v] = profile[v]
  BY <1>a, <1>6, ProfileMoves
<1>11. RequestsTyped' /\ request'[c] = Waiting /\ \A d \in Requests \ {c} : request'[d] = request[d]
  BY <1>1, AnswerStep
<1>12. CountersTyped'
  BY <1>1, CountersStay
<1>13. Answers(c) /\ Touches(u)
  BY <1>1, <1>7, <1>9, <1>10, <1>11, <1>12 DEF Answers, Touches, ProfileTyped
<1>14. /\ Mixed(profile'[u], r.seen, profile[u], r.dirty)
       /\ ~ Taken(u, profile'[u].email, profile'[u].nickname)
  BY <1>1, <1>5, <1>10
<1> QED
  BY <1>1, <1>3, <1>7, <1>9, <1>13, <1>14

LEMMA ReinsertStep ==
  ASSUME ProfileTyped, NEW c \in Requests, ReinsertUser(c), ~ Refuse(c)
  PROVE  \E u \in UserIds :
           /\ u = request[c].user /\ request[c].pc = "reinsert"
           /\ Answers(c) /\ Touches(u) /\ stale'[u] = Fields /\ wanted' = wanted
           /\ profile'[u].state = "stored" /\ profile'[u].oauth = NoPerson
           /\ ~ Taken(u, profile'[u].email, profile'[u].nickname)
<1> PICK r : r = request[c]
  OBVIOUS
<1> PICK u : u = r.user
  OBVIOUS
<1> PICK new : new = [r.seen EXCEPT !.oauth = NoPerson]
  OBVIOUS
<1>1. /\ r.pc = "reinsert" /\ ~ Taken(u, r.seen.email, r.seen.nickname)
      /\ profile' = [profile EXCEPT ![u] = new] /\ stale' = [stale EXCEPT ![u] = Fields]
      /\ Answer(c) /\ UNCHANGED <<clock, asked, wanted, rivals>>
  BY DEF ReinsertUser, Pc
<1>2. Knows(r) /\ r.seen \in UserRow
  BY RequestHolds
<1>3. u \in UserIds /\ r.seen.state = "stored" /\ Complete(r.seen)
  BY <1>1, <1>2 DEF Knows, Entity
<1>4. /\ new \in UserRow /\ new.state = "stored" /\ new.oauth = NoPerson
      /\ new.email = r.seen.email /\ new.nickname = r.seen.nickname
  BY <1>2, <1>3 DEF UserRow
<1>5. Complete(new)
  BY <1>3, <1>4 DEF Complete
<1>6. /\ wanted' \in [UserIds -> UserRow] /\ stale' \in [UserIds -> SUBSET Fields]
      /\ stale'[u] = Fields /\ \A v \in UserIds \ {u} : stale'[v] = stale[v]
  BY <1>1, <1>3 DEF ProfileTyped, RowsTyped
<1>a. u \in UserIds /\ profile' = [profile EXCEPT ![u] = new]
  BY <1>1, <1>3
<1>b. new \in UserRow /\ ~ Taken(u, new.email, new.nickname)
  BY <1>1, <1>4
<1>c. /\ new.state = "stored" => Complete(new)
      /\ wanted' \in [UserIds -> UserRow] /\ stale' \in [UserIds -> SUBSET Fields]
  BY <1>5, <1>6
<1>7. RowsTyped' /\ profile'[u] = new /\ \A v \in UserIds \ {u} : profile'[v] = profile[v]
  BY <1>a, <1>b, <1>c, ProfileMoves
<1>8. RequestsTyped' /\ request'[c] = Waiting /\ \A d \in Requests \ {c} : request'[d] = request[d]
  BY <1>1, AnswerStep
<1>9. CountersTyped'
  BY <1>1, CountersStay
<1>10. Answers(c) /\ Touches(u)
  BY <1>1, <1>6, <1>7, <1>8, <1>9 DEF Answers, Touches, ProfileTyped
<1>d. u = request[c].user /\ request[c].pc = "reinsert" /\ wanted' = wanted
  BY <1>1
<1>e. /\ stale'[u] = Fields /\ profile'[u].state = "stored" /\ profile'[u].oauth = NoPerson
      /\ ~ Taken(u, profile'[u].email, profile'[u].nickname)
  BY <1>b, <1>4, <1>6, <1>7
<1> QED
  BY <1>a, <1>d, <1>e, <1>10

LEMMA SyncStep ==
  ASSUME ProfileTyped, NEW c \in Requests, SyncImage(c), ~ Refuse(c)
  PROVE  \E u \in UserIds :
           /\ u = request[c].user /\ request[c].pc = "sync" /\ Stored(u)
           /\ Answers(c) /\ Touches(u) /\ UNCHANGED <<wanted, stale>>
           /\ profile'[u].image = "kakao"
           /\ \A k \in Fields \ {"image"} : profile'[u][k] = profile[u][k]
<1> PICK u : u = request[c].user
  OBVIOUS
<1> PICK new : new = [profile[u] EXCEPT !.image = "kakao"]
  OBVIOUS
<1>1. request[c].pc = "sync" /\ Stored(u) /\ Answer(c) /\ UNCHANGED <<clock, asked, wanted, stale, rivals>>
  BY DEF SyncImage, Pc
<1>2. u \in UserIds
  BY <1>1, RequestHolds DEF Knows, Entity
<1>3. profile' = [profile EXCEPT ![u] = new]
  BY <1>2 DEF SyncImage, Refuse, ProfileTyped, RowsTyped
<1>4. new \in UserRow /\ new.image = "kakao" /\ \A k \in Fields \ {"image"} : new[k] = profile[u][k]
  BY <1>2, RowHolds DEF UserRow, Fields, Columns
<1>5. Complete(profile[u])
  BY <1>1, <1>2, RowHolds
<1>6. Complete(new)
  BY <1>4, <1>5 DEF Complete, Fields, Columns
<1>7. wanted' \in [UserIds -> UserRow] /\ stale' \in [UserIds -> SUBSET Fields]
  BY <1>1 DEF ProfileTyped, RowsTyped
<1>8. RowsTyped' /\ profile'[u] = new /\ \A v \in UserIds \ {u} : profile'[v] = profile[v]
  BY <1>2, <1>3, <1>4, <1>6, <1>7, ProfileMoves
<1>9. RequestsTyped' /\ request'[c] = Waiting /\ \A d \in Requests \ {c} : request'[d] = request[d]
  BY <1>1, AnswerStep
<1>10. CountersTyped'
  BY <1>1, CountersStay
<1>11. Answers(c) /\ Touches(u)
  BY <1>1, <1>8, <1>9, <1>10 DEF Answers, Touches, ProfileTyped
<1>12. profile'[u].image = "kakao" /\ \A k \in Fields \ {"image"} : profile'[u][k] = profile[u][k]
  BY <1>4, <1>8
<1> QED
  BY <1>1, <1>2, <1>11, <1>12

\* A new row.
Creates(u, row) ==
  /\ profile[u].state = "unused" /\ row.state = "stored" /\ ~ Taken(u, row.email, row.nickname)
  /\ profile'[u] = row /\ wanted'[u] = row /\ stale' = stale

LEMMA SignUpStep ==
  ASSUME ProfileTyped, NEW c \in Requests, SignUpUser(c), ~ Refuse(c)
  PROVE  /\ request[c].pc = "signup" /\ Answers(c) /\ request[c].seen.oauth \in Persons
         /\ \E u \in UserIds : Touches(u) /\ Creates(u, request[c].seen)
<1> PICK e : e = request[c].seen
  OBVIOUS
<1>1. request[c].pc = "signup" /\ ~ Taken(NoUserId, e.email, e.nickname) /\ Answer(c)
      /\ UNCHANGED <<clock, asked, stale, rivals>>
  BY DEF SignUpUser, Pc
<1>2. PICK u \in UserIds : /\ profile[u].state = "unused" /\ profile' = [profile EXCEPT ![u] = e]
                           /\ wanted' = [wanted EXCEPT ![u] = e]
  BY DEF SignUpUser, Refuse
<1>3. PICK p \in Persons, n \in Nicknames : e = NewUser(p, p, n)
  BY <1>1, RequestHolds DEF Knows
<1>4. e \in UserRow /\ Complete(e) /\ e.state = "stored" /\ e.oauth = p
  BY <1>3, NewRow, ProfileAssumption
<1>5. ~ Taken(u, e.email, e.nickname)
  BY <1>1, ProfileAssumption DEF Taken
<1>6. /\ wanted' \in [UserIds -> UserRow] /\ stale' \in [UserIds -> SUBSET Fields]
      /\ wanted'[u] = e /\ \A v \in UserIds \ {u} : wanted'[v] = wanted[v]
  BY <1>1, <1>2, <1>4 DEF ProfileTyped, RowsTyped
<1>7. RowsTyped' /\ profile'[u] = e /\ \A v \in UserIds \ {u} : profile'[v] = profile[v]
  BY <1>2, <1>4, <1>6, ProfileMoves
<1>8. RequestsTyped' /\ request'[c] = Waiting /\ \A d \in Requests \ {c} : request'[d] = request[d]
  BY <1>1, AnswerStep
<1>9. CountersTyped'
  BY <1>1, CountersStay
<1>10. Answers(c) /\ Touches(u)
  BY <1>1, <1>6, <1>7, <1>8, <1>9 DEF Answers, Touches, ProfileTyped
<1>11. Creates(u, e)
  BY <1>1, <1>2, <1>4, <1>5, <1>6, <1>7 DEF Creates
<1> QED
  BY <1>1, <1>4, <1>10, <1>11

\* One statement, by no request of Requests.
Alone == ProfileTyped' /\ UNCHANGED <<clock, rivals, request>>

LEMMA AloneTyped ==
  ASSUME ProfileTyped, RowsTyped', Begin, UNCHANGED <<clock, rivals, request>>
  PROVE  Alone
<1>1. CountersTyped'
  BY ProfileAssumption DEF Begin, ProfileTyped, CountersTyped
<1>2. RequestsTyped'
  BY DEF ProfileTyped, RequestsTyped
<1> QED
  BY <1>1, <1>2 DEF Alone, ProfileTyped

LEMMA CreateUserStep ==
  ASSUME ProfileTyped, NEW u \in UserIds, NEW e \in Emails, NEW n \in Nicknames, CreateUser(u, e, n)
  PROVE  Alone /\ Touches(u) /\ \E row : row.oauth = NoPerson /\ Creates(u, row)
<1> PICK row : row = NewUser(NoPerson, e, n)
  OBVIOUS
<1>1. /\ Begin /\ profile[u].state = "unused" /\ ~ Taken(u, e, n)
      /\ profile' = [profile EXCEPT ![u] = row] /\ wanted' = [wanted EXCEPT ![u] = row]
      /\ UNCHANGED <<request, clock, stale, rivals>>
  BY DEF CreateUser
<1>2. /\ row \in UserRow /\ Complete(row) /\ row.state = "stored" /\ row.oauth = NoPerson
      /\ row.email = e /\ row.nickname = n
  BY NewRow
<1>3. /\ wanted' \in [UserIds -> UserRow] /\ stale' \in [UserIds -> SUBSET Fields]
      /\ wanted'[u] = row /\ \A v \in UserIds \ {u} : wanted'[v] = wanted[v]
  BY <1>1, <1>2 DEF ProfileTyped, RowsTyped
<1>4. RowsTyped' /\ profile'[u] = row /\ \A v \in UserIds \ {u} : profile'[v] = profile[v]
  BY <1>1, <1>2, <1>3, ProfileMoves
<1>5. Alone
  BY <1>1, <1>4, AloneTyped
<1>6. Touches(u) /\ Creates(u, row)
  BY <1>1, <1>2, <1>3, <1>4 DEF Touches, Creates
<1> QED
  BY <1>2, <1>5, <1>6

LEMMA SettingStep ==
  ASSUME ProfileTyped, NEW u \in UserIds, UpdateSetting(u)
  PROVE  /\ Alone /\ Touches(u) /\ Stored(u) /\ Marks(NoUserId, u, {"setting"})
         /\ \A k \in Fields \ {"setting"} : profile'[u][k] = profile[u][k]
         /\ Mixed(wanted'[u], profile'[u], wanted[u], {"setting"})
<1> PICK new : new = [profile[u] EXCEPT !.setting = ~ @]
  OBVIOUS
<1>1. /\ Begin /\ Stored(u) /\ profile' = [profile EXCEPT ![u].setting = ~ @]
      /\ Means(u, {"setting"}, profile'[u]) /\ Settles(NoUserId, u, {"setting"})
      /\ UNCHANGED <<request, clock, rivals>>
  BY DEF UpdateSetting
<1>2. profile' = [profile EXCEPT ![u] = new]
  BY <1>1 DEF ProfileTyped, RowsTyped
<1>3. new \in UserRow /\ \A k \in Fields \ {"setting"} : new[k] = profile[u][k]
  <2> PICK row \in UserRow : row = profile[u]
    BY RowHolds
  <2> PICK b \in BOOLEAN : b = ~ row.setting
    BY Zenon
  <2>1. new = [row EXCEPT !.setting = b]
    BY Zenon
  <2> QED
    BY <2>1 DEF UserRow, Fields, Columns
<1>4. Complete(profile[u])
  BY <1>1, RowHolds
<1>5. Complete(new)
  BY <1>3, <1>4 DEF Complete, Fields, Columns
<1>6. {"setting"} \in SUBSET Fields
  BY DEF Fields, Columns
<1>7. profile'[u] = new
  BY <1>2 DEF ProfileTyped, RowsTyped
<1>8. Means(u, {"setting"}, new)
  BY <1>1, <1>7
<1>9. /\ wanted' \in [UserIds -> UserRow] /\ Mixed(wanted'[u], new, wanted[u], {"setting"})
      /\ \A v \in UserIds \ {u} : wanted'[v] = wanted[v]
  BY <1>3, <1>8, MeansRow
<1>10. /\ Marks(NoUserId, u, {"setting"}) /\ stale' \in [UserIds -> SUBSET Fields]
       /\ \A v \in UserIds \ {u} : stale'[v] = stale[v]
  BY <1>1, <1>6, SettlesMarks
<1>11. RowsTyped' /\ \A v \in UserIds \ {u} : profile'[v] = profile[v]
  BY <1>2, <1>3, <1>5, <1>9, <1>10, ProfileMoves
<1>12. Alone
  BY <1>1, <1>11, AloneTyped
<1>13. Touches(u)
  BY <1>9, <1>10, <1>11 DEF Touches
<1> QED
  BY <1>1, <1>3, <1>7, <1>9, <1>10, <1>12, <1>13

LEMMA DeleteStep ==
  ASSUME ProfileTyped, NEW u \in UserIds, DeleteUser(u)
  PROVE  /\ Alone /\ Touches(u) /\ Stored(u) /\ Marks(NoUserId, u, Fields)
         /\ profile'[u].state = "removed"
         /\ Mixed(wanted'[u], profile'[u], wanted[u], Fields)
<1> PICK new : new = Blank("removed")
  OBVIOUS
<1>1. /\ Begin /\ Stored(u) /\ profile' = [profile EXCEPT ![u] = new]
      /\ Means(u, Fields, profile'[u]) /\ Settles(NoUserId, u, Fields)
      /\ UNCHANGED <<request, clock, rivals>>
  BY DEF DeleteUser
<1>2. new \in UserRow /\ new.state = "removed"
  BY BlankRow
<1>3. profile'[u] = new
  BY <1>1 DEF ProfileTyped, RowsTyped
<1>4. Means(u, Fields, new)
  BY <1>1, <1>3
<1>5. /\ wanted' \in [UserIds -> UserRow] /\ Mixed(wanted'[u], new, wanted[u], Fields)
      /\ \A v \in UserIds \ {u} : wanted'[v] = wanted[v]
  BY <1>2, <1>4, MeansRow
<1>6. /\ Marks(NoUserId, u, Fields) /\ stale' \in [UserIds -> SUBSET Fields]
      /\ \A v \in UserIds \ {u} : stale'[v] = stale[v]
  BY <1>1, SettlesMarks
<1>7. RowsTyped' /\ \A v \in UserIds \ {u} : profile'[v] = profile[v]
  BY <1>1, <1>2, <1>5, <1>6, ProfileMoves
<1>8. Alone
  BY <1>1, <1>7, AloneTyped
<1>9. Touches(u)
  BY <1>5, <1>6, <1>7 DEF Touches
<1> QED
  BY <1>1, <1>2, <1>3, <1>5, <1>6, <1>8, <1>9

LEMMA PassStep ==
  ASSUME ProfileTyped, PassTime
  PROVE  ProfileTyped' /\ UNCHANGED <<profile, request, wanted, stale, rivals>>
<1>1. UNCHANGED <<profile, request, asked, wanted, stale, rivals>> /\ clock' \in 0..MaxTime
  BY ProfileAssumption DEF PassTime, ProfileTyped, CountersTyped
<1> QED
  BY <1>1 DEF ProfileTyped, RowsTyped, RequestsTyped, CountersTyped, Stored

\* The steps, by what they write.
LEMMA ProfileSteps ==
  ASSUME [ProfileNext]_profileVars
  PROVE  \/ \E c \in Requests, u \in UserIds : Loads(c, u)
         \/ \E c \in Requests, p \in Persons : FindOauth(c, p)
         \/ \E c \in Requests : (CheckNickname(c) \/ EvaluateBadge(c)) /\ ~ Refuse(c)
         \/ \E c \in Requests : ReloadUser(c)
         \/ \E c \in Requests : WriteUser(c) /\ ~ Refuse(c)
         \/ \E c \in Requests : ReinsertUser(c) /\ ~ Refuse(c)
         \/ \E c \in Requests : SyncImage(c) /\ ~ Refuse(c)
         \/ \E c \in Requests : SignUpUser(c) /\ ~ Refuse(c)
         \/ \E c \in Requests : Refuse(c)
         \/ \E u \in UserIds, e \in Emails, n \in Nicknames : CreateUser(u, e, n)
         \/ \E u \in UserIds : UpdateSetting(u)
         \/ \E u \in UserIds : DeleteUser(u)
         \/ PassTime
         \/ UNCHANGED profileVars
<1>1. ASSUME NEW c \in Requests, ProfileStart(c)
      PROVE  \/ \E u \in UserIds : Loads(c, u)
             \/ \E p \in Persons : FindOauth(c, p)
  BY <1>1, Zenon DEF ProfileStart, Loads
<1>2. ASSUME NEW c \in Requests, CrashRequest(c)
      PROVE  Refuse(c)
  BY <1>2 DEF CrashRequest
<1> QED
  BY <1>1, <1>2, Zenon DEF ProfileNext, ProfileStatement

LEMMA ProfileTypedStart == ProfileInit => ProfileTyped
<1> SUFFICES ASSUME ProfileInit PROVE ProfileTyped
  OBVIOUS
<1>1. PICK S \in SUBSET UserIds, p \in Persons, n \in Nicknames :
        profile = [u \in UserIds |-> IF u \in S THEN NewUser(p, p, n) ELSE Blank("unused")]
  BY DEF ProfileInit
<1>2. /\ request = [c \in Requests |-> Waiting] /\ clock = NicknameLimit /\ asked = 0
      /\ wanted = profile /\ stale = [u \in UserIds |-> {}] /\ rivals = {}
  BY DEF ProfileInit
<1>3. /\ NewUser(p, p, n) \in UserRow /\ Complete(NewUser(p, p, n))
      /\ Blank("unused") \in UserRow /\ Blank("unused").state = "unused"
  BY NewRow, BlankRow, ProfileAssumption
<1>4. RowsTyped
  BY <1>1, <1>2, <1>3 DEF RowsTyped, Stored
<1>5. RequestsTyped
  BY <1>2, WaitingKnows DEF RequestsTyped
<1>6. CountersTyped
  BY <1>2, ProfileAssumption DEF CountersTyped
<1> QED
  BY <1>4, <1>5, <1>6 DEF ProfileTyped

LEMMA ProfileTypedStep == ProfileTyped /\ [ProfileNext]_profileVars => ProfileTyped'
<1> SUFFICES ASSUME ProfileTyped, [ProfileNext]_profileVars PROVE ProfileTyped'
  OBVIOUS
<1>1. ASSUME NEW c \in Requests, \/ \E u \in UserIds : Loads(c, u)
                                 \/ \E p \in Persons : FindOauth(c, p)
                                 \/ (CheckNickname(c) \/ EvaluateBadge(c)) /\ ~ Refuse(c)
                                 \/ ReloadUser(c) \/ Refuse(c)
      PROVE  ProfileTyped'
  BY <1>1, LoadStep, FindStep, CheckStep, ReloadStep, RefuseStep
<1>2. ASSUME NEW c \in Requests, ~ Refuse(c),
             WriteUser(c) \/ ReinsertUser(c) \/ SyncImage(c) \/ SignUpUser(c)
      PROVE  ProfileTyped'
  <2>1. Answers(c)
    BY <1>2, WriteStep, ReinsertStep, SyncStep, SignUpStep
  <2> QED
    BY <2>1 DEF Answers
<1>3. ASSUME NEW u \in UserIds, \/ \E e \in Emails, n \in Nicknames : CreateUser(u, e, n)
                                \/ UpdateSetting(u) \/ DeleteUser(u)
      PROVE  ProfileTyped'
  <2>1. Alone
    BY <1>3, CreateUserStep, SettingStep, DeleteStep
  <2> QED
    BY <2>1 DEF Alone
<1>4. CASE UNCHANGED profileVars
  BY <1>4 DEF profileVars, ProfileTyped, RowsTyped, RequestsTyped, CountersTyped, Stored
<1> QED
  BY <1>1, <1>2, <1>3, <1>4, PassStep, ProfileSteps, Zenon

LEMMA ProfileTypedAlways == ProfileSpec => []ProfileTyped
BY ProfileTypedStart, ProfileTypedStep, PTL DEF ProfileSpec

-----------------------------------------------------------------------------
(* What a request knows of the fields that are not stale. *)

AgreesOn(k, r, w) ==
  /\ k \notin r.means => r.seen[k] = w[k]
  /\ r.pc = "write" /\ k \in Columns \ r.dirty => r.seen[k] = w[k]
  /\ k = "nicknameAt" /\ k \in r.means => r.seen.nicknameAt - w.nicknameAt >= NicknameLimit
  /\ k = "badgeAt" /\ k \in r.means => r.seen.badgeAt - w.badgeAt >= BadgeCooldown

Agrees(r, w, old) ==
  /\ r.pc \in Entity => \A k \in Fields \ old : AgreesOn(k, r, w)
  /\ r.pc = "sync" /\ "image" \notin old => w.image = "kakao"

\* Who holds a user holds one that was there, and agrees with it.
Follows(r) ==
  r.user \in UserIds => profile[r.user].state # "unused" /\ Agrees(r, wanted[r.user], stale[r.user])

RequestsFollow == \A c \in Requests : Follows(request[c])

\* A user not yet created is not wanted.
UnusedUnwanted == \A u \in UserIds : profile[u].state = "unused" => wanted[u].state = "unused"

Standing == UnracedWritesStand /\ RequestsFollow /\ UnusedUnwanted

\* What is not stale now was not, and is still what was meant.
Kept(u) == \A k \in Fields \ stale'[u] : k \notin stale[u] /\ wanted'[u][k] = wanted[u][k]

LEMMA AgreesKept ==
  ASSUME NEW u, NEW r, Kept(u), Agrees(r, wanted[u], stale[u])
  PROVE  Agrees(r, wanted'[u], stale'[u])
BY DEF Kept, Agrees, AgreesOn, Fields, Columns

\* Requests of C end, the others find what they hold kept.
LEMMA StandingKept ==
  ASSUME ProfileTyped, ProfileTyped', Standing, NEW u \in UserIds, Touches(u),
         profile'[u].state # "unused",
         \A k \in Fields \ stale'[u] : profile'[u][k] = wanted'[u][k],
         NEW C, \A d \in Requests \ C : request'[d] = request[d],
         \A d \in Requests \cap C : request'[d] = Waiting,
         \A d \in Requests \ C : request[d].user = u => Kept(u)
  PROVE  Standing'
<1>1. UnracedWritesStand'
  BY DEF Standing, UnracedWritesStand, Touches
<1>2. UnusedUnwanted'
  BY DEF Standing, UnusedUnwanted, Touches
<1>3. RequestsFollow'
  <2> SUFFICES ASSUME NEW d \in Requests PROVE Follows(request[d])'
    BY DEF RequestsFollow
  <2>1. CASE d \in C
    <3>1. request'[d].user \notin UserIds
      BY <2>1, WaitingKnows, ProfileAssumption
    <3> QED
      BY <3>1 DEF Follows
  <2>2. CASE d \notin C /\ request[d].user = u
    <3>1. request'[d] = request[d] /\ Kept(u)
      BY <2>2
    <3>2. Agrees(request[d], wanted[u], stale[u])
      BY <2>2 DEF Standing, RequestsFollow, Follows
    <3>3. Agrees(request[d], wanted'[u], stale'[u])
      BY <3>1, <3>2, AgreesKept
    <3> QED
      BY <2>2, <3>1, <3>3 DEF Follows
  <2>3. CASE d \notin C /\ request[d].user # u
    <3>1. request'[d] = request[d] /\ Follows(request[d])
      BY <2>3 DEF Standing, RequestsFollow
    <3> QED
      BY <2>3, <3>1 DEF Follows, Touches
  <2> QED
    BY <2>1, <2>2, <2>3
<1> QED
  BY <1>1, <1>2, <1>3 DEF Standing

LEMMA MovesStanding ==
  ASSUME Standing, NEW c \in Requests, NEW r, Moves(c, r), Follows(r), ProfileTyped
  PROVE  Standing'
<1>1. /\ request'[c] = r /\ \A d \in Requests \ {c} : request'[d] = request[d]
      /\ UNCHANGED <<profile, wanted, stale>>
  BY DEF Moves, ProfileTyped, RequestsTyped
<1> QED
  BY <1>1 DEF Standing, UnracedWritesStand, RequestsFollow, UnusedUnwanted, Follows

LEMMA StandingHolds ==
  ASSUME Standing, NEW c \in Requests
  PROVE  /\ request[c].user \in UserIds =>
              /\ profile[request[c].user].state # "unused"
              /\ Agrees(request[c], wanted[request[c].user], stale[request[c].user])
         /\ \A u \in UserIds, k \in Fields : k \notin stale[u] => profile[u][k] = wanted[u][k]
BY DEF Standing, RequestsFollow, Follows, UnracedWritesStand

LEMMA LoadStanding ==
  ASSUME ProfileTyped, Standing, NEW c \in Requests, NEW u \in UserIds, Loads(c, u)
  PROVE  Standing'
<1>1. PICK r : Moves(c, r) /\ Loaded(r, u, profile[u])
  BY LoadStep
<1>2. Stored(u) /\ \A k \in Fields : k \notin stale[u] => profile[u][k] = wanted[u][k]
  BY LoadStep, StandingHolds
<1>3. "nicknameAt" \in Fields /\ "badgeAt" \in Fields
  BY DEF Fields, Columns
<1>4. \A k \in Fields \ stale[u] : AgreesOn(k, r, wanted[u])
  <2> SUFFICES ASSUME NEW k \in Fields \ stale[u] PROVE AgreesOn(k, r, wanted[u])
    OBVIOUS
  <2>1. profile[u][k] = wanted[u][k]
    BY <1>2
  <2>2. k = "nicknameAt" => profile[u].nicknameAt = wanted[u].nicknameAt
    BY <2>1
  <2>3. k = "badgeAt" => profile[u].badgeAt = wanted[u].badgeAt
    BY <2>1
  <2> QED
    BY <1>1, <2>1, <2>2, <2>3 DEF Loaded, AgreesOn
<1>5. Follows(r)
  BY <1>1, <1>2, <1>4 DEF Follows, Agrees, Loaded, Stored
<1> QED
  BY <1>1, <1>5, MovesStanding

LEMMA FindStanding ==
  ASSUME ProfileTyped, Standing, NEW c \in Requests, NEW p \in Persons, FindOauth(c, p)
  PROVE  Standing'
<1>1. CASE \E u \in UserIds : /\ Moves(c, [Waiting EXCEPT !.pc = "sync", !.user = u])
                              /\ Stored(u) /\ profile[u].image # "own"
  <2>1. PICK u \in UserIds : /\ Moves(c, [Waiting EXCEPT !.pc = "sync", !.user = u])
                             /\ Stored(u) /\ profile[u].image # "own"
    BY <1>1
  <2>2. PICK r : r = [Waiting EXCEPT !.pc = "sync", !.user = u]
    OBVIOUS
  <2>3. r.pc = "sync" /\ r.user = u
    BY <2>2 DEF Waiting
  <2>4. profile[u].image = "kakao"
    BY <2>1, RowHolds DEF UserRow
  <2>5. "image" \notin stale[u] => wanted[u].image = "kakao"
    BY <2>4, StandingHolds DEF Fields, Columns
  <2>6. Follows(r)
    BY <2>1, <2>3, <2>5 DEF Follows, Agrees, Entity, Stored
  <2> QED
    BY <2>1, <2>2, <2>6, MovesStanding
<1>2. CASE \E n \in Nicknames : Moves(c, [Waiting EXCEPT !.pc = "signup", !.seen = NewUser(p, p, n)])
  <2>1. PICK n \in Nicknames : Moves(c, [Waiting EXCEPT !.pc = "signup", !.seen = NewUser(p, p, n)])
    BY <1>2
  <2>2. PICK r : r = [Waiting EXCEPT !.pc = "signup", !.seen = NewUser(p, p, n)]
    OBVIOUS
  <2>3. r.user \notin UserIds
    BY <2>2, ProfileAssumption DEF Waiting
  <2> QED
    BY <2>1, <2>2, <2>3, MovesStanding DEF Follows
<1> QED
  BY <1>1, <1>2, FindStep

LEMMA CheckStanding ==
  ASSUME ProfileTyped, Standing, NEW c \in Requests, CheckNickname(c) \/ EvaluateBadge(c), ~ Refuse(c)
  PROVE  Standing'
<1>1. PICK r : r = [request[c] EXCEPT !.pc = "reload"]
  OBVIOUS
<1>2. Moves(c, r) /\ request[c].pc \in Entity
  BY <1>1, CheckStep
<1>3. r.pc = "reload" /\ r.user = request[c].user /\ r.seen = request[c].seen /\ r.means = request[c].means
  BY <1>1, RequestHolds DEF RequestRecord
<1>4. Follows(r)
  BY <1>2, <1>3, StandingHolds DEF Follows, Agrees, AgreesOn
<1> QED
  BY <1>2, <1>4, MovesStanding

LEMMA ReloadStanding ==
  ASSUME ProfileTyped, Standing, NEW c \in Requests, ReloadUser(c)
  PROVE  Standing'
<1>1. PICK r : /\ Moves(c, r) /\ r.user = request[c].user /\ r.seen = request[c].seen
               /\ r.means = request[c].means /\ r.pc \in {"write", "reinsert"}
               /\ r.pc = "write" => \A k \in Columns \ r.dirty : r.seen[k] = profile[r.user][k]
  BY ReloadStep
<1>2. PICK u \in UserIds : u = request[c].user /\ request[c].pc = "reload"
  BY ReloadStep
<1>3. /\ profile[u].state # "unused" /\ Agrees(request[c], wanted[u], stale[u])
      /\ \A k \in Fields : k \notin stale[u] => profile[u][k] = wanted[u][k]
  BY <1>2, StandingHolds
<1>4. \A k \in Fields \ stale[u] : AgreesOn(k, request[c], wanted[u])
  BY <1>2, <1>3 DEF Agrees, Entity
<1>5. \A k \in Fields \ stale[u] : AgreesOn(k, r, wanted[u])
  BY <1>1, <1>2, <1>3, <1>4 DEF AgreesOn
<1>6. Follows(r)
  BY <1>1, <1>2, <1>3, <1>5 DEF Follows, Agrees
<1> QED
  BY <1>1, <1>6, MovesStanding

\* What the UPDATE of a save writes besides its own columns, it found so.
LEMMA WriteKeeps ==
  ASSUME ProfileTyped, Standing, NEW c \in Requests, WriteUser(c), ~ Refuse(c),
         NEW u \in UserIds, u = request[c].user
  PROVE  /\ \A k \in Fields \ stale'[u] : profile'[u][k] = wanted'[u][k]
         /\ \A k \in Fields \ stale[u] : k \notin request[c].means \cap request[c].dirty =>
              wanted'[u][k] = wanted[u][k]
<1> PICK r : r = request[c]
  OBVIOUS
<1>1. /\ r.pc = "write" /\ Marks(c, u, r.means \cap r.dirty)
      /\ Mixed(profile'[u], r.seen, profile[u], r.dirty)
      /\ Mixed(wanted'[u], r.seen, wanted[u], r.means)
  BY WriteStep
<1>2. /\ Agrees(r, wanted[u], stale[u])
      /\ \A k \in Fields : k \notin stale[u] => profile[u][k] = wanted[u][k]
  BY StandingHolds
<1>3. r.means \in SUBSET Columns /\ r.dirty \in SUBSET Columns
  BY RequestHolds
<1>4. ASSUME NEW k \in Fields \ stale[u]
      PROVE  /\ profile[u][k] = wanted[u][k]
             /\ k \notin r.means => r.seen[k] = wanted[u][k]
             /\ k \in r.means \ r.dirty => r.seen[k] = wanted[u][k]
  BY <1>1, <1>2, <1>3 DEF Agrees, AgreesOn, Entity
<1>5. \A k \in Fields \ stale[u] : k \notin r.means \cap r.dirty => wanted'[u][k] = wanted[u][k]
  BY <1>1, <1>4 DEF Mixed
<1>6. ASSUME NEW k \in Fields \ stale'[u]
      PROVE  profile'[u][k] = wanted'[u][k]
  <2>1. CASE k \in r.means \cap r.dirty
    BY <1>1, <2>1 DEF Mixed
  <2>2. CASE k \notin r.means \cap r.dirty
    <3>1. k \notin stale[u]
      BY <1>1, <1>6, <2>2 DEF Marks
    <3>2. profile'[u][k] = wanted[u][k]
      BY <1>1, <1>4, <2>2, <3>1 DEF Mixed
    <3> QED
      BY <1>5, <2>2, <3>1, <3>2
  <2> QED
    BY <2>1, <2>2
<1> QED
  BY <1>5, <1>6

LEMMA WriteStanding ==
  ASSUME ProfileTyped, Standing, NEW c \in Requests, WriteUser(c), ~ Refuse(c)
  PROVE  Standing'
<1>1. PICK u \in UserIds :
        /\ u = request[c].user /\ Stored(u) /\ Answers(c) /\ Touches(u)
        /\ Marks(c, u, request[c].means \cap request[c].dirty)
        /\ Mixed(profile'[u], request[c].seen, profile[u], request[c].dirty)
  BY WriteStep
<1>2. /\ \A k \in Fields \ stale'[u] : profile'[u][k] = wanted'[u][k]
      /\ \A k \in Fields \ stale[u] : k \notin request[c].means \cap request[c].dirty =>
           wanted'[u][k] = wanted[u][k]
  BY <1>1, WriteKeeps
<1>3. profile'[u].state # "unused"
  BY <1>1, RequestHolds DEF Mixed, Stored, Fields, Columns
<1>4. \A d \in Requests \ {c} : request[d].user = u => Kept(u)
  BY <1>1, <1>2 DEF Marks, Kept
<1>5. /\ ProfileTyped' /\ \A d \in Requests \ {c} : request'[d] = request[d]
      /\ \A d \in Requests \cap {c} : request'[d] = Waiting
  BY <1>1 DEF Answers
<1>6. Touches(u) /\ \A k \in Fields \ stale'[u] : profile'[u][k] = wanted'[u][k]
  BY <1>1, <1>2
<1> QED
  BY <1>3, <1>4, <1>5, <1>6, StandingKept

LEMMA ReinsertStanding ==
  ASSUME ProfileTyped, Standing, NEW c \in Requests, ReinsertUser(c), ~ Refuse(c)
  PROVE  Standing'
<1>1. PICK u \in UserIds : /\ Answers(c) /\ Touches(u) /\ stale'[u] = Fields
                           /\ profile'[u].state = "stored"
  BY ReinsertStep
<1>2. Kept(u) /\ \A k \in Fields \ stale'[u] : profile'[u][k] = wanted'[u][k]
  BY <1>1 DEF Kept
<1>3. /\ ProfileTyped' /\ \A d \in Requests \ {c} : request'[d] = request[d]
      /\ \A d \in Requests \cap {c} : request'[d] = Waiting
  BY <1>1 DEF Answers
<1> QED
  BY <1>1, <1>2, <1>3, StandingKept

LEMMA SyncStanding ==
  ASSUME ProfileTyped, Standing, NEW c \in Requests, SyncImage(c), ~ Refuse(c)
  PROVE  Standing'
<1>1. PICK u \in UserIds :
        /\ u = request[c].user /\ request[c].pc = "sync" /\ Stored(u)
        /\ Answers(c) /\ Touches(u) /\ UNCHANGED <<wanted, stale>>
        /\ profile'[u].image = "kakao"
        /\ \A k \in Fields \ {"image"} : profile'[u][k] = profile[u][k]
  BY SyncStep
<1>2. /\ Agrees(request[c], wanted[u], stale[u])
      /\ \A k \in Fields : k \notin stale[u] => profile[u][k] = wanted[u][k]
  BY <1>1, StandingHolds
<1>3. "image" \notin stale[u] => wanted[u].image = "kakao"
  BY <1>1, <1>2 DEF Agrees
<1>4. \A k \in Fields \ stale'[u] : profile'[u][k] = wanted'[u][k]
  BY <1>1, <1>2, <1>3
<1>5. Kept(u) /\ profile'[u].state # "unused"
  BY <1>1 DEF Kept, Stored, Fields, Columns
<1>6. /\ ProfileTyped' /\ \A d \in Requests \ {c} : request'[d] = request[d]
      /\ \A d \in Requests \cap {c} : request'[d] = Waiting
  BY <1>1 DEF Answers
<1>7. Touches(u) /\ \A d \in Requests \ {c} : request[d].user = u => Kept(u)
  BY <1>1, <1>5
<1> QED
  BY <1>4, <1>5, <1>6, <1>7, StandingKept

\* Nobody holds a user not yet created.
LEMMA CreateStanding ==
  ASSUME ProfileTyped, ProfileTyped', Standing, NEW u \in UserIds, NEW row, Touches(u), Creates(u, row),
         NEW C, \A d \in Requests \ C : request'[d] = request[d],
         \A d \in Requests \cap C : request'[d] = Waiting
  PROVE  Standing'
<1>1. profile[u].state = "unused" /\ profile'[u].state # "unused"
      /\ \A k \in Fields \ stale'[u] : profile'[u][k] = wanted'[u][k]
  BY DEF Creates
<1>2. \A d \in Requests : request[d].user # u
  BY <1>1, StandingHolds
<1> QED
  BY <1>1, <1>2, StandingKept

LEMMA AloneStanding ==
  ASSUME ProfileTyped, Standing, NEW u \in UserIds,
         \/ UpdateSetting(u) \/ DeleteUser(u)
         \/ \E e \in Emails, n \in Nicknames : CreateUser(u, e, n)
  PROVE  Standing'
<1>0. /\ \A d \in Requests \ {} : Alone => request'[d] = request[d]
      /\ \A d \in Requests \cap {} : request'[d] = Waiting
      /\ Alone => ProfileTyped'
  BY DEF Alone
<1>1. CASE \E e \in Emails, n \in Nicknames : CreateUser(u, e, n)
  <2>1. PICK row : Alone /\ Touches(u) /\ Creates(u, row)
    BY <1>1, CreateUserStep
  <2>2. ProfileTyped' /\ \A d \in Requests \ {} : request'[d] = request[d]
    BY <1>0, <2>1
  <2> QED
    BY <1>0, <2>1, <2>2, CreateStanding
<1>2. ASSUME NEW ks \in SUBSET Fields, Alone, Touches(u), Marks(NoUserId, u, ks),
             profile'[u].state # "unused", Mixed(wanted'[u], profile'[u], wanted[u], ks),
             \A k \in Fields \ ks : profile'[u][k] = profile[u][k]
      PROVE  Standing'
  <2>1. \A k \in Fields \ stale'[u] : profile'[u][k] = wanted'[u][k]
    <3> SUFFICES ASSUME NEW k \in Fields, k \notin stale'[u], k \notin ks
                 PROVE  profile'[u][k] = wanted'[u][k]
      BY <1>2 DEF Mixed
    <3>1. k \notin stale[u]
      BY <1>2 DEF Marks
    <3>2. profile[u][k] = wanted[u][k]
      BY <3>1 DEF Standing, UnracedWritesStand
    <3> QED
      BY <1>2, <3>2 DEF Mixed
  <2>2. \A d \in Requests : request[d].user = u => Kept(u)
    BY <1>2, ProfileAssumption DEF Marks, Mixed, Kept
  <2>3. /\ ProfileTyped' /\ \A d \in Requests \ {} : request'[d] = request[d]
        /\ \A d \in Requests \ {} : request[d].user = u => Kept(u)
    BY <1>0, <1>2, <2>2
  <2> QED
    BY <1>0, <1>2, <2>1, <2>3, StandingKept
<1>3. CASE UpdateSetting(u)
  <2>1. /\ Alone /\ Touches(u) /\ Stored(u) /\ Marks(NoUserId, u, {"setting"})
        /\ \A k \in Fields \ {"setting"} : profile'[u][k] = profile[u][k]
        /\ Mixed(wanted'[u], profile'[u], wanted[u], {"setting"})
    BY <1>3, SettingStep
  <2>2. profile'[u].state # "unused" /\ {"setting"} \in SUBSET Fields
    BY <2>1 DEF Stored, Fields, Columns
  <2> QED
    BY <1>2, <2>1, <2>2
<1>4. CASE DeleteUser(u)
  <2>1. /\ Alone /\ Touches(u) /\ Marks(NoUserId, u, Fields) /\ profile'[u].state # "unused"
        /\ Mixed(wanted'[u], profile'[u], wanted[u], Fields)
    BY <1>4, DeleteStep
  <2> QED
    BY <1>2, <2>1
<1> QED
  BY <1>1, <1>3, <1>4

LEMMA StandingStart == ProfileInit => Standing
<1> SUFFICES ASSUME ProfileInit PROVE Standing
  OBVIOUS
<1>1. wanted = profile /\ request = [c \in Requests |-> Waiting]
  BY DEF ProfileInit
<1>2. UnracedWritesStand /\ UnusedUnwanted
  BY <1>1 DEF UnracedWritesStand, UnusedUnwanted
<1>3. RequestsFollow
  BY <1>1, WaitingKnows, ProfileAssumption DEF RequestsFollow, Follows
<1> QED
  BY <1>2, <1>3 DEF Standing

LEMMA StandingStep == ProfileTyped /\ Standing /\ [ProfileNext]_profileVars => Standing'
<1> SUFFICES ASSUME ProfileTyped, Standing, [ProfileNext]_profileVars PROVE Standing'
  OBVIOUS
<1>1. ASSUME NEW c \in Requests, Refuse(c)
      PROVE  Standing'
  <2>1. Moves(c, Waiting) /\ Follows(Waiting)
    BY <1>1, RefuseStep, WaitingKnows, ProfileAssumption DEF Follows
  <2> QED
    BY <2>1, MovesStanding
<1>2. ASSUME NEW c \in Requests, SignUpUser(c), ~ Refuse(c)
      PROVE  Standing'
  <2>1. PICK u \in UserIds : Touches(u) /\ \E row : Creates(u, row)
    BY <1>2, SignUpStep
  <2>2. /\ ProfileTyped' /\ \A d \in Requests \ {c} : request'[d] = request[d]
        /\ \A d \in Requests \cap {c} : request'[d] = Waiting
    BY <1>2, SignUpStep DEF Answers
  <2>3. PICK row : Creates(u, row)
    BY <2>1
  <2> QED
    BY <2>1, <2>2, <2>3, CreateStanding
<1>3. CASE UNCHANGED <<profile, request, wanted, stale>>
  BY <1>3 DEF Standing, UnracedWritesStand, RequestsFollow, Follows, UnusedUnwanted
<1>4. PassTime \/ UNCHANGED profileVars => Standing'
  BY <1>3 DEF PassTime, profileVars
<1> QED
  BY <1>1, <1>2, <1>4, LoadStanding, FindStanding, CheckStanding, ReloadStanding, WriteStanding,
     ReinsertStanding, SyncStanding, AloneStanding, ProfileSteps, Zenon

LEMMA StandingAlways == ProfileSpec => []Standing
BY StandingStart, StandingStep, ProfileTypedAlways, PTL DEF ProfileSpec

\* The last write of a field stands unless another request held the user when it was
\* made: a save of an entity writes other columns than its own only as it found them.
THEOREM UnracedStand == ProfileSpec => []UnracedWritesStand
<1>1. Standing => UnracedWritesStand
  BY DEF Standing
<1> QED
  BY <1>1, StandingAlways, PTL

-----------------------------------------------------------------------------
(* The limits of the nickname and of the badge. *)

LimitKept(u) ==
  wanted[u].state = "stored" /\ wanted'[u].state = "stored" =>
    /\ \/ /\ wanted'[u].nickname = wanted[u].nickname
          /\ wanted'[u].nicknameAt = wanted[u].nicknameAt
       \/ wanted'[u].nicknameAt - wanted[u].nicknameAt >= NicknameLimit
       \/ PatchesNickname(u)
       \/ "nicknameAt" \in stale[u]
    /\ \/ /\ wanted'[u].badge = wanted[u].badge
          /\ wanted'[u].badgeAt = wanted[u].badgeAt
       \/ wanted'[u].badgeAt - wanted[u].badgeAt >= BadgeCooldown
       \/ "badgeAt" \in stale[u]

LEMMA TouchedLimits ==
  ASSUME NEW u \in UserIds, Touches(u), LimitKept(u)
  PROVE  \A v \in UserIds : LimitKept(v)
BY DEF Touches, LimitKept

LEMMA WriteLimits ==
  ASSUME ProfileTyped, Standing, NEW c \in Requests, WriteUser(c), ~ Refuse(c)
  PROVE  \A v \in UserIds : LimitKept(v)
<1>1. PICK u \in UserIds :
        /\ u = request[c].user /\ request[c].pc = "write" /\ Touches(u)
        /\ Mixed(wanted'[u], request[c].seen, wanted[u], request[c].means)
  BY WriteStep
<1> PICK r : r = request[c]
  OBVIOUS
<1>2. \A k \in Fields \ stale[u] : AgreesOn(k, r, wanted[u])
  BY <1>1, StandingHolds DEF Agrees, Entity
<1>3. {"nickname", "nicknameAt", "badge", "badgeAt"} \subseteq Fields
  BY DEF Fields, Columns
<1>a. /\ "nickname" \notin r.means => wanted'[u].nickname = wanted[u].nickname
      /\ "badge" \notin r.means => wanted'[u].badge = wanted[u].badge
  BY <1>1, <1>3 DEF Mixed
<1>4. wanted'[u].nicknameAt = (IF "nicknameAt" \in r.means THEN r.seen.nicknameAt ELSE wanted[u].nicknameAt)
  BY <1>1, <1>3 DEF Mixed
<1>5. wanted'[u].badgeAt = (IF "badgeAt" \in r.means THEN r.seen.badgeAt ELSE wanted[u].badgeAt)
  BY <1>1, <1>3 DEF Mixed
<1>6. "nicknameAt" \notin stale[u] /\ "nicknameAt" \in r.means =>
        r.seen.nicknameAt - wanted[u].nicknameAt >= NicknameLimit
  BY <1>2, <1>3 DEF AgreesOn
<1>7. "badgeAt" \notin stale[u] /\ "badgeAt" \in r.means =>
        r.seen.badgeAt - wanted[u].badgeAt >= BadgeCooldown
  BY <1>2, <1>3 DEF AgreesOn
<1>8. r.means \in Intents
  BY <1>1, RequestHolds DEF Knows, Entity
<1>9. /\ "nicknameAt" \in r.means \/ "nickname" \notin r.means \/ r.means = {"nickname"}
      /\ "badgeAt" \in r.means \/ "badge" \notin r.means
  BY <1>8 DEF Intents
<1>10. r.means = {"nickname"} => PatchesNickname(u)
  <2>1. request'[c].pc = "idle"
    BY <1>1, WriteStep, WaitingKnows DEF Answers
  <2> QED
    BY <1>1, <1>4, <2>1 DEF PatchesNickname, Pc
<1>11. LimitKept(u)
  BY <1>a, <1>4, <1>5, <1>6, <1>7, <1>9, <1>10 DEF LimitKept
<1> QED
  BY <1>1, <1>11, TouchedLimits

LEMMA LimitsStep ==
  ASSUME ProfileTyped, Standing, [ProfileNext]_profileVars
  PROVE  \A v \in UserIds : LimitKept(v)
<1>1. CASE wanted' = wanted
  BY <1>1 DEF LimitKept
<1>2. ASSUME NEW c \in Requests, \/ \E u \in UserIds : Loads(c, u)
                                 \/ \E p \in Persons : FindOauth(c, p)
                                 \/ (CheckNickname(c) \/ EvaluateBadge(c)) /\ ~ Refuse(c)
                                 \/ ReloadUser(c) \/ Refuse(c)
      PROVE  wanted' = wanted
  BY <1>2, LoadStep, FindStep, CheckStep, ReloadStep, RefuseStep DEF Moves
<1>3. ASSUME NEW c \in Requests, ~ Refuse(c), ReinsertUser(c) \/ SyncImage(c)
      PROVE  wanted' = wanted
  BY <1>3, ReinsertStep, SyncStep
<1>4. ASSUME NEW u \in UserIds, NEW row, Touches(u), Creates(u, row)
      PROVE  \A v \in UserIds : LimitKept(v)
  <2>1. LimitKept(u)
    BY <1>4 DEF Standing, UnusedUnwanted, Creates, LimitKept
  <2> QED
    BY <1>4, <2>1, TouchedLimits
<1>5. ASSUME NEW c \in Requests, SignUpUser(c), ~ Refuse(c)
      PROVE  \A v \in UserIds : LimitKept(v)
  BY <1>4, <1>5, SignUpStep
<1>6. ASSUME NEW u \in UserIds, NEW e \in Emails, NEW n \in Nicknames, CreateUser(u, e, n)
      PROVE  \A v \in UserIds : LimitKept(v)
  BY <1>4, <1>6, CreateUserStep
<1>7. ASSUME NEW u \in UserIds, UpdateSetting(u)
      PROVE  \A v \in UserIds : LimitKept(v)
  <2>1. Touches(u) /\ Mixed(wanted'[u], profile'[u], wanted[u], {"setting"})
    BY <1>7, SettingStep
  <2>2. LimitKept(u)
    BY <2>1 DEF Mixed, LimitKept, Fields, Columns
  <2> QED
    BY <2>1, <2>2, TouchedLimits
<1>8. ASSUME NEW u \in UserIds, DeleteUser(u)
      PROVE  \A v \in UserIds : LimitKept(v)
  <2>1. /\ Touches(u) /\ Mixed(wanted'[u], profile'[u], wanted[u], Fields)
        /\ profile'[u].state = "removed"
    BY <1>8, DeleteStep
  <2>2. LimitKept(u)
    BY <2>1 DEF Mixed, LimitKept, Fields
  <2> QED
    BY <2>1, <2>2, TouchedLimits
<1>9. PassTime \/ UNCHANGED profileVars => wanted' = wanted
  BY DEF PassTime, profileVars
<1> QED
  BY <1>1, <1>2, <1>3, <1>5, <1>6, <1>7, <1>8, <1>9, WriteLimits, ProfileSteps, Zenon

\* A request changes a nickname or a badge, or the time kept of it, only three days or an
\* hour after the time that was set last, unless it is a PATCH of the nickname, which
\* leaves the time alone, or the time it checked was stale: it checks the time it
\* loaded, and what it loaded stands until its save.
THEOREM LimitsKept == ProfileSpec => LimitsHold
<1>1. ProfileTyped /\ Standing /\ [ProfileNext]_profileVars =>
        [\A u \in UserIds :
           wanted[u].state = "stored" /\ wanted'[u].state = "stored" =>
             /\ \/ /\ wanted'[u].nickname = wanted[u].nickname
                   /\ wanted'[u].nicknameAt = wanted[u].nicknameAt
                \/ wanted'[u].nicknameAt - wanted[u].nicknameAt >= NicknameLimit
                \/ PatchesNickname(u)
                \/ "nicknameAt" \in stale[u]
             /\ \/ /\ wanted'[u].badge = wanted[u].badge
                   /\ wanted'[u].badgeAt = wanted[u].badgeAt
                \/ wanted'[u].badgeAt - wanted[u].badgeAt >= BadgeCooldown
                \/ "badgeAt" \in stale[u]]_profileVars
  BY LimitsStep DEF LimitKept
<1> QED
  BY <1>1, ProfileTypedAlways, StandingAlways, PTL DEF ProfileSpec, LimitsHold

-----------------------------------------------------------------------------
(* One account per person. *)

\* Two first logins that overlap are rivals; a first login that does not has found
\* nobody, and finds nobody still.
SignsUpAlone(c) ==
  Pc(c, "signup") =>
    \/ request[c].seen.oauth \in rivals
    \/ /\ \A u \in UserIds : Stored(u) => profile[u].oauth # request[c].seen.oauth
       /\ \A d \in Requests \ {c} : Pc(d, "signup") => request[d].seen.oauth # request[c].seen.oauth

Apart == OneAccountPerPerson /\ \A c \in Requests : SignsUpAlone(c)

\* The new row of u is no other's.
NoClash(u) ==
  profile'[u].state = "stored" =>
    \A v \in UserIds \ {u} : Stored(v) =>
      /\ profile'[u].email # profile[v].email /\ profile'[u].nickname # profile[v].nickname
      /\ profile'[u].oauth = profile[v].oauth => profile'[u].oauth \in rivals' \cup {NoPerson}

LEMMA AccountsApart ==
  ASSUME OneAccountPerPerson, NEW u \in UserIds, Touches(u), NoClash(u), rivals \subseteq rivals'
  PROVE  OneAccountPerPerson'
BY DEF OneAccountPerPerson, Touches, NoClash, Stored

\* A person gets an account by signing up only.
LEMMA SignUpsApart ==
  ASSUME Apart, rivals \subseteq rivals',
         \A d \in Requests : Pc(d, "signup")' => Pc(d, "signup") /\ request'[d] = request[d],
         \A d \in Requests, v \in UserIds :
           Pc(d, "signup")' /\ Stored(v)' /\ profile'[v].oauth = request[d].seen.oauth =>
             \/ Stored(v) /\ profile[v].oauth = profile'[v].oauth
             \/ request[d].seen.oauth \in rivals
  PROVE  \A c \in Requests : SignsUpAlone(c)'
<1> SUFFICES ASSUME NEW c \in Requests, Pc(c, "signup")', request'[c].seen.oauth \notin rivals'
             PROVE  /\ \A u \in UserIds : Stored(u)' => profile'[u].oauth # request'[c].seen.oauth
                    /\ \A d \in Requests \ {c} : Pc(d, "signup")' =>
                         request'[d].seen.oauth # request'[c].seen.oauth
  BY DEF SignsUpAlone
<1>1. Pc(c, "signup") /\ request'[c] = request[c]
  OBVIOUS
<1>2. request[c].seen.oauth \notin rivals
  BY <1>1
<1>3. /\ \A u \in UserIds : Stored(u) => profile[u].oauth # request[c].seen.oauth
      /\ \A d \in Requests \ {c} : Pc(d, "signup") => request[d].seen.oauth # request[c].seen.oauth
  BY <1>1, <1>2 DEF Apart, SignsUpAlone
<1>4. \A u \in UserIds : Stored(u)' => profile'[u].oauth # request'[c].seen.oauth
  BY <1>1, <1>2, <1>3
<1>5. \A d \in Requests \ {c} : Pc(d, "signup")' => request'[d].seen.oauth # request'[c].seen.oauth
  BY <1>1, <1>3
<1> QED
  BY <1>4, <1>5

LEMMA SignUpHolds ==
  ASSUME ProfileTyped, NEW c \in Requests, Pc(c, "signup")
  PROVE  request[c].seen.oauth \in Persons /\ request[c].seen.oauth # NoPerson
<1>1. PICK p \in Persons, n \in Nicknames : request[c].seen = NewUser(p, p, n)
  BY RequestHolds DEF Knows, Pc
<1> QED
  BY <1>1, NewRow, ProfileAssumption

\* No row changes, and a request that moves does not sign up.
LEMMA MovesApart ==
  ASSUME ProfileTyped, Apart, NEW c \in Requests, NEW r, Moves(c, r), r.pc # "signup", rivals' = rivals
  PROVE  Apart'
<1>1. /\ request'[c] = r /\ \A d \in Requests \ {c} : request'[d] = request[d]
      /\ UNCHANGED <<profile, rivals>>
  BY DEF Moves, ProfileTyped, RequestsTyped
<1>2. OneAccountPerPerson'
  BY <1>1 DEF Apart, OneAccountPerPerson, Stored
<1>3. \A d \in Requests : Pc(d, "signup")' => Pc(d, "signup") /\ request'[d] = request[d]
  BY <1>1 DEF Pc
<1>4. \A d \in Requests : SignsUpAlone(d)'
  BY <1>1, <1>3, SignUpsApart DEF Stored
<1> QED
  BY <1>2, <1>4 DEF Apart

\* A row changes, and keeps its person or has none; requests of C end.
LEMMA RowApart ==
  ASSUME ProfileTyped, Apart, NEW u \in UserIds, Touches(u), NoClash(u), rivals' = rivals,
         NEW C, \A d \in Requests \ C : request'[d] = request[d],
         \A d \in Requests \cap C : request'[d] = Waiting,
         profile'[u].state = "stored" =>
           \/ Stored(u) /\ profile'[u].oauth = profile[u].oauth
           \/ profile'[u].oauth = NoPerson
           \/ \E c \in Requests \cap C : Pc(c, "signup") /\ request[c].seen.oauth = profile'[u].oauth
  PROVE  Apart'
<1>1. OneAccountPerPerson'
  BY AccountsApart DEF Apart
<1>2. \A d \in Requests : Pc(d, "signup")' => d \notin C /\ Pc(d, "signup") /\ request'[d] = request[d]
  BY WaitingKnows DEF Pc
<1>3. ASSUME NEW d \in Requests, NEW v \in UserIds,
             Pc(d, "signup")', Stored(v)', profile'[v].oauth = request[d].seen.oauth
      PROVE  \/ Stored(v) /\ profile[v].oauth = profile'[v].oauth
             \/ request[d].seen.oauth \in rivals
  <2>1. CASE v # u
    BY <1>3, <2>1 DEF Touches, Stored
  <2>2. CASE v = u
    <3>1. d \notin C /\ Pc(d, "signup") /\ request[d].seen.oauth # NoPerson
      BY <1>2, <1>3, SignUpHolds
    <3>2. CASE \E c \in Requests \cap C : Pc(c, "signup") /\ request[c].seen.oauth = profile'[u].oauth
      <4>1. PICK c \in Requests \cap C : Pc(c, "signup") /\ request[c].seen.oauth = profile'[u].oauth
        BY <3>2
      <4>2. SignsUpAlone(d) /\ c # d
        BY <3>1, <4>1 DEF Apart
      <4> QED
        BY <1>3, <2>2, <3>1, <4>1, <4>2 DEF SignsUpAlone
    <3> QED
      BY <1>3, <2>2, <3>1, <3>2 DEF Stored
  <2> QED
    BY <2>1, <2>2
<1>4. \A d \in Requests : Pc(d, "signup")' => Pc(d, "signup") /\ request'[d] = request[d]
  BY <1>2
<1>5. \A d \in Requests, v \in UserIds :
        Pc(d, "signup")' /\ Stored(v)' /\ profile'[v].oauth = request[d].seen.oauth =>
          \/ Stored(v) /\ profile[v].oauth = profile'[v].oauth
          \/ request[d].seen.oauth \in rivals
  BY <1>3
<1>6. \A d \in Requests : SignsUpAlone(d)'
  BY <1>4, <1>5, SignUpsApart
<1> QED
  BY <1>1, <1>6 DEF Apart

\* A row keeps its address, its nickname and its person, or is nobody's.
LEMMA SameNoClash ==
  ASSUME Apart, NEW u \in UserIds, Stored(u), rivals' = rivals,
         profile'[u].email = profile[u].email, profile'[u].nickname = profile[u].nickname,
         profile'[u].oauth = profile[u].oauth
  PROVE  NoClash(u)
BY DEF Apart, OneAccountPerPerson, NoClash

LEMMA FreeNoClash ==
  ASSUME NEW u \in UserIds, ~ Taken(u, profile'[u].email, profile'[u].nickname),
         \A v \in UserIds \ {u} : Stored(v) /\ profile'[u].oauth = profile[v].oauth =>
           profile'[u].oauth \in rivals' \cup {NoPerson}
  PROVE  NoClash(u)
BY DEF NoClash, Taken

LEMMA FindApart ==
  ASSUME ProfileTyped, Apart, NEW c \in Requests, NEW p \in Persons, FindOauth(c, p)
  PROVE  Apart'
<1>1. CASE \E u \in UserIds :
             Moves(c, [Waiting EXCEPT !.pc = "sync", !.user = u]) /\ rivals' = rivals
  <2>1. PICK u \in UserIds :
          Moves(c, [Waiting EXCEPT !.pc = "sync", !.user = u]) /\ rivals' = rivals
    BY <1>1
  <2>2. PICK r : r = [Waiting EXCEPT !.pc = "sync", !.user = u]
    OBVIOUS
  <2>3. Moves(c, r) /\ r.pc # "signup"
    BY <2>1, <2>2 DEF Waiting
  <2> QED
    BY <2>1, <2>3, MovesApart
<1>2. CASE \E n \in Nicknames :
             /\ Moves(c, [Waiting EXCEPT !.pc = "signup", !.seen = NewUser(p, p, n)])
             /\ \A u \in UserIds : Stored(u) => profile[u].oauth # p
             /\ \A d \in Requests : Pc(d, "signup") /\ request[d].seen.oauth = p => p \in rivals'
  <2>1. PICK n \in Nicknames :
             /\ Moves(c, [Waiting EXCEPT !.pc = "signup", !.seen = NewUser(p, p, n)])
             /\ \A u \in UserIds : Stored(u) => profile[u].oauth # p
             /\ \A d \in Requests : Pc(d, "signup") /\ request[d].seen.oauth = p => p \in rivals'
    BY <1>2
  <2>2. PICK r : r = [Waiting EXCEPT !.pc = "signup", !.seen = NewUser(p, p, n)]
    OBVIOUS
  <2>3. r.pc = "signup" /\ r.seen.oauth = p
    BY <2>2 DEF Waiting, NewUser, Blank
  <2>4. /\ request'[c] = r /\ \A d \in Requests \ {c} : request'[d] = request[d]
        /\ profile' = profile /\ rivals \subseteq rivals'
    BY <2>1, <2>2, FindStep DEF Moves, ProfileTyped, RequestsTyped
  <2>5. OneAccountPerPerson'
    BY <2>4 DEF Apart, OneAccountPerPerson, Stored
  <2>6. SignsUpAlone(c)'
    BY <2>1, <2>3, <2>4 DEF SignsUpAlone, Pc, Stored
  <2>7. ASSUME NEW d \in Requests \ {c} PROVE SignsUpAlone(d)'
    BY <2>1, <2>3, <2>4 DEF Apart, SignsUpAlone, Pc, Stored
  <2> QED
    BY <2>5, <2>6, <2>7 DEF Apart
<1> QED
  BY <1>1, <1>2, FindStep

\* What a request that answers leaves of the others.
LEMMA AnswersHold ==
  ASSUME NEW c \in Requests, Answers(c)
  PROVE  /\ rivals' = rivals /\ \A d \in Requests \ {c} : request'[d] = request[d]
         /\ \A d \in Requests \cap {c} : request'[d] = Waiting
BY DEF Answers

LEMMA WriteApart ==
  ASSUME ProfileTyped, Apart, NEW c \in Requests, WriteUser(c), ~ Refuse(c)
  PROVE  Apart'
<1>1. PICK u \in UserIds :
        /\ Stored(u) /\ Answers(c) /\ Touches(u)
        /\ Mixed(profile'[u], request[c].seen, profile[u], request[c].dirty)
        /\ ~ Taken(u, profile'[u].email, profile'[u].nickname)
  BY WriteStep
<1>2. profile'[u].oauth = profile[u].oauth
  BY <1>1, RequestHolds DEF Mixed, Fields, Columns
<1>3. rivals' = rivals
  BY <1>1, AnswersHold
<1>4. NoClash(u)
  BY <1>1, <1>2, <1>3, FreeNoClash DEF Apart, OneAccountPerPerson
<1> QED
  BY <1>1, <1>2, <1>4, AnswersHold, RowApart

LEMMA ReinsertApart ==
  ASSUME ProfileTyped, Apart, NEW c \in Requests, ReinsertUser(c), ~ Refuse(c)
  PROVE  Apart'
<1>1. PICK u \in UserIds :
        /\ Answers(c) /\ Touches(u) /\ profile'[u].oauth = NoPerson
        /\ ~ Taken(u, profile'[u].email, profile'[u].nickname)
  BY ReinsertStep
<1>2. NoClash(u)
  BY <1>1, FreeNoClash
<1> QED
  BY <1>1, <1>2, AnswersHold, RowApart

LEMMA SyncApart ==
  ASSUME ProfileTyped, Apart, NEW c \in Requests, SyncImage(c), ~ Refuse(c)
  PROVE  Apart'
<1>1. PICK u \in UserIds :
        /\ Stored(u) /\ Answers(c) /\ Touches(u)
        /\ \A k \in Fields \ {"image"} : profile'[u][k] = profile[u][k]
  BY SyncStep
<1>2. /\ profile'[u].email = profile[u].email /\ profile'[u].nickname = profile[u].nickname
      /\ profile'[u].oauth = profile[u].oauth
  BY <1>1 DEF Fields, Columns
<1>3. NoClash(u)
  BY <1>1, <1>2, AnswersHold, SameNoClash
<1> QED
  BY <1>1, <1>2, <1>3, AnswersHold, RowApart

LEMMA SignUpApart ==
  ASSUME ProfileTyped, Apart, NEW c \in Requests, SignUpUser(c), ~ Refuse(c)
  PROVE  Apart'
<1> PICK e : e = request[c].seen
  OBVIOUS
<1>1. Pc(c, "signup") /\ Answers(c)
  BY SignUpStep DEF Pc
<1>2. PICK u \in UserIds : Touches(u) /\ Creates(u, e)
  BY SignUpStep
<1>3. profile'[u] = e /\ ~ Taken(u, e.email, e.nickname) /\ rivals' = rivals
  BY <1>1, <1>2, AnswersHold DEF Creates
<1>4. SignsUpAlone(c)
  BY DEF Apart
<1>5. e.oauth \in rivals \/ \A v \in UserIds : Stored(v) => profile[v].oauth # e.oauth
  BY <1>1, <1>4 DEF SignsUpAlone
<1>6. \A v \in UserIds \ {u} : Stored(v) /\ profile'[u].oauth = profile[v].oauth =>
        profile'[u].oauth \in rivals' \cup {NoPerson}
  BY <1>3, <1>5
<1>7. NoClash(u)
  BY <1>3, <1>6, FreeNoClash
<1>8. c \in Requests \cap {c} /\ request[c].seen.oauth = profile'[u].oauth
  BY <1>3
<1>9. /\ \A d \in Requests \ {c} : request'[d] = request[d]
      /\ \A d \in Requests \cap {c} : request'[d] = Waiting
      /\ \E d \in Requests \cap {c} : Pc(d, "signup") /\ request[d].seen.oauth = profile'[u].oauth
  BY <1>1, <1>8, AnswersHold
<1> QED
  BY <1>2, <1>3, <1>7, <1>9, RowApart

LEMMA AloneApart ==
  ASSUME ProfileTyped, Apart, NEW u \in UserIds,
         \/ UpdateSetting(u) \/ DeleteUser(u)
         \/ \E e \in Emails, n \in Nicknames : CreateUser(u, e, n)
  PROVE  Apart'
<1>1. ASSUME Alone
      PROVE  /\ \A d \in Requests \ {} : request'[d] = request[d]
             /\ \A d \in Requests \cap {} : request'[d] = Waiting
             /\ rivals' = rivals
  BY <1>1 DEF Alone
<1>2. CASE UpdateSetting(u)
  <2>1. /\ Alone /\ Touches(u) /\ Stored(u)
        /\ \A k \in Fields \ {"setting"} : profile'[u][k] = profile[u][k]
    BY <1>2, SettingStep
  <2>2. /\ profile'[u].email = profile[u].email /\ profile'[u].nickname = profile[u].nickname
        /\ profile'[u].oauth = profile[u].oauth
    BY <2>1 DEF Fields, Columns
  <2>3. NoClash(u)
    BY <1>1, <2>1, <2>2, SameNoClash
  <2> QED
    BY <1>1, <2>1, <2>2, <2>3, RowApart
<1>3. CASE DeleteUser(u)
  <2>1. Alone /\ Touches(u) /\ profile'[u].state # "stored"
    BY <1>3, DeleteStep
  <2>2. NoClash(u)
    BY <2>1 DEF NoClash
  <2> QED
    BY <1>1, <2>1, <2>2, RowApart
<1>4. CASE \E e \in Emails, n \in Nicknames : CreateUser(u, e, n)
  <2>1. PICK row : Alone /\ Touches(u) /\ row.oauth = NoPerson /\ Creates(u, row)
    BY <1>4, CreateUserStep
  <2>2. profile'[u] = row /\ ~ Taken(u, profile'[u].email, profile'[u].nickname)
        /\ profile'[u].oauth = NoPerson
    BY <2>1 DEF Creates
  <2>3. NoClash(u)
    BY <2>2, FreeNoClash
  <2> QED
    BY <1>1, <2>1, <2>2, <2>3, RowApart
<1> QED
  BY <1>2, <1>3, <1>4

LEMMA ApartStart == ProfileInit => Apart
<1> SUFFICES ASSUME ProfileInit PROVE Apart
  OBVIOUS
<1>1. PICK S \in {{}} \cup {{u} : u \in UserIds}, p \in Persons, n \in Nicknames :
        profile = [u \in UserIds |-> IF u \in S THEN NewUser(p, p, n) ELSE Blank("unused")]
  BY DEF ProfileInit
<1>2. request = [c \in Requests |-> Waiting]
  BY DEF ProfileInit
<1>3. \A u, v \in UserIds : Stored(u) /\ Stored(v) => u = v
  <2>1. \A u \in UserIds : Stored(u) => u \in S
    BY <1>1, BlankRow DEF Stored
  <2>2. \A u, v \in S : u = v
    BY <1>1
  <2> QED
    BY <2>1, <2>2
<1>4. OneAccountPerPerson
  BY <1>3 DEF OneAccountPerPerson
<1>5. \A c \in Requests : SignsUpAlone(c)
  BY <1>2, WaitingKnows DEF SignsUpAlone, Pc
<1> QED
  BY <1>4, <1>5 DEF Apart

LEMMA ApartStep == ProfileTyped /\ Apart /\ [ProfileNext]_profileVars => Apart'
<1> SUFFICES ASSUME ProfileTyped, Apart, [ProfileNext]_profileVars PROVE Apart'
  OBVIOUS
<1>1. ASSUME NEW c \in Requests, Refuse(c)
      PROVE  Apart'
  <2>1. Moves(c, Waiting) /\ rivals' = rivals /\ Waiting.pc # "signup"
    BY <1>1, RefuseStep, WaitingKnows
  <2> QED
    BY <2>1, MovesApart
<1>2. ASSUME NEW c \in Requests, NEW u \in UserIds, Loads(c, u)
      PROVE  Apart'
  <2>1. PICK r : Moves(c, r) /\ Loaded(r, u, profile[u]) /\ rivals' = rivals
    BY <1>2, LoadStep
  <2>2. r.pc # "signup"
    BY <2>1 DEF Loaded
  <2> QED
    BY <2>1, <2>2, MovesApart
<1>3. ASSUME NEW c \in Requests, CheckNickname(c) \/ EvaluateBadge(c), ~ Refuse(c)
      PROVE  Apart'
  <2>1. PICK r : r = [request[c] EXCEPT !.pc = "reload"]
    OBVIOUS
  <2>2. Moves(c, r) /\ rivals' = rivals
    BY <1>3, <2>1, CheckStep
  <2>3. r.pc # "signup"
    BY <2>1, RequestHolds DEF RequestRecord
  <2> QED
    BY <2>2, <2>3, MovesApart
<1>4. ASSUME NEW c \in Requests, ReloadUser(c)
      PROVE  Apart'
  <2>1. PICK r : Moves(c, r) /\ r.pc \in {"write", "reinsert"} /\ rivals' = rivals
    BY <1>4, ReloadStep
  <2> QED
    BY <2>1, MovesApart
<1>5. CASE UNCHANGED <<profile, request, rivals>>
  BY <1>5 DEF Apart, OneAccountPerPerson, SignsUpAlone, Pc, Stored
<1>6. PassTime \/ UNCHANGED profileVars => Apart'
  BY <1>5 DEF PassTime, profileVars
<1> QED
  BY <1>1, <1>2, <1>3, <1>4, <1>6, FindApart, WriteApart, ReinsertApart, SyncApart, SignUpApart,
     AloneApart, ProfileSteps, Zenon

\* No two users share an address or a nickname, and a person has one account unless two
\* first logins overlapped: the second of two that do not finds the account of the first.
THEOREM OneAccountEach == ProfileSpec => []OneAccountPerPerson
<1>1. ProfileSpec => []Apart
  BY ApartStart, ApartStep, ProfileTypedAlways, PTL DEF ProfileSpec
<1>2. Apart => OneAccountPerPerson
  BY DEF Apart
<1> QED
  BY <1>1, <1>2, PTL

-----------------------------------------------------------------------------
(* Scores. *)

LEMMA RoundedType ==
  ASSUME NEW n \in Int, NEW d \in Nat \ {0}
  PROVE  Rounded(n, d) \subseteq Int
BY DEF Rounded

LEMMA InBetween == \A k \in Int : k < 10001 /\ -1 < k => k \in ItemScores
BY SMTT(30) DEF ItemScores

\* A share of the whole is no less than nothing and no more than all of it.
LEMMA PriceScoresType ==
  ASSUME NEW n, NEW yes \in Nat, NEW total \in Nat \ {0}, yes <= total
  PROVE  PriceScores(n, yes, total) \subseteq ItemScores
<1> SUFFICES ASSUME NEW k \in Rounded(10000 * yes, total) PROVE k \in ItemScores
  BY DEF PriceScores
<1>1. /\ k \in Int
      /\ 2 * (k * total) - 20000 * yes <= total /\ 20000 * yes - 2 * (k * total) <= total
  BY RoundedType DEF Rounded
<1>2. ASSUME k >= 10001 PROVE FALSE
  <2>1. PICK x \in Nat : k = 10001 + x
    BY <1>1, <1>2
  <2>2. x * total \in Nat /\ k * total = 10001 * total + x * total
    BY <2>1
  <2> QED
    BY <1>1, <2>2
<1>3. ASSUME k <= -1 PROVE FALSE
  <2>1. PICK x \in Nat : k = -1 - x
    BY <1>1, <1>3
  <2>2. x * total \in Nat /\ k * total = 0 - total - x * total
    BY <2>1
  <2> QED
    BY <1>1, <2>2
<1>4. k \in Int /\ k < 10001 /\ -1 < k
  BY <1>1, <1>2, <1>3
<1> QED
  BY <1>4, InBetween

LEMMA CombinedType ==
  ASSUME NEW r \in Int, NEW v \in Int, NEW c \in Int
  PROVE  Combined(r, v, c) \subseteq Percent
BY RoundedType DEF Combined, Clamp, Percent

LEMMA UserScoresType ==
  ASSUME NEW a,
         a.scored \in Nat, a.scoreSum \in Nat, a.verifications \in Nat, a.aligned \in Nat,
         a.days \in Nat
  PROVE  UserScores(a) \subseteq Percent
<1>1. RegistrationScores(a.scoreSum, a.scored) \subseteq Int
  BY RoundedType DEF RegistrationScores
<1>2. VerificationScores(a.aligned, a.verifications) \subseteq Int
  BY RoundedType DEF VerificationScores
<1>3. Bonuses(a.days) \subseteq Int
  BY RoundedType, TrustAssumption DEF Bonuses
<1>4. \A r \in RegistrationScores(a.scoreSum, a.scored),
         v \in VerificationScores(a.aligned, a.verifications), c \in Bonuses(a.days) :
        Combined(r, v, c) \subseteq Percent
  BY <1>1, <1>2, <1>3, CombinedType
<1>5. 50 \in Percent
  BY DEF Percent
<1> QED
  BY <1>4, <1>5 DEF UserScores

-----------------------------------------------------------------------------
(* Types. *)

Snapshots == [Items -> [owner : Members \cup {NoMember}, score : ItemScores \cup {NoScore}]]

ItemWrites == [item : Items, value : ItemScores]

ScoreWrites == [table : {"detail", "user"}, user : Members, value : Percent]

Writers == {"insert", "update"}

BatchRecord ==
  [pc     : {"idle", "votes", "items", "users", "prices", "verifications", "scores", "insert",
             "update"},
   items  : SUBSET Items,
   users  : SUBSET Members,
   prices : Snapshots \cup {<<>>},
   plan   : (UNION {[S -> Percent] : S \in SUBSET Members}) \cup {<<>>},
   todo   : SUBSET (ItemWrites \cup ScoreWrites),
   sure   : SUBSET Members]

\* What a batch knows at the statement it has reached. What it writes to a user is
\* the score it planned for that user.
KnowsScores(r) ==
  /\ r.pc = "items" => r.todo \subseteq ItemWrites
  /\ r.pc = "verifications" => r.prices \in Snapshots
  /\ r.pc \in Writers \cup {"scores"} => r.plan \in [r.users -> Percent]
  /\ r.pc \in Writers => \A w \in r.todo :
       w \in ScoreWrites /\ w.user \in r.users /\ w.value = r.plan[w.user]
  /\ r.pc \notin Writers => r.sure = {}
  /\ r.sure \subseteq r.users

Scores ==
  /\ member \in [Members -> {"absent", "live", "gone"}]
  /\ score \in [Members -> Percent]
  /\ detail \in [Members -> Percent \cup {NoScore}]
  /\ \A m \in Members : detail[m] # NoScore => member[m] = "live"
  /\ held \in [Members -> Percent \cup {NoScore}]

Ballots ==
  /\ owner \in [Items -> Members \cup {NoMember}]
  /\ itemScore \in [Items -> ItemScores \cup {NoScore}]
  /\ vote \in [Items -> [Members -> Results \cup {"none"}]]
  /\ tally \in [Items -> [Results -> Nat]]

BatchesTyped ==
  /\ batch \in [Batches -> BatchRecord]
  /\ \A b \in Batches : KnowsScores(batch[b])

\* Whoever was read as a user was one, and so is who is settled.
Known ==
  /\ settled \subseteq Members
  /\ \A m \in settled : member[m] # "absent"
  /\ \A b \in Batches : \A m \in batch[b].users : member[m] # "absent"

TrustTyped ==
  /\ Scores /\ Ballots /\ BatchesTyped /\ Known
  /\ starts \in 0..MaxStarts /\ moves \in 0..MaxMoves

LEMMA TrustTypedMeans == TrustTyped => TrustTypeOK
<1> SUFFICES ASSUME TrustTyped PROVE TrustTypeOK
  OBVIOUS
<1>1. \A b \in Batches : batch[b] \in BatchRecord
  BY DEF TrustTyped, BatchesTyped
<1>2. \A b \in Batches : /\ batch[b].pc \in {"idle", "votes", "items", "users", "prices",
                                             "verifications", "scores", "insert", "update"}
                         /\ batch[b].items \subseteq Items
                         /\ batch[b].users \subseteq Members
  BY <1>1 DEF BatchRecord
<1>3. /\ Scores /\ Ballots /\ settled \subseteq Members
      /\ starts \in 0..MaxStarts /\ moves \in 0..MaxMoves
  BY DEF TrustTyped, Known
<1>4. /\ member \in [Members -> {"absent", "live", "gone"}]
      /\ score \in [Members -> Percent]
      /\ detail \in [Members -> Percent \cup {NoScore}]
      /\ \A m \in Members : detail[m] # NoScore => member[m] = "live"
      /\ held \in [Members -> Percent \cup {NoScore}]
  BY <1>3 DEF Scores
<1>5. /\ owner \in [Items -> Members \cup {NoMember}]
      /\ itemScore \in [Items -> ItemScores \cup {NoScore}]
      /\ vote \in [Items -> [Members -> Results \cup {"none"}]]
      /\ tally \in [Items -> [Results -> Nat]]
  BY <1>3, Zenon DEF Ballots
<1> QED
  BY <1>2, <1>3, <1>4, <1>5 DEF TrustTypeOK

LEMMA IdleTyped == Idle \in BatchRecord /\ KnowsScores(Idle)
<1>1. Idle \in BatchRecord
  <2>1. /\ {} \in SUBSET Items /\ {} \in SUBSET Members
        /\ {} \in SUBSET (ItemWrites \cup ScoreWrites)
    OBVIOUS
  <2>2. <<>> \in Snapshots \cup {<<>>}
    OBVIOUS
  <2>3. <<>> \in (UNION {[S -> Percent] : S \in SUBSET Members}) \cup {<<>>}
    OBVIOUS
  <2> QED
    BY <2>1, <2>2, <2>3, Zenon DEF Idle, BatchRecord
<1>2. Idle.pc = "idle" /\ Idle.sure = {}
  BY DEF Idle
<1> QED
  BY <1>1, <1>2 DEF KnowsScores, Writers

LEMMA TrustTypedStart == TrustInit => TrustTyped
<1> SUFFICES ASSUME TrustInit PROVE TrustTyped
  OBVIOUS
<1>1. 0 \in Percent
  BY DEF Percent
<1>2. Scores
  BY <1>1 DEF TrustInit, Scores
<1>3. Ballots
  <2>1. \A i \in Items, r \in Results : Cardinality({m \in Members : vote[i][m] = r}) \in Nat
    BY BatchAssumption, FS_Subset, FS_CardinalityType
  <2>2. tally \in [Items -> [Results -> Nat]]
    BY <2>1 DEF TrustInit
  <2>3. owner \in [Items -> Members \cup {NoMember}]
    BY DEF TrustInit
  <2>4. itemScore \in [Items -> ItemScores \cup {NoScore}] /\ vote \in [Items -> [Members -> Results \cup {"none"}]]
    BY DEF TrustInit
  <2> QED
    BY <2>2, <2>3, <2>4 DEF Ballots
<1>4. batch = [b \in Batches |-> Idle]
  BY DEF TrustInit
<1>5. BatchesTyped
  BY <1>4, IdleTyped DEF BatchesTyped
<1>6. Known
  BY <1>4 DEF TrustInit, Known, Idle
<1>7. starts \in 0..MaxStarts /\ moves \in 0..MaxMoves
  BY BatchAssumption DEF TrustInit
<1> QED
  BY <1>2, <1>3, <1>5, <1>6, <1>7 DEF TrustTyped

LEMMA BatchHolds ==
  ASSUME TrustTyped, NEW b \in Batches
  PROVE  /\ batch[b] \in BatchRecord /\ KnowsScores(batch[b])
         /\ batch[b].users \in SUBSET Members /\ \A m \in batch[b].users : member[m] # "absent"
BY DEF TrustTyped, BatchesTyped, Known, BatchRecord

\* The local variables after a step.
LEMMA LocalIs ==
  ASSUME NEW b \in Batches, batch[b] \in BatchRecord
  PROVE  /\ \A p : Local(b, [pc |-> p]) => Become(b, [batch[b] EXCEPT !.pc = p])
         /\ \A t : Local(b, [todo |-> t]) => Become(b, [batch[b] EXCEPT !.todo = t])
         /\ \A p, t : Local(b, [pc |-> p, todo |-> t]) =>
              Become(b, [batch[b] EXCEPT !.pc = p, !.todo = t])
         /\ \A p, s : Local(b, [pc |-> p, prices |-> s]) =>
              Become(b, [batch[b] EXCEPT !.pc = p, !.prices = s])
         /\ \A p, s, n : Local(b, [pc |-> p, prices |-> s, plan |-> n]) =>
              Become(b, [batch[b] EXCEPT !.pc = p, !.prices = s, !.plan = n])
<1>0. DOMAIN Idle = {"pc", "items", "users", "prices", "plan", "todo", "sure"}
  BY DEF Idle
<1>1. /\ DOMAIN batch[b] = DOMAIN Idle
      /\ batch[b] = [k \in DOMAIN Idle |-> batch[b][k]]
  BY <1>0 DEF BatchRecord
<1> DEFINE old == batch[b]
<1>2. ASSUME NEW p
      PROVE  [k \in DOMAIN Idle |-> IF k \in DOMAIN [pc |-> p] THEN [pc |-> p][k] ELSE old[k]]
               = [old EXCEPT !.pc = p]
  BY <1>0, <1>1
<1>3. ASSUME NEW t
      PROVE  [k \in DOMAIN Idle |-> IF k \in DOMAIN [todo |-> t] THEN [todo |-> t][k] ELSE old[k]]
               = [old EXCEPT !.todo = t]
  BY <1>0, <1>1
<1>4. ASSUME NEW p, NEW t
      PROVE  [k \in DOMAIN Idle |-> IF k \in DOMAIN [pc |-> p, todo |-> t]
                                    THEN [pc |-> p, todo |-> t][k] ELSE old[k]]
               = [old EXCEPT !.pc = p, !.todo = t]
  <2> PICK r : r = [pc |-> p, todo |-> t]
    OBVIOUS
  <2>1. DOMAIN r = {"pc", "todo"} /\ r.pc = p /\ r.todo = t
    OBVIOUS
  <2> PICK x : x = [old EXCEPT !.pc = p, !.todo = t]
    OBVIOUS
  <2>2. x = [k \in DOMAIN Idle |-> x[k]] /\ x.pc = p /\ x.todo = t
    BY <1>0, <1>1
  <2>3. \A k \in (DOMAIN Idle) \ {"pc", "todo"} : x[k] = old[k]
    BY <1>0, <1>1
  <2>4. x = [k \in DOMAIN Idle |-> IF k \in DOMAIN r THEN r[k] ELSE old[k]]
    BY <1>0, <2>1, <2>2, <2>3
  <2> QED
    BY <2>4
<1>5. ASSUME NEW p, NEW s
      PROVE  [k \in DOMAIN Idle |-> IF k \in DOMAIN [pc |-> p, prices |-> s]
                                    THEN [pc |-> p, prices |-> s][k] ELSE old[k]]
               = [old EXCEPT !.pc = p, !.prices = s]
  <2> PICK r : r = [pc |-> p, prices |-> s]
    OBVIOUS
  <2>1. DOMAIN r = {"pc", "prices"} /\ r.pc = p /\ r.prices = s
    OBVIOUS
  <2> PICK x : x = [old EXCEPT !.pc = p, !.prices = s]
    OBVIOUS
  <2>2. x = [k \in DOMAIN Idle |-> x[k]] /\ x.pc = p /\ x.prices = s
    BY <1>0, <1>1
  <2>3. \A k \in (DOMAIN Idle) \ {"pc", "prices"} : x[k] = old[k]
    BY <1>0, <1>1
  <2>4. x = [k \in DOMAIN Idle |-> IF k \in DOMAIN r THEN r[k] ELSE old[k]]
    BY <1>0, <2>1, <2>2, <2>3
  <2> QED
    BY <2>4
<1>a. \A p : Local(b, [pc |-> p]) => Become(b, [batch[b] EXCEPT !.pc = p])
  BY <1>2 DEF Local
<1>b. \A t : Local(b, [todo |-> t]) => Become(b, [batch[b] EXCEPT !.todo = t])
  BY <1>3 DEF Local
<1>c. \A p, t : Local(b, [pc |-> p, todo |-> t]) =>
               Become(b, [batch[b] EXCEPT !.pc = p, !.todo = t])
  BY <1>4 DEF Local
<1>d. \A p, s : Local(b, [pc |-> p, prices |-> s]) =>
               Become(b, [batch[b] EXCEPT !.pc = p, !.prices = s])
  BY <1>5 DEF Local
<1>e. \A p, s, n : Local(b, [pc |-> p, prices |-> s, plan |-> n]) =>
                  Become(b, [batch[b] EXCEPT !.pc = p, !.prices = s, !.plan = n])
  <2> TAKE p, s, n
  <2>1. [k \in DOMAIN Idle |-> IF k \in DOMAIN [pc |-> p, prices |-> s, plan |-> n]
                               THEN [pc |-> p, prices |-> s, plan |-> n][k] ELSE batch[b][k]]
          = [batch[b] EXCEPT !.pc = p, !.prices = s, !.plan = n]
    <3> PICK r : r = [pc |-> p, prices |-> s, plan |-> n]
      OBVIOUS
    <3>1. DOMAIN r = {"pc", "prices", "plan"} /\ r.pc = p /\ r.prices = s /\ r.plan = n
      OBVIOUS
    <3> PICK x : x = [batch[b] EXCEPT !.pc = p, !.prices = s, !.plan = n]
      OBVIOUS
    <3>2. x = [k \in DOMAIN Idle |-> x[k]] /\ x.pc = p /\ x.prices = s /\ x.plan = n
      BY <1>0, <1>1
    <3>3. \A k \in (DOMAIN Idle) \ {"pc", "prices", "plan"} : x[k] = batch[b][k]
      BY <1>0, <1>1
    <3>4. x = [k \in DOMAIN Idle |-> IF k \in DOMAIN r THEN r[k] ELSE batch[b][k]]
      BY <1>0, <3>1, <3>2, <3>3
    <3> QED
      BY <3>4
  <2> QED
    BY <2>1, Zenon DEF Local
<1> QED
  BY <1>a, <1>b, <1>c, <1>d, <1>e

\* A batch goes on, the tables keep their types.
LEMMA GoesOnTyped ==
  ASSUME TrustTyped, NEW b \in Batches, NEW r \in BatchRecord, KnowsScores(r), Become(b, r),
         Scores', Ballots', member' = member,
         \A m \in r.users : member[m] # "absent",
         settled' \subseteq settled \cup r.users \cup batch[b].users,
         starts' \in 0..MaxStarts, moves' \in 0..MaxMoves
  PROVE  TrustTyped'
<1>1. \A c \in Batches : batch'[c] = IF c = b THEN r ELSE batch[c]
  BY DEF Become, TrustTyped, BatchesTyped
<1>2. BatchesTyped'
  BY <1>1 DEF Become, TrustTyped, BatchesTyped
<1>3. Known'
  BY <1>1, BatchHolds DEF TrustTyped, Known, BatchRecord
<1> QED
  BY <1>2, <1>3 DEF TrustTyped

LEMMA UnwrittenTables == TrustTyped /\ Unwritten => Scores' /\ Ballots' /\ member' = member
BY DEF TrustTyped, Unwritten, votes, Scores, Ballots

\* A batch that starts over.
Over(p, S, U) == [Idle EXCEPT !.pc = p, !.items = S, !.users = U]

LEMMA StartsOver ==
  ASSUME NEW p \in {"users", "votes", "prices"}, NEW S \in SUBSET Items, NEW U \in SUBSET Members
  PROVE  Over(p, S, U) \in BatchRecord /\ KnowsScores(Over(p, S, U)) /\ Over(p, S, U).users = U
<1> PICK i \in BatchRecord : i = Idle /\ i.sure = {}
  BY IdleTyped DEF Idle
<1> PICK r : r = [i EXCEPT !.pc = p, !.items = S, !.users = U]
  OBVIOUS
<1>0. r = Over(p, S, U)
  BY DEF Over
<1>1. r \in BatchRecord
  BY DEF BatchRecord
<1>2. r.pc = p /\ r.sure = {} /\ r.users = U
  BY DEF BatchRecord
<1>3. KnowsScores(r)
  BY <1>2 DEF KnowsScores, Writers
<1> QED
  BY <1>0, <1>1, <1>2, <1>3

LEMMA ReadItemsTyped ==
  ASSUME TrustTyped, NEW b \in Batches, ReadItems(b)
  PROVE  TrustTyped'
<1>1. PICK S \in SUBSET Items, p \in {"users", "votes"} : Become(b, Over(p, S, {}))
  <2>1. PICK S \in SUBSET Items :
          Become(b, IF S = {} THEN [Idle EXCEPT !.pc = "users"]
                              ELSE [Idle EXCEPT !.pc = "votes", !.items = S])
    BY DEF ReadItems
  <2> PICK i \in BatchRecord : i = Idle /\ i.users = {} /\ i.items = {}
    BY IdleTyped DEF Idle
  <2>2. [i EXCEPT !.pc = "users"] = [i EXCEPT !.pc = "users", !.items = {}, !.users = {}]
    BY DEF BatchRecord
  <2>3. [i EXCEPT !.pc = "votes", !.items = S] = [i EXCEPT !.pc = "votes", !.items = S, !.users = {}]
    BY DEF BatchRecord
  <2> QED
    BY <2>1, <2>2, <2>3 DEF Over
<1>2. PICK r : r = Over(p, S, {})
  OBVIOUS
<1>3. r \in BatchRecord /\ KnowsScores(r) /\ r.users = {}
  BY <1>2, StartsOver
<1>4. /\ Scores' /\ Ballots' /\ member' = member /\ settled' = settled
      /\ starts' \in 0..MaxStarts /\ moves' \in 0..MaxMoves
  BY UnwrittenTables, BatchAssumption DEF ReadItems, TrustTyped
<1> QED
  BY <1>1, <1>2, <1>3, <1>4, GoesOnTyped

\* The scores of the calculator are scores, although verifiers may have left since
\* the counters were read.
LEMMA NewItemScoresType ==
  ASSUME TrustTyped, NEW i \in Items
  PROVE  NewItemScores(i) \subseteq ItemScores
<1> DEFINE n == Cardinality(Voters(i))
           w == [m \in Members |-> Weight(score[m])]
           yes == {m \in Voters(i) : vote[i][m] = "confirmed"}
<1>1. Voters(i) \in SUBSET Members /\ IsFiniteSet(Voters(i)) /\ yes \in SUBSET Voters(i)
  BY FS_Subset, BatchAssumption DEF Voters
<1>2. \A m \in Members : w[m] \in Nat /\ w[m] > 0
  BY DEF Weight, TrustTyped, Scores, Percent
<1>3. IsFiniteSet(yes) /\ n \in Nat
  BY <1>1, FS_Subset, FS_CardinalityType
<1> HIDE DEF w, yes
<1>4. Weights(yes) \in Nat /\ Weights(Voters(i)) \in Nat
  BY <1>1, <1>2, <1>3, SumType DEF Weights, w
<1>5. Weights(yes) <= Weights(Voters(i))
  BY <1>1, <1>2, SumOfPart DEF Weights, w
<1>6. CASE n < MinVotes
  BY <1>6 DEF NewItemScores, PriceScores
<1>7. CASE ~ (n < MinVotes)
  <2>1. Voters(i) # {}
    BY <1>7, FS_EmptySet, TrustAssumption
  <2>2. PICK m \in Voters(i) : TRUE
    BY <2>1
  <2>3. SumFunctionOnSet(w, Voters(i)) = w[m] + SumFunctionOnSet(w, Voters(i) \ {m})
    BY <1>1, <1>2, SumOfAny
  <2>4. SumFunctionOnSet(w, Voters(i) \ {m}) \in Nat
    BY <1>1, <1>2, SumType, FS_Subset
  <2>5. Weights(Voters(i)) > 0
    BY <1>1, <1>2, <2>2, <2>3, <2>4 DEF Weights, w
  <2> QED
    BY <1>4, <1>5, <2>5, PriceScoresType DEF NewItemScores, yes
<1> QED
  BY <1>6, <1>7

LEMMA ReadVotesTyped ==
  ASSUME TrustTyped, NEW b \in Batches, ReadVotes(b), UNCHANGED <<starts, moves>>
  PROVE  TrustTyped'
<1> PICK scored : scored = {i \in batch[b].items : NewItemScores(i) # {}}
  OBVIOUS
<1>1. scored \subseteq Items
  BY BatchHolds DEF BatchRecord
<1>2. PICK s \in [scored -> UNION {NewItemScores(i) : i \in scored}], p \in {"users", "items"} :
        /\ \A i \in scored : s[i] \in NewItemScores(i)
        /\ Local(b, [pc |-> p, todo |-> {[item |-> i, value |-> s[i]] : i \in scored}])
  BY DEF ReadVotes
<1> PICK t : t = {[item |-> i, value |-> s[i]] : i \in scored}
  OBVIOUS
<1>3. t \subseteq ItemWrites
  BY <1>1, <1>2, NewItemScoresType DEF ItemWrites
<1>4. PICK r : r = [batch[b] EXCEPT !.pc = p, !.todo = t] /\ Become(b, r)
  BY <1>2, LocalIs, BatchHolds
<1>a. batch[b].sure = {}
  BY BatchHolds DEF ReadVotes, On, KnowsScores, Writers
<1>5. r \in BatchRecord /\ r.pc = p /\ r.todo = t /\ r.users = batch[b].users /\ r.sure = {}
  BY <1>3, <1>4, <1>a, BatchHolds DEF BatchRecord
<1>6. KnowsScores(r)
  BY <1>3, <1>5 DEF KnowsScores, Writers
<1>7. /\ Scores' /\ Ballots' /\ member' = member /\ settled' = settled
      /\ starts' \in 0..MaxStarts /\ moves' \in 0..MaxMoves
  BY UnwrittenTables DEF ReadVotes, TrustTyped
<1> QED
  BY <1>4, <1>5, <1>6, <1>7, BatchHolds, GoesOnTyped

LEMMA UpdateItemTyped ==
  ASSUME TrustTyped, NEW b \in Batches, UpdateItem(b), UNCHANGED <<starts, moves>>
  PROVE  TrustTyped'
<1>1. PICK w \in batch[b].todo, p \in {"users", "items"} :
        /\ itemScore' = [itemScore EXCEPT ![w.item] = w.value]
        /\ Local(b, [pc |-> p, todo |-> batch[b].todo \ {w}])
  BY DEF UpdateItem
<1> PICK t : t = batch[b].todo \ {w}
  OBVIOUS
<1>2. batch[b].todo \subseteq ItemWrites /\ batch[b].sure = {}
  BY BatchHolds DEF UpdateItem, On, KnowsScores, Writers
<1>3. t \subseteq ItemWrites /\ w.item \in Items /\ w.value \in ItemScores
  BY <1>2 DEF ItemWrites
<1>4. PICK r : r = [batch[b] EXCEPT !.pc = p, !.todo = t] /\ Become(b, r)
  BY <1>1, LocalIs, BatchHolds
<1>5. /\ r \in BatchRecord /\ r.pc = p /\ r.todo = t /\ r.users = batch[b].users
      /\ r.sure = {}
  BY <1>2, <1>3, <1>4, BatchHolds DEF BatchRecord
<1>6. KnowsScores(r)
  BY <1>3, <1>5 DEF KnowsScores, Writers
<1>7. /\ Scores' /\ Ballots' /\ member' = member /\ settled' = settled
      /\ starts' \in 0..MaxStarts /\ moves' \in 0..MaxMoves
  BY <1>1, <1>3 DEF UpdateItem, TrustTyped, Scores, Ballots
<1> QED
  BY <1>4, <1>5, <1>6, <1>7, BatchHolds, GoesOnTyped

LEMMA ReadUsersTyped ==
  ASSUME TrustTyped, NEW b \in Batches, ReadUsers(b), UNCHANGED <<starts, moves>>
  PROVE  TrustTyped'
<1> PICK live : live = {m \in Members : member[m] = "live"}
  OBVIOUS
<1>1. Become(b, IF live = {} THEN Idle ELSE [Idle EXCEPT !.pc = "prices", !.users = live])
  BY DEF ReadUsers
<1>2. /\ Scores' /\ Ballots' /\ member' = member /\ settled' = settled
      /\ starts' \in 0..MaxStarts /\ moves' \in 0..MaxMoves
  BY UnwrittenTables DEF ReadUsers, TrustTyped
<1>3. CASE live = {}
  <2>1. Idle.users = {}
    BY DEF Idle
  <2> QED
    BY <1>1, <1>2, <1>3, <2>1, IdleTyped, GoesOnTyped
<1>4. CASE live # {}
  <2> PICK i \in BatchRecord : i = Idle /\ i.items = {}
    BY IdleTyped DEF Idle
  <2>1. [i EXCEPT !.pc = "prices", !.users = live]
          = [i EXCEPT !.pc = "prices", !.items = {}, !.users = live]
    BY DEF BatchRecord
  <2>2. Become(b, Over("prices", {}, live))
    BY <1>1, <1>4, <2>1 DEF Over
  <2>3. PICK r : r = Over("prices", {}, live)
    OBVIOUS
  <2>4. r \in BatchRecord /\ KnowsScores(r) /\ r.users = live
    BY <2>3, StartsOver
  <2> QED
    BY <1>2, <2>2, <2>3, <2>4, GoesOnTyped
<1> QED
  BY <1>3, <1>4

LEMMA ReadPricesTyped ==
  ASSUME TrustTyped, NEW b \in Batches, ReadPrices(b), UNCHANGED <<starts, moves>>
  PROVE  TrustTyped'
<1> PICK s : s = [i \in Items |-> [owner |-> owner[i], score |-> itemScore[i]]]
  OBVIOUS
<1>1. s \in Snapshots
  BY DEF Snapshots, TrustTyped, Ballots
<1>2. PICK r : r = [batch[b] EXCEPT !.pc = "verifications", !.prices = s] /\ Become(b, r)
  BY LocalIs, BatchHolds DEF ReadPrices
<1>a. batch[b].sure = {}
  BY BatchHolds DEF ReadPrices, On, KnowsScores, Writers
<1>3. /\ r \in BatchRecord /\ r.pc = "verifications" /\ r.prices = s
      /\ r.users = batch[b].users /\ r.sure = {}
  BY <1>1, <1>2, <1>a, BatchHolds DEF BatchRecord
<1>4. KnowsScores(r)
  BY <1>1, <1>3 DEF KnowsScores, Writers
<1>5. /\ Scores' /\ Ballots' /\ member' = member /\ settled' = settled
      /\ starts' \in 0..MaxStarts /\ moves' \in 0..MaxMoves
  BY UnwrittenTables DEF ReadPrices, TrustTyped
<1> QED
  BY <1>2, <1>3, <1>4, <1>5, BatchHolds, GoesOnTyped

\* What the calculator makes of a member's activity is a score.
LEMMA ActivityScores ==
  ASSUME NEW s \in Snapshots, NEW m \in Members, NEW d \in DayCounts
  PROVE  UserScores(Activity(s, m, d)) \subseteq Percent
<1> DEFINE mine == {i \in Items : s[i].owner = m}
           scored == {i \in mine : s[i].score # NoScore}
           voted == {i \in Items : vote[i][m] # "none"}
           agreed == {i \in voted : Aligned(i, m)}
<1> PICK w : w = [i \in Items |-> s[i].score]
  OBVIOUS
<1>1. IsFiniteSet(mine) /\ IsFiniteSet(scored) /\ IsFiniteSet(voted) /\ IsFiniteSet(agreed)
  BY FS_Subset, BatchAssumption
<1>2. /\ Cardinality(scored) \in Nat /\ Cardinality(voted) \in Nat
      /\ Cardinality(agreed) \in Nat
  BY <1>1, FS_CardinalityType
<1>3. \A i \in scored : w[i] \in Nat
  <2>1. \A i \in Items : s[i].score \in ItemScores \cup {NoScore}
    BY DEF Snapshots
  <2>2. \A i \in scored : w[i] \in ItemScores
    BY <2>1
  <2>3. \A x \in ItemScores : x \in Nat
    BY DEF ItemScores
  <2> QED
    BY <2>2, <2>3, Zenon
<1>4. SumFunctionOnSet(w, scored) \in Nat
  <2> HIDE DEF scored
  <2> QED
    BY <1>1, <1>3, SumType
<1>5. ScoreSum(s, scored) \in Nat
  BY <1>4 DEF ScoreSum
<1> PICK a : a = Activity(s, m, d)
  OBVIOUS
<1>6. /\ a.scored = Cardinality(scored) /\ a.scoreSum = ScoreSum(s, scored)
      /\ a.verifications = Cardinality(voted) /\ a.aligned = Cardinality(agreed) /\ a.days = d
  BY DEF Activity
<1>7. d \in Nat
  BY BatchAssumption
<1> HIDE DEF mine, scored, voted, agreed
<1> QED
  BY <1>2, <1>5, <1>6, <1>7, UserScoresType

LEMMA ReadVerificationsTyped ==
  ASSUME TrustTyped, NEW b \in Batches, ReadVerifications(b), UNCHANGED <<starts, moves>>
  PROVE  TrustTyped'
<1> PICK U : U = batch[b].users
  OBVIOUS
<1>1. U \in SUBSET Members /\ batch[b].prices \in Snapshots /\ batch[b].sure = {}
  BY BatchHolds DEF ReadVerifications, On, KnowsScores, Writers
<1>2. PICK d \in DayCounts :
        \E plan \in [U -> UNION {UserScores(Activity(batch[b].prices, m, d)) : m \in U}] :
          /\ \A m \in U : plan[m] \in UserScores(Activity(batch[b].prices, m, d))
          /\ Local(b, [pc |-> "scores", prices |-> <<>>, plan |-> plan])
  BY DEF ReadVerifications
<1>3. \A m \in U : UserScores(Activity(batch[b].prices, m, d)) \subseteq Percent
  BY <1>1, ActivityScores
<1>4. PICK plan \in [U -> Percent] : Local(b, [pc |-> "scores", prices |-> <<>>, plan |-> plan])
  BY <1>2, <1>3
<1>5. PICK r : /\ r = [batch[b] EXCEPT !.pc = "scores", !.prices = <<>>, !.plan = plan]
               /\ Become(b, r)
  BY <1>4, LocalIs, BatchHolds
<1>6. /\ plan \in UNION {[S -> Percent] : S \in SUBSET Members}
      /\ <<>> \in Snapshots \cup {<<>>}
  BY <1>1
<1>7. /\ r \in BatchRecord /\ r.pc = "scores" /\ r.plan = plan /\ r.users = U /\ r.sure = {}
  BY <1>1, <1>5, <1>6, BatchHolds DEF BatchRecord
<1>8. KnowsScores(r)
  BY <1>7 DEF KnowsScores, Writers
<1>9. /\ Scores' /\ Ballots' /\ member' = member /\ settled' = settled
      /\ starts' \in 0..MaxStarts /\ moves' \in 0..MaxMoves
  BY UnwrittenTables DEF ReadVerifications, TrustTyped
<1> QED
  BY <1>5, <1>7, <1>8, <1>9, BatchHolds, GoesOnTyped

-----------------------------------------------------------------------------
(* Writes. *)

\* Batches change what they are sure of, and one its place.
LEMMA ReadScoresTyped ==
  ASSUME TrustTyped, NEW b \in Batches, ReadScores(b), UNCHANGED <<starts, moves>>
  PROVE  /\ TrustTyped'
         /\ batch'[b].pc \in Writers /\ batch'[b].users = batch[b].users
         /\ batch'[b].plan = batch[b].plan /\ batch[b].plan \in [batch[b].users -> Percent]
         /\ \A m \in batch[b].users : [table |-> "user", user |-> m, value |-> batch[b].plan[m]]
                                        \in batch'[b].todo
         /\ batch'[b].pc = "update" => \A m \in batch[b].users :
              [table |-> "detail", user |-> m, value |-> batch[b].plan[m]] \in batch'[b].todo
         /\ batch'[b].sure = IF Writing = {} THEN batch[b].users ELSE {}
         /\ \A c \in Batches \ {b} : /\ batch'[c].sure = {} /\ batch'[c].pc = batch[c].pc
                                     /\ batch'[c].users = batch[c].users
<1> PICK U : U = batch[b].users
  OBVIOUS
<1> PICK plan : plan = batch[b].plan
  OBVIOUS
<1>1. U \in SUBSET Members /\ plan \in [U -> Percent] /\ batch[b].pc = "scores"
  BY BatchHolds DEF ReadScores, On, KnowsScores
<1> PICK old : old = {m \in U : detail[m] # NoScore}
  OBVIOUS
<1> PICK todo : todo = AllUpdates(b, old)
  OBVIOUS
<1>2. todo = {[table |-> "detail", user |-> m, value |-> plan[m]] : m \in old}
               \cup {[table |-> "user", user |-> m, value |-> plan[m]] : m \in U}
  BY DEF AllUpdates, Writes
<1>3. \A w \in todo : w \in ScoreWrites /\ w.user \in U /\ w.value = plan[w.user]
  BY <1>1, <1>2 DEF ScoreWrites
<1> PICK sure : sure = IF Writing = {} THEN U ELSE {}
  OBVIOUS
<1> PICK p \in Writers : p = IF old = U THEN "update" ELSE "insert"
  BY DEF Writers
<1> PICK r : r = [batch[b] EXCEPT !.pc = p, !.todo = todo, !.sure = sure]
  OBVIOUS
<1>4. batch' = [c \in Batches |-> IF c = b THEN r ELSE [batch[c] EXCEPT !.sure = {}]]
  BY DEF ReadScores
<1>a. /\ batch[b] \in BatchRecord /\ todo \in SUBSET (ItemWrites \cup ScoreWrites)
      /\ sure \in SUBSET Members
      /\ p \in {"idle", "votes", "items", "users", "prices", "verifications", "scores", "insert",
                "update"}
  BY <1>1, <1>3, BatchHolds DEF Writers
<1>b. /\ r.pc = p /\ r.todo = todo /\ r.sure = sure /\ r.users = U /\ r.plan = plan
      /\ r = [pc |-> p, items |-> batch[b].items, users |-> U, prices |-> batch[b].prices,
              plan |-> plan, todo |-> todo, sure |-> sure]
  BY <1>a DEF BatchRecord
<1>c. /\ U \in SUBSET Members /\ batch[b].items \in SUBSET Items
      /\ batch[b].prices \in Snapshots \cup {<<>>}
      /\ plan \in (UNION {[S -> Percent] : S \in SUBSET Members}) \cup {<<>>}
  BY <1>1, <1>a DEF BatchRecord
<1>d. r \in BatchRecord
  BY <1>a, <1>b, <1>c, Zenon DEF BatchRecord
<1>5. /\ r \in BatchRecord /\ r.pc = p /\ r.todo = todo /\ r.sure = sure /\ r.users = U
      /\ r.plan = plan
  BY <1>b, <1>d
<1>6. KnowsScores(r)
  BY <1>1, <1>3, <1>5 DEF KnowsScores, Writers
<1>7. ASSUME NEW c \in Batches \ {b}
      PROVE  /\ batch'[c] \in BatchRecord /\ KnowsScores(batch'[c]) /\ batch'[c].sure = {}
             /\ batch'[c].pc = batch[c].pc /\ batch'[c].users = batch[c].users
  <2> PICK x : x = [batch[c] EXCEPT !.sure = {}]
    OBVIOUS
  <2>1. /\ x \in BatchRecord /\ x.sure = {} /\ x.pc = batch[c].pc /\ x.users = batch[c].users
        /\ x.todo = batch[c].todo /\ x.prices = batch[c].prices /\ x.plan = batch[c].plan
    BY BatchHolds DEF BatchRecord
  <2>2. KnowsScores(x)
    BY <2>1, BatchHolds DEF KnowsScores, Writers
  <2> QED
    BY <1>4, <2>1, <2>2
<1>8. batch'[b] = r
  BY <1>4
<1>9. BatchesTyped'
  BY <1>4, <1>5, <1>6, <1>7, <1>8 DEF BatchesTyped
<1>10. Scores' /\ Ballots' /\ member' = member /\ settled' \subseteq settled
  BY UnwrittenTables DEF ReadScores
<1>11. Known'
  <2>1. \A c \in Batches : batch'[c].users = batch[c].users
    BY <1>5, <1>7, <1>8
  <2>2. \A c \in Batches : \A m \in batch'[c].users : member'[m] # "absent"
    BY <1>10, <2>1, BatchHolds
  <2>3. settled' \subseteq Members /\ \A m \in settled' : member'[m] # "absent"
    BY <1>10 DEF Known, TrustTyped
  <2> QED
    BY <2>2, <2>3 DEF Known
<1>12. TrustTyped'
  BY <1>9, <1>10, <1>11 DEF TrustTyped
<1>13. p = "update" => \A m \in U : [table |-> "detail", user |-> m, value |-> plan[m]] \in todo
  BY <1>2
<1> QED
  BY <1>1, <1>2, <1>5, <1>7, <1>8, <1>12, <1>13

LEMMA AbortTyped ==
  ASSUME TrustTyped, NEW b \in Batches, Abort(b), UNCHANGED <<starts, moves>>
  PROVE  TrustTyped'
<1>1. Idle.users = {}
  BY DEF Idle
<1>2. /\ Scores' /\ Ballots' /\ member' = member /\ settled' \subseteq settled
      /\ starts' \in 0..MaxStarts /\ moves' \in 0..MaxMoves
  BY UnwrittenTables DEF Abort, TrustTyped
<1> QED
  BY <1>1, <1>2, IdleTyped, GoesOnTyped DEF Abort

\* The insert that is not refused.
Inserted(b) ==
  /\ On(b, "insert")
  /\ \A m \in Inserts(b) : member[m] = "live" /\ detail[m] = NoScore
  /\ detail' = [m \in Members |-> IF m \in Inserts(b) THEN batch[b].plan[m] ELSE detail[m]]
  /\ Local(b, [pc |-> "update"])
  /\ UNCHANGED <<member, score, held, votes, settled>>

LEMMA InsertOrAbort ==
  ASSUME NEW b \in Batches, InsertScores(b)
  PROVE  (On(b, "insert") /\ Abort(b)) \/ Inserted(b)
BY DEF InsertScores, Inserted

LEMMA InsertedTyped ==
  ASSUME TrustTyped, NEW b \in Batches, Inserted(b), UNCHANGED <<starts, moves>>
  PROVE  /\ TrustTyped' /\ Become(b, [batch[b] EXCEPT !.pc = "update"])
         /\ batch[b].users \in SUBSET Members /\ batch[b].plan \in [batch[b].users -> Percent]
<1> PICK r : r = [batch[b] EXCEPT !.pc = "update"]
  OBVIOUS
<1>1. Become(b, r)
  BY LocalIs, BatchHolds DEF Inserted
<1>2. /\ batch[b].pc = "insert" /\ batch[b].users \in SUBSET Members
      /\ batch[b].plan \in [batch[b].users -> Percent]
  BY BatchHolds DEF Inserted, On, KnowsScores, Writers
<1>3. /\ r \in BatchRecord /\ r.pc = "update" /\ r.todo = batch[b].todo /\ r.users = batch[b].users
      /\ r.plan = batch[b].plan /\ r.sure = batch[b].sure
  BY BatchHolds DEF BatchRecord
<1>4. KnowsScores(r)
  BY <1>2, <1>3, BatchHolds DEF KnowsScores, Writers
<1>5. Inserts(b) \subseteq batch[b].users
  BY DEF Inserts
<1>6. \A m \in Inserts(b) : batch[b].plan[m] \in Percent
  BY <1>2, <1>5
<1>7. Scores'
  BY <1>6 DEF Inserted, TrustTyped, Scores
<1>8. Ballots' /\ settled' = settled /\ member' = member
  BY DEF Inserted, votes, TrustTyped, Ballots
<1>9. TrustTyped'
  BY <1>1, <1>3, <1>4, <1>7, <1>8, BatchHolds, GoesOnTyped DEF TrustTyped
<1> QED
  BY <1>1, <1>2, <1>9

\* One write of a batch: the score planned for its member.
LEMMA UpdateScoreTyped ==
  ASSUME TrustTyped, NEW b \in Batches, UpdateScore(b), UNCHANGED <<starts, moves>>
  PROVE  /\ TrustTyped' /\ batch[b].pc = "update" /\ member' = member
         /\ batch[b].plan \in [batch[b].users -> Percent]
         /\ \A c \in Batches \ {b} : batch'[c] = batch[c]
         /\ \E w \in batch[b].todo :
              /\ w \in ScoreWrites /\ w.user \in batch[b].users /\ w.value = batch[b].plan[w.user]
              /\ \A m \in Members :
                   /\ detail'[m] = IF w.table = "detail" /\ m = w.user /\ member[m] = "live"
                                   THEN w.value ELSE detail[m]
                   /\ score'[m] = IF w.table = "user" /\ m = w.user /\ member[m] = "live"
                                  THEN w.value ELSE score[m]
              /\ \/ /\ batch[b].todo = {w} /\ batch'[b].pc = "idle" /\ batch'[b].sure = {}
                    /\ settled' = (settled \ batch[b].users) \cup batch[b].sure
                 \/ /\ batch'[b].pc = "update" /\ batch'[b].todo = batch[b].todo \ {w}
                    /\ batch'[b].users = batch[b].users /\ batch'[b].plan = batch[b].plan
                    /\ batch'[b].sure = batch[b].sure /\ settled' = settled
<1>1. PICK w \in batch[b].todo :
        /\ detail' = IF w.table = "detail" /\ member[w.user] = "live"
                     THEN [detail EXCEPT ![w.user] = w.value] ELSE detail
        /\ score' = IF w.table = "user" /\ member[w.user] = "live"
                    THEN [score EXCEPT ![w.user] = w.value] ELSE score
        /\ IF batch[b].todo = {w} THEN Become(b, Idle) ELSE Local(b, [todo |-> batch[b].todo \ {w}])
        /\ settled' = IF batch[b].todo = {w}
                      THEN (settled \ batch[b].users) \cup batch[b].sure ELSE settled
  BY DEF UpdateScore
<1>2. /\ batch[b].pc = "update" /\ batch[b].plan \in [batch[b].users -> Percent]
      /\ w \in ScoreWrites /\ w.user \in batch[b].users /\ w.value = batch[b].plan[w.user]
      /\ batch[b].sure \subseteq batch[b].users
  BY BatchHolds DEF UpdateScore, On, KnowsScores, Writers
<1>3. w.user \in Members /\ w.value \in Percent /\ member' = member
  BY <1>2 DEF ScoreWrites, UpdateScore
<1>4. \A m \in Members :
        /\ detail'[m] = IF w.table = "detail" /\ m = w.user /\ member[m] = "live"
                        THEN w.value ELSE detail[m]
        /\ score'[m] = IF w.table = "user" /\ m = w.user /\ member[m] = "live"
                       THEN w.value ELSE score[m]
  BY <1>1, <1>3 DEF TrustTyped, Scores
<1>5. detail' \in [Members -> Percent \cup {NoScore}] /\ score' \in [Members -> Percent]
  BY <1>1, <1>3 DEF TrustTyped, Scores
<1>6. Scores'
  BY <1>3, <1>4, <1>5 DEF UpdateScore, TrustTyped, Scores
<1>7. Ballots'
  BY DEF UpdateScore, votes, TrustTyped, Ballots
<1>8. CASE batch[b].todo = {w}
  <2>1. Become(b, Idle)
    BY <1>1, <1>8
  <2>2. Idle.users = {} /\ Idle.pc = "idle" /\ Idle.sure = {}
    BY DEF Idle
  <2>3. \A c \in Batches : batch'[c] = IF c = b THEN Idle ELSE batch[c]
    BY <2>1 DEF Become, TrustTyped, BatchesTyped
  <2>4. settled' = (settled \ batch[b].users) \cup batch[b].sure
    BY <1>1, <1>8
  <2>5. TrustTyped'
    BY <1>2, <1>3, <1>6, <1>7, <2>1, <2>2, <2>4, IdleTyped, GoesOnTyped DEF TrustTyped
  <2> QED
    BY <1>2, <1>3, <1>4, <1>8, <2>2, <2>3, <2>4, <2>5
<1>9. CASE batch[b].todo # {w}
  <2> PICK t : t = batch[b].todo \ {w}
    OBVIOUS
  <2> PICK r : r = [batch[b] EXCEPT !.todo = t]
    OBVIOUS
  <2>1. Become(b, r) /\ settled' = settled
    BY <1>1, <1>9, LocalIs, BatchHolds
  <2>2. /\ r \in BatchRecord /\ r.pc = "update" /\ r.todo = t /\ r.users = batch[b].users
        /\ r.plan = batch[b].plan /\ r.sure = batch[b].sure
    BY <1>2, BatchHolds DEF BatchRecord
  <2>3. KnowsScores(r)
    BY <1>2, <2>2, BatchHolds DEF KnowsScores, Writers
  <2>4. \A c \in Batches : batch'[c] = IF c = b THEN r ELSE batch[c]
    BY <2>1 DEF Become, TrustTyped, BatchesTyped
  <2>5. TrustTyped'
    BY <1>3, <1>6, <1>7, <2>1, <2>2, <2>3, BatchHolds, GoesOnTyped DEF TrustTyped
  <2> QED
    BY <1>2, <1>3, <1>4, <2>1, <2>2, <2>4, <2>5
<1> QED
  BY <1>8, <1>9

\* The save of a user entity takes a score back, and who it belongs to is sure no more.
LEMMA SaveUserTyped ==
  ASSUME TrustTyped, NEW m \in Members, SaveUser(m), UNCHANGED <<starts, moves>>
  PROVE  /\ TrustTyped' /\ member' = member /\ detail' = detail
         /\ \A n \in Members \ {m} : score'[n] = score[n]
         /\ \A b \in Batches :
              /\ batch'[b].pc = batch[b].pc /\ batch'[b].users = batch[b].users
              /\ batch'[b].todo = batch[b].todo /\ batch'[b].plan = batch[b].plan
         /\ \/ score' = score /\ batch' = batch /\ settled' = settled
            \/ settled' = settled \ {m} /\ \A b \in Batches : batch'[b].sure = batch[b].sure \ {m}
<1>1. held[m] \in Percent
  BY DEF SaveUser, TrustTyped, Scores
<1>2. member' = member /\ detail' = detail /\ UNCHANGED votes /\ settled' \subseteq settled
  BY DEF SaveUser
<1>3. \A n \in Members \ {m} : score'[n] = score[n]
  BY DEF SaveUser, TrustTyped, Scores
<1>4. score' \in [Members -> Percent] /\ held' \in [Members -> Percent \cup {NoScore}]
  BY <1>1 DEF SaveUser, TrustTyped, Scores
<1>5. Scores' /\ Ballots'
  BY <1>2, <1>4 DEF TrustTyped, Scores, Ballots, votes
<1>6. CASE score' = score /\ batch' = batch /\ settled' = settled
  <2>1. TrustTyped'
    BY <1>2, <1>5, <1>6 DEF TrustTyped, BatchesTyped, Known
  <2> QED
    BY <1>2, <1>3, <1>6, <2>1
<1>7. CASE /\ batch' = [b \in Batches |-> [batch[b] EXCEPT !.sure = @ \ {m}]]
           /\ settled' = settled \ {m}
  <2>1. ASSUME NEW b \in Batches
        PROVE  /\ batch'[b] \in BatchRecord /\ KnowsScores(batch'[b])
               /\ batch'[b].pc = batch[b].pc /\ batch'[b].users = batch[b].users
               /\ batch'[b].todo = batch[b].todo /\ batch'[b].plan = batch[b].plan
               /\ batch'[b].sure = batch[b].sure \ {m}
    <3> PICK s : s = batch[b].sure \ {m}
      OBVIOUS
    <3> PICK x : x = [batch[b] EXCEPT !.sure = s]
      OBVIOUS
    <3>1. batch'[b] = x
      BY <1>7
    <3>2. /\ x \in BatchRecord /\ x.sure = s /\ x.pc = batch[b].pc /\ x.users = batch[b].users
          /\ x.todo = batch[b].todo /\ x.prices = batch[b].prices /\ x.plan = batch[b].plan
      BY BatchHolds DEF BatchRecord
    <3>3. KnowsScores(x)
      BY <3>2, BatchHolds DEF KnowsScores, Writers
    <3> QED
      BY <3>1, <3>2, <3>3
  <2>2. BatchesTyped'
    BY <1>7, <2>1 DEF BatchesTyped
  <2>3. Known'
    BY <1>2, <1>7, <2>1, BatchHolds DEF Known, TrustTyped
  <2>4. TrustTyped'
    BY <1>5, <2>2, <2>3 DEF TrustTyped
  <2> QED
    BY <1>2, <1>3, <1>7, <2>1, <2>4
<1> QED
  BY <1>6, <1>7 DEF SaveUser

\* What members do.
LEMMA MoveTyped ==
  ASSUME TrustTyped, Move, moves < MaxMoves, moves' = moves + 1, UNCHANGED starts
  PROVE  /\ TrustTyped' /\ UNCHANGED <<batch, settled, score>>
         /\ \A m \in Members : member'[m] = "live" =>
              member[m] \in {"live", "absent"} /\ detail'[m] = detail[m]
<1>0. moves' \in 0..MaxMoves /\ starts' \in 0..MaxStarts
  BY BatchAssumption DEF TrustTyped
<1>a. UNCHANGED <<batch, settled, score>>
  BY DEF Move, SignUp, HoldUser, Leave, Vote
<1>1. ASSUME NEW m \in Members, SignUp(m)
      PROVE  Scores' /\ Ballots' /\ \A n \in Members : member[n] # "absent" => member'[n] # "absent"
  BY <1>1 DEF SignUp, TrustTyped, Scores, Ballots, votes
<1>2. ASSUME NEW m \in Members, HoldUser(m)
      PROVE  Scores' /\ Ballots' /\ member' = member
  BY <1>2 DEF HoldUser, TrustTyped, Scores, Ballots, votes
<1>3. ASSUME NEW m \in Members, Leave(m)
      PROVE  Scores' /\ Ballots' /\ \A n \in Members : member[n] # "absent" => member'[n] # "absent"
  <2>1. Scores' /\ \A n \in Members : member[n] # "absent" => member'[n] # "absent"
    BY <1>3 DEF Leave, TrustTyped, Scores
  <2>2. \A i \in Items : [vote[i] EXCEPT ![m] = "none"] \in [Members -> Results \cup {"none"}]
    BY DEF TrustTyped, Ballots
  <2>3. vote' \in [Items -> [Members -> Results \cup {"none"}]]
    BY <1>3, <2>2 DEF Leave
  <2>4. Ballots'
    BY <1>3, <2>3 DEF Leave, TrustTyped, Ballots
  <2> QED
    BY <2>1, <2>4
<1>4. ASSUME NEW m \in Members, NEW i \in Items, NEW r \in Results, Vote(m, i, r)
      PROVE  Scores' /\ Ballots' /\ member' = member
  <2>1. vote' \in [Items -> [Members -> Results \cup {"none"}]]
    BY <1>4 DEF Vote, TrustTyped, Ballots
  <2>2. tally' \in [Items -> [Results -> Nat]]
    BY <1>4 DEF Vote, TrustTyped, Ballots
  <2> QED
    BY <1>4, <2>1, <2>2 DEF Vote, TrustTyped, Scores, Ballots
<1>5. Scores' /\ Ballots' /\ \A n \in Members : member[n] # "absent" => member'[n] # "absent"
  BY <1>1, <1>2, <1>3, <1>4 DEF Move
<1>6. BatchesTyped'
  BY <1>a DEF TrustTyped, BatchesTyped
<1>7. Known'
  BY <1>5, <1>a, BatchHolds DEF TrustTyped, Known
<1>8. \A m \in Members : member'[m] = "live" =>
        member[m] \in {"live", "absent"} /\ detail'[m] = detail[m]
  BY DEF Move, SignUp, HoldUser, Leave, Vote, TrustTyped, Scores
<1> QED
  BY <1>0, <1>5, <1>6, <1>7, <1>8, <1>a DEF TrustTyped

\* A statement of batch b that reads, or scores a price.
Reads(b) ==
  \/ ReadItems(b) /\ UNCHANGED moves
  \/ /\ ReadVotes(b) \/ UpdateItem(b) \/ ReadUsers(b) \/ ReadPrices(b) \/ ReadVerifications(b)
     /\ UNCHANGED <<starts, moves>>

LEMMA TrustSteps ==
  ASSUME [TrustNext]_trustVars
  PROVE  \/ \E b \in Batches : Reads(b)
         \/ \E b \in Batches : /\ ReadScores(b) \/ Abort(b) \/ Inserted(b) \/ UpdateScore(b)
                               /\ UNCHANGED <<starts, moves>>
         \/ \E m \in Members : SaveUser(m) /\ UNCHANGED <<starts, moves>>
         \/ Move /\ moves < MaxMoves /\ moves' = moves + 1 /\ UNCHANGED starts
         \/ UNCHANGED trustVars
<1>1. ASSUME NEW b \in Batches, ReadItems(b) PROVE Reads(b)
  BY <1>1 DEF ReadItems, Reads
<1>2. ASSUME NEW b \in Batches, Continue(b), UNCHANGED <<starts, moves>>
      PROVE  \/ Reads(b)
             \/ /\ ReadScores(b) \/ Abort(b) \/ Inserted(b) \/ UpdateScore(b)
                /\ UNCHANGED <<starts, moves>>
  BY <1>2, InsertOrAbort, Zenon DEF Continue, CrashBatch, Reads
<1> QED
  BY <1>1, <1>2, Zenon DEF TrustNext

LEMMA TrustTypedStep == TrustTyped /\ [TrustNext]_trustVars => TrustTyped'
<1> SUFFICES ASSUME TrustTyped, [TrustNext]_trustVars PROVE TrustTyped'
  OBVIOUS
<1>1. \A b \in Batches : Reads(b) => TrustTyped'
  BY ReadItemsTyped, ReadVotesTyped, UpdateItemTyped, ReadUsersTyped, ReadPricesTyped,
     ReadVerificationsTyped, Zenon DEF Reads
<1>2. \A b \in Batches :
        (ReadScores(b) \/ Abort(b) \/ Inserted(b) \/ UpdateScore(b)) /\ UNCHANGED <<starts, moves>>
          => TrustTyped'
  BY ReadScoresTyped, AbortTyped, InsertedTyped, UpdateScoreTyped, Zenon
<1>3. \A m \in Members : SaveUser(m) /\ UNCHANGED <<starts, moves>> => TrustTyped'
  BY SaveUserTyped, Zenon
<1>4. Move /\ moves < MaxMoves /\ moves' = moves + 1 /\ UNCHANGED starts => TrustTyped'
  BY MoveTyped
<1>5. UNCHANGED trustVars => TrustTyped'
  BY DEF trustVars, votes, TrustTyped, Scores, Ballots, BatchesTyped, Known
<1> QED
  BY <1>1, <1>2, <1>3, <1>4, <1>5, TrustSteps, Zenon

LEMMA TrustTypedAlways == TrustSpec => []TrustTyped
BY TrustTypedStart, TrustTypedStep, PTL DEF TrustSpec

-----------------------------------------------------------------------------
(* Two tables, one score. *)

Agree(m) == detail[m] # NoScore /\ detail[m] = score[m]

\* A batch is at the scores of m, row by row.
Updating(m) == \E b \in Batches : batch[b].pc = "update" /\ m \in batch[b].users

SettledAgree == \A m \in settled : member[m] = "live" => Agree(m) \/ Updating(m)

ScoreWrite(b, table, m) == [table |-> table, user |-> m, value |-> batch[b].plan[m]]

\* What b is sure of no other batch writes, and b has written it or will.
WillAgree(b, m) ==
  /\ \A c \in Batches \ {b} : batch[c].pc \notin Writers
  /\ member[m] = "live" /\ batch[b].pc = "insert" => ScoreWrite(b, "user", m) \in batch[b].todo
  /\ member[m] = "live" /\ batch[b].pc = "update" =>
       /\ ScoreWrite(b, "user", m) \in batch[b].todo \/ score[m] = batch[b].plan[m]
       /\ ScoreWrite(b, "detail", m) \in batch[b].todo \/ detail[m] = batch[b].plan[m]

SureAgree == \A b \in Batches : \A m \in batch[b].sure : WillAgree(b, m)

TrustAgree == SettledAgree /\ SureAgree

LEMMA TrustAgreeMeans == TrustAgree => ScoresAgree
BY DEF TrustAgree, SettledAgree, Agree, Updating, ScoresAgree, Writing

\* Nothing that agreement speaks of changes.
LEMMA AgreementStays ==
  ASSUME TrustTyped, TrustTyped', TrustAgree, UNCHANGED <<member, score, detail, settled>>,
         \A b \in Batches :
           \/ batch'[b] = batch[b]
           \/ batch[b].pc \notin Writers /\ batch'[b].pc \notin Writers
  PROVE  TrustAgree'
<1>1. \A b \in Batches : batch'[b].pc \in Writers <=> batch[b].pc \in Writers
  OBVIOUS
<1>2. \A b \in Batches : batch'[b] # batch[b] => batch'[b].sure = {}
  BY DEF TrustTyped, BatchesTyped, KnowsScores
<1>3. ASSUME NEW b \in Batches, NEW m \in batch'[b].sure PROVE WillAgree(b, m)'
  <2>1. batch'[b] = batch[b] /\ WillAgree(b, m)
    BY <1>2, <1>3 DEF TrustAgree, SureAgree
  <2> QED
    BY <1>1, <2>1 DEF WillAgree, ScoreWrite
<1>4. \A m \in Members : Updating(m) => Updating(m)'
  BY DEF Updating, Writers
<1>5. SettledAgree'
  BY <1>4 DEF TrustAgree, SettledAgree, Agree, TrustTyped, Known
<1> QED
  BY <1>3, <1>5 DEF TrustAgree, SureAgree

LEMMA BecomeIs ==
  ASSUME TrustTyped, NEW b \in Batches, NEW r, Become(b, r)
  PROVE  batch'[b] = r /\ \A c \in Batches \ {b} : batch'[c] = batch[c]
BY DEF Become, TrustTyped, BatchesTyped

LEMMA ReadsAgree ==
  ASSUME TrustTyped, TrustTyped', TrustAgree, NEW b \in Batches, Reads(b)
  PROVE  TrustAgree'
<1>1. UNCHANGED <<member, score, detail, settled>>
  BY DEF Reads, ReadItems, ReadVotes, UpdateItem, ReadUsers, ReadPrices, ReadVerifications, Unwritten
<1>2. batch[b].pc \notin Writers
  BY DEF Reads, ReadItems, ReadVotes, UpdateItem, ReadUsers, ReadPrices, ReadVerifications, On,
         Writers
<1>3. Idle \in BatchRecord /\ batch[b] \in BatchRecord
  BY IdleTyped, BatchHolds
<1>4. \E r : Become(b, r) /\ r.pc \notin Writers
  <2> PICK i \in BatchRecord : i = Idle /\ i.pc = "idle"
    BY IdleTyped DEF Idle
  <2>1. CASE ReadItems(b)
    <3>1. \A S : [i EXCEPT !.pc = "users"].pc = "users" /\ [i EXCEPT !.pc = "votes", !.items = S].pc = "votes"
      BY DEF BatchRecord
    <3> QED
      BY <2>1, <3>1 DEF ReadItems, Writers
  <2>2. CASE ReadUsers(b)
    <3>1. \A U : [i EXCEPT !.pc = "prices", !.users = U].pc = "prices"
      BY DEF BatchRecord
    <3> QED
      BY <2>2, <3>1 DEF ReadUsers, Writers
  <2>4. CASE ReadVotes(b)
    <3>1. PICK p \in {"users", "items"} : \E t : Local(b, [pc |-> p, todo |-> t])
      BY <2>4 DEF ReadVotes
    <3>a. PICK t : Local(b, [pc |-> p, todo |-> t])
      BY <3>1
    <3>2. PICK r : r = [batch[b] EXCEPT !.pc = p, !.todo = t] /\ Become(b, r)
      BY <1>3, <3>a, LocalIs
    <3>3. r.pc = p
      BY <1>3, <3>2 DEF BatchRecord
    <3> QED
      BY <3>2, <3>3 DEF Writers
  <2>5. CASE UpdateItem(b)
    <3>1. PICK p \in {"users", "items"} : \E t : Local(b, [pc |-> p, todo |-> t])
      BY <2>5 DEF UpdateItem
    <3>a. PICK t : Local(b, [pc |-> p, todo |-> t])
      BY <3>1
    <3>2. PICK r : r = [batch[b] EXCEPT !.pc = p, !.todo = t] /\ Become(b, r)
      BY <1>3, <3>a, LocalIs
    <3>3. r.pc = p
      BY <1>3, <3>2 DEF BatchRecord
    <3> QED
      BY <3>2, <3>3 DEF Writers
  <2>6. CASE ReadPrices(b)
    <3>a. PICK s : Local(b, [pc |-> "verifications", prices |-> s])
      BY <2>6 DEF ReadPrices
    <3>1. PICK r : r = [batch[b] EXCEPT !.pc = "verifications", !.prices = s] /\ Become(b, r)
      BY <1>3, <3>a, LocalIs
    <3>2. r.pc = "verifications"
      BY <1>3, <3>1 DEF BatchRecord
    <3> QED
      BY <3>1, <3>2 DEF Writers
  <2>7. CASE ReadVerifications(b)
    <3>1. PICK plan : Local(b, [pc |-> "scores", prices |-> <<>>, plan |-> plan])
      BY <2>7 DEF ReadVerifications
    <3>2. PICK r : /\ r = [batch[b] EXCEPT !.pc = "scores", !.prices = <<>>, !.plan = plan]
                   /\ Become(b, r)
      BY <1>3, <3>1, LocalIs
    <3>3. r.pc = "scores"
      BY <1>3, <3>2 DEF BatchRecord
    <3> QED
      BY <3>2, <3>3 DEF Writers
  <2> QED
    BY <2>1, <2>2, <2>4, <2>5, <2>6, <2>7 DEF Reads
<1>5. \A c \in Batches : batch'[c] = batch[c] \/ c = b
  BY <1>4, BecomeIs
<1>6. batch'[b].pc \notin Writers
  BY <1>4, BecomeIs
<1> QED
  BY <1>1, <1>2, <1>5, <1>6, AgreementStays

LEMMA ReadScoresAgree ==
  ASSUME TrustTyped, TrustTyped', TrustAgree, NEW b \in Batches, ReadScores(b),
         UNCHANGED <<starts, moves>>
  PROVE  TrustAgree'
<1> PICK U : U = batch[b].users
  OBVIOUS
<1>1. /\ batch'[b].pc \in Writers /\ batch'[b].users = U /\ batch'[b].plan = batch[b].plan
      /\ \A m \in U : ScoreWrite(b, "user", m) \in batch'[b].todo
      /\ batch'[b].pc = "update" => \A m \in U : ScoreWrite(b, "detail", m) \in batch'[b].todo
      /\ batch'[b].sure = IF Writing = {} THEN U ELSE {}
      /\ \A c \in Batches \ {b} : /\ batch'[c].sure = {} /\ batch'[c].pc = batch[c].pc
                                  /\ batch'[c].users = batch[c].users
  BY ReadScoresTyped DEF ScoreWrite
<1>2. UNCHANGED <<member, score, detail>> /\ settled' \subseteq settled /\ batch[b].pc = "scores"
  BY DEF ReadScores, Unwritten, On
<1>3. ASSUME NEW c \in Batches, NEW m \in batch'[c].sure PROVE WillAgree(c, m)'
  <2>1. c = b /\ Writing = {} /\ m \in U
    BY <1>1, <1>3
  <2>2. \A d \in Batches \ {b} : batch'[d].pc \notin Writers
    BY <1>1, <2>1 DEF Writing, Writers
  <2>3. ScoreWrite(b, "user", m)' \in batch'[b].todo
    BY <1>1, <2>1 DEF ScoreWrite
  <2>4. batch'[b].pc = "update" => ScoreWrite(b, "detail", m)' \in batch'[b].todo
    BY <1>1, <2>1 DEF ScoreWrite
  <2> QED
    BY <2>1, <2>2, <2>3, <2>4 DEF WillAgree
<1>4. \A m \in Members : Updating(m) => Updating(m)'
  BY <1>1, <1>2 DEF Updating
<1>5. SettledAgree'
  BY <1>2, <1>4 DEF TrustAgree, SettledAgree, Agree, TrustTyped, Known
<1> QED
  BY <1>3, <1>5 DEF TrustAgree, SureAgree

\* A batch that is cut off between two writes settles nobody.
LEMMA AbortAgree ==
  ASSUME TrustTyped, TrustTyped', TrustAgree, NEW b \in Batches, Abort(b)
  PROVE  TrustAgree'
<1>1. /\ batch'[b] = Idle /\ \A c \in Batches \ {b} : batch'[c] = batch[c]
      /\ Idle.pc = "idle" /\ Idle.sure = {}
  BY BecomeIs DEF Abort, Idle
<1>2. /\ UNCHANGED <<member, score, detail>>
      /\ settled' = IF batch[b].pc = "update" THEN settled \ batch[b].users ELSE settled
  BY DEF Abort, Unwritten
<1>3. ASSUME NEW c \in Batches, NEW m \in batch'[c].sure PROVE WillAgree(c, m)'
  <2>1. c # b /\ batch'[c] = batch[c] /\ WillAgree(c, m)
    BY <1>1, <1>3 DEF TrustAgree, SureAgree
  <2>2. \A d \in Batches \ {c} : batch'[d].pc \notin Writers
    BY <1>1, <2>1 DEF WillAgree, Writers
  <2> QED
    BY <1>2, <2>1, <2>2 DEF WillAgree, ScoreWrite
<1>4. ASSUME NEW m \in settled', member'[m] = "live" PROVE Agree(m)' \/ Updating(m)'
  <2>1. m \in settled /\ (Agree(m) \/ Updating(m))
    BY <1>2, <1>4 DEF TrustAgree, SettledAgree
  <2>2. CASE Agree(m)
    BY <1>2, <2>2 DEF Agree
  <2>3. CASE Updating(m)
    <3>1. PICK c \in Batches : batch[c].pc = "update" /\ m \in batch[c].users
      BY <2>3 DEF Updating
    <3>2. c # b
      BY <1>2, <1>4, <3>1
    <3> QED
      BY <1>1, <3>1, <3>2 DEF Updating
  <2> QED
    BY <2>1, <2>2, <2>3
<1> QED
  BY <1>3, <1>4 DEF TrustAgree, SureAgree, SettledAgree

\* What is inserted had no row: nobody who is settled is among it.
LEMMA InsertedAgree ==
  ASSUME TrustTyped, TrustTyped', TrustAgree, NEW b \in Batches, Inserted(b),
         UNCHANGED <<starts, moves>>
  PROVE  TrustAgree'
<1> PICK plan : plan = batch[b].plan
  OBVIOUS
<1> PICK r : r = [batch[b] EXCEPT !.pc = "update"]
  OBVIOUS
<1>1. /\ batch'[b] = r /\ \A c \in Batches \ {b} : batch'[c] = batch[c]
      /\ batch[b].pc = "insert"
  BY InsertedTyped, BecomeIs DEF Inserted, On
<1>2. /\ r.pc = "update" /\ r.todo = batch[b].todo /\ r.users = batch[b].users
      /\ r.plan = plan /\ r.sure = batch[b].sure
  BY BatchHolds DEF BatchRecord
<1>3. /\ UNCHANGED <<member, score, settled>>
      /\ \A m \in Inserts(b) : detail[m] = NoScore
      /\ \A m \in Members : detail'[m] = IF m \in Inserts(b) THEN plan[m] ELSE detail[m]
  BY DEF Inserted
<1>4. ASSUME NEW c \in Batches, NEW m \in batch'[c].sure PROVE WillAgree(c, m)'
  <2>1. CASE c # b
    <3>1. WillAgree(c, m) /\ batch[b].pc \in Writers
      BY <1>1, <1>4, <2>1 DEF TrustAgree, SureAgree, Writers
    <3> QED
      BY <2>1, <3>1 DEF WillAgree
  <2>2. CASE c = b
    <3>1. m \in batch[b].sure /\ m \in batch[b].users /\ m \in Members /\ WillAgree(b, m)
      BY <1>1, <1>2, <1>4, <2>2, BatchHolds DEF TrustAgree, SureAgree, KnowsScores
    <3>2. \A d \in Batches \ {b} : batch'[d].pc \notin Writers
      BY <1>1, <3>1 DEF WillAgree
    <3>3. member'[m] = "live" => ScoreWrite(b, "user", m)' \in batch'[b].todo
      BY <1>1, <1>2, <1>3, <3>1 DEF WillAgree, ScoreWrite
    <3>4. m \in Inserts(b) \/ ScoreWrite(b, "detail", m) \in batch[b].todo
      <4> SUFFICES ASSUME m \notin Inserts(b) PROVE ScoreWrite(b, "detail", m) \in batch[b].todo
        OBVIOUS
      <4>1. PICK w \in batch[b].todo : w.table = "detail" /\ w.user = m
        BY <3>1 DEF Inserts
      <4>2. w \in ScoreWrites /\ w.value = plan[m]
        BY <1>1, <4>1, BatchHolds DEF KnowsScores, Writers
      <4>3. w = ScoreWrite(b, "detail", m)
        BY <4>1, <4>2 DEF ScoreWrite, ScoreWrites
      <4> QED
        BY <4>1, <4>3
    <3>5. ScoreWrite(b, "detail", m)' \in batch'[b].todo \/ detail'[m] = batch'[b].plan[m]
      BY <1>1, <1>2, <1>3, <3>1, <3>4 DEF ScoreWrite
    <3> QED
      BY <1>1, <1>2, <2>2, <3>2, <3>3, <3>5 DEF WillAgree
  <2> QED
    BY <2>1, <2>2
<1>5. ASSUME NEW m \in settled', member'[m] = "live" PROVE Agree(m)' \/ Updating(m)'
  <2>1. m \in settled /\ m \in Members /\ (Agree(m) \/ Updating(m))
    BY <1>3, <1>5 DEF TrustAgree, SettledAgree, TrustTyped, Known
  <2>2. CASE Agree(m)
    BY <1>3, <2>1, <2>2 DEF Agree
  <2>3. CASE Updating(m)
    BY <1>1, <2>3 DEF Updating
  <2> QED
    BY <2>1, <2>2, <2>3
<1> QED
  BY <1>4, <1>5 DEF TrustAgree, SureAgree, SettledAgree

\* Two writes to a member by the only batch that writes are the two halves of its
\* score. A batch that has ended leaves them equal.
LEMMA UpdateScoreAgree ==
  ASSUME TrustTyped, TrustTyped', TrustAgree, NEW b \in Batches, UpdateScore(b),
         UNCHANGED <<starts, moves>>
  PROVE  TrustAgree'
<1>1. /\ batch[b].pc = "update" /\ member' = member /\ batch[b].plan \in [batch[b].users -> Percent]
      /\ \A c \in Batches \ {b} : batch'[c] = batch[c]
  BY UpdateScoreTyped
<1>2. PICK w \in batch[b].todo :
        /\ w \in ScoreWrites /\ w.user \in batch[b].users /\ w.value = batch[b].plan[w.user]
        /\ \A m \in Members :
             /\ detail'[m] = IF w.table = "detail" /\ m = w.user /\ member[m] = "live"
                             THEN w.value ELSE detail[m]
             /\ score'[m] = IF w.table = "user" /\ m = w.user /\ member[m] = "live"
                            THEN w.value ELSE score[m]
        /\ \/ /\ batch[b].todo = {w} /\ batch'[b].pc = "idle" /\ batch'[b].sure = {}
              /\ settled' = (settled \ batch[b].users) \cup batch[b].sure
           \/ /\ batch'[b].pc = "update" /\ batch'[b].todo = batch[b].todo \ {w}
              /\ batch'[b].users = batch[b].users /\ batch'[b].plan = batch[b].plan
              /\ batch'[b].sure = batch[b].sure /\ settled' = settled
  BY UpdateScoreTyped
<1>3. ASSUME NEW m \in batch[b].sure, member[m] = "live"
      PROVE  /\ m \in Members /\ batch[b].plan[m] \in Percent
             /\ \/ ScoreWrite(b, "user", m) \in batch[b].todo \ {w}
                \/ score'[m] = batch[b].plan[m]
             /\ \/ ScoreWrite(b, "detail", m) \in batch[b].todo \ {w}
                \/ detail'[m] = batch[b].plan[m]
  <2>1. m \in batch[b].users /\ m \in Members /\ WillAgree(b, m)
    BY BatchHolds DEF TrustAgree, SureAgree, KnowsScores
  <2>2. /\ ScoreWrite(b, "user", m) \in batch[b].todo \/ score[m] = batch[b].plan[m]
        /\ ScoreWrite(b, "detail", m) \in batch[b].todo \/ detail[m] = batch[b].plan[m]
    BY <1>1, <1>3, <2>1 DEF WillAgree
  <2>3. /\ ScoreWrite(b, "user", m) = w => w.table = "user" /\ w.user = m
        /\ ScoreWrite(b, "detail", m) = w => w.table = "detail" /\ w.user = m
    BY DEF ScoreWrite
  <2>4. \/ ScoreWrite(b, "user", m) \in batch[b].todo \ {w}
        \/ score'[m] = batch[b].plan[m]
    BY <1>2, <1>3, <2>1, <2>2, <2>3
  <2>5. \/ ScoreWrite(b, "detail", m) \in batch[b].todo \ {w}
        \/ detail'[m] = batch[b].plan[m]
    BY <1>2, <1>3, <2>1, <2>2, <2>3
  <2> QED
    BY <1>1, <2>1, <2>4, <2>5
<1>4. ASSUME NEW c \in Batches, NEW m \in batch'[c].sure PROVE WillAgree(c, m)'
  <2>1. CASE c # b
    <3>1. WillAgree(c, m) /\ batch[b].pc \in Writers
      BY <1>1, <1>4, <2>1 DEF TrustAgree, SureAgree, Writers
    <3> QED
      BY <2>1, <3>1 DEF WillAgree
  <2>2. CASE c = b
    <3>1. /\ batch'[b].pc = "update" /\ batch'[b].todo = batch[b].todo \ {w}
          /\ batch'[b].plan = batch[b].plan /\ m \in batch[b].sure /\ WillAgree(b, m)
      BY <1>2, <1>4, <2>2 DEF TrustAgree, SureAgree
    <3>2. \A d \in Batches \ {b} : batch'[d].pc \notin Writers
      BY <1>1, <3>1 DEF WillAgree
    <3>3. \A t : ScoreWrite(b, t, m)' = ScoreWrite(b, t, m)
      BY <3>1 DEF ScoreWrite
    <3> QED
      BY <1>1, <1>3, <2>2, <3>1, <3>2, <3>3 DEF WillAgree
  <2> QED
    BY <2>1, <2>2
<1>5. ASSUME NEW m \in settled', member'[m] = "live" PROVE Agree(m)' \/ Updating(m)'
  <2>1. m \in Members /\ member[m] = "live"
    BY <1>1, <1>5 DEF TrustTyped, Known
  <2>2. CASE batch'[b].pc = "update"
    <3>1. m \in settled /\ batch'[b].users = batch[b].users
      BY <1>2, <1>5, <2>2
    <3>2. CASE m \in batch[b].users
      BY <2>2, <3>1, <3>2 DEF Updating
    <3>3. CASE m \notin batch[b].users
      <4>1. detail'[m] = detail[m] /\ score'[m] = score[m]
        BY <1>2, <2>1, <3>3
      <4>2. Updating(m) => Updating(m)'
        BY <1>1, <3>3 DEF Updating
      <4> QED
        BY <2>1, <3>1, <4>1, <4>2 DEF TrustAgree, SettledAgree, Agree
    <3> QED
      BY <3>2, <3>3
  <2>3. CASE batch[b].todo = {w} /\ settled' = (settled \ batch[b].users) \cup batch[b].sure
    <3>1. CASE m \in batch[b].sure
      <4>1. /\ batch[b].plan[m] \in Percent
            /\ score'[m] = batch[b].plan[m] /\ detail'[m] = batch[b].plan[m]
        BY <1>3, <2>1, <2>3, <3>1
      <4>2. batch[b].plan[m] # NoScore
        BY <4>1, BatchAssumption DEF Percent
      <4> QED
        BY <4>1, <4>2 DEF Agree
    <3>2. CASE m \in settled \ batch[b].users
      <4>1. detail'[m] = detail[m] /\ score'[m] = score[m]
        BY <1>2, <2>1, <3>2
      <4>2. Updating(m) => Updating(m)'
        BY <1>1, <3>2 DEF Updating
      <4> QED
        BY <2>1, <3>2, <4>1, <4>2 DEF TrustAgree, SettledAgree, Agree
    <3> QED
      BY <1>5, <2>3, <3>1, <3>2
  <2> QED
    BY <1>2, <2>2, <2>3
<1> QED
  BY <1>4, <1>5 DEF TrustAgree, SureAgree, SettledAgree

\* Whose score a save takes back is neither settled nor sure.
LEMMA SaveUserAgree ==
  ASSUME TrustTyped, TrustTyped', TrustAgree, NEW m \in Members, SaveUser(m),
         UNCHANGED <<starts, moves>>
  PROVE  TrustAgree'
<1>1. /\ member' = member /\ detail' = detail
      /\ \A n \in Members \ {m} : score'[n] = score[n]
      /\ \A b \in Batches :
           /\ batch'[b].pc = batch[b].pc /\ batch'[b].users = batch[b].users
           /\ batch'[b].todo = batch[b].todo /\ batch'[b].plan = batch[b].plan
      /\ \/ score' = score /\ batch' = batch /\ settled' = settled
         \/ settled' = settled \ {m} /\ \A b \in Batches : batch'[b].sure = batch[b].sure \ {m}
  BY SaveUserTyped
<1>2. ASSUME NEW c \in Batches, NEW n \in batch'[c].sure PROVE WillAgree(c, n)'
  <2>1. n \in batch[c].sure /\ n \in Members /\ score'[n] = score[n] /\ WillAgree(c, n)
    BY <1>1, <1>2, BatchHolds DEF TrustAgree, SureAgree, KnowsScores
  <2>2. \A t : ScoreWrite(c, t, n)' = ScoreWrite(c, t, n)
    BY <1>1 DEF ScoreWrite
  <2> QED
    BY <1>1, <2>1, <2>2 DEF WillAgree
<1>3. ASSUME NEW n \in settled', member'[n] = "live" PROVE Agree(n)' \/ Updating(n)'
  <2>1. n \in settled /\ n \in Members /\ score'[n] = score[n]
    BY <1>1, <1>3 DEF TrustTyped, Known
  <2> QED
    BY <1>1, <1>3, <2>1 DEF TrustAgree, SettledAgree, Agree, Updating
<1> QED
  BY <1>2, <1>3 DEF TrustAgree, SureAgree, SettledAgree

\* Whoever a batch has read has signed up before: if such a member is there after
\* a move, that member was there before it.
LEMMA MoveAgree ==
  ASSUME TrustTyped, TrustTyped', TrustAgree, Move, moves < MaxMoves, moves' = moves + 1,
         UNCHANGED starts
  PROVE  TrustAgree'
<1>1. /\ UNCHANGED <<batch, settled, score>>
      /\ \A m \in Members : member'[m] = "live" =>
           member[m] \in {"live", "absent"} /\ detail'[m] = detail[m]
  BY MoveTyped
<1>2. ASSUME NEW c \in Batches, NEW m \in batch'[c].sure PROVE WillAgree(c, m)'
  <2>1. m \in batch[c].sure /\ m \in Members /\ member[m] # "absent" /\ WillAgree(c, m)
    BY <1>1, <1>2, BatchHolds DEF TrustAgree, SureAgree, KnowsScores
  <2>2. member'[m] = "live" => member[m] = "live" /\ detail'[m] = detail[m]
    BY <1>1, <2>1
  <2> QED
    BY <1>1, <2>1, <2>2 DEF WillAgree, ScoreWrite
<1>3. ASSUME NEW m \in settled', member'[m] = "live" PROVE Agree(m)' \/ Updating(m)'
  <2>1. m \in settled /\ m \in Members /\ member[m] # "absent"
    BY <1>1, <1>3 DEF TrustTyped, Known
  <2>2. member[m] = "live" /\ detail'[m] = detail[m]
    BY <1>1, <1>3, <2>1
  <2> QED
    BY <1>1, <2>1, <2>2 DEF TrustAgree, SettledAgree, Agree, Updating
<1> QED
  BY <1>2, <1>3 DEF TrustAgree, SureAgree, SettledAgree

LEMMA TrustAgreeStart == TrustInit => TrustAgree
BY DEF TrustInit, TrustAgree, SettledAgree, SureAgree, Idle

LEMMA TrustAgreeStep == TrustTyped /\ TrustAgree /\ [TrustNext]_trustVars => TrustAgree'
<1> SUFFICES ASSUME TrustTyped, TrustAgree, [TrustNext]_trustVars PROVE TrustAgree'
  OBVIOUS
<1>0. TrustTyped'
  BY TrustTypedStep
<1>1. \A b \in Batches : Reads(b) => TrustAgree'
  BY <1>0, ReadsAgree, Zenon
<1>2. \A b \in Batches :
        (ReadScores(b) \/ Abort(b) \/ Inserted(b) \/ UpdateScore(b)) /\ UNCHANGED <<starts, moves>>
          => TrustAgree'
  BY <1>0, ReadScoresAgree, AbortAgree, InsertedAgree, UpdateScoreAgree, Zenon
<1>3. \A m \in Members : SaveUser(m) /\ UNCHANGED <<starts, moves>> => TrustAgree'
  BY <1>0, SaveUserAgree, Zenon
<1>4. Move /\ moves < MaxMoves /\ moves' = moves + 1 /\ UNCHANGED starts => TrustAgree'
  BY <1>0, MoveAgree
<1>5. UNCHANGED trustVars => TrustAgree'
  BY DEF trustVars, votes, TrustAgree, SettledAgree, SureAgree, Agree, Updating, WillAgree,
         ScoreWrite
<1> QED
  BY <1>1, <1>2, <1>3, <1>4, <1>5, TrustSteps, Zenon

\* The batch of scores keeps the two tables of a score together, for any number of
\* members, prices and processes: once a batch has come to its end beside no other
\* (recalculateAllUserTrustScores, its inserts and then its updates), and until one
\* is cut off or overlapped or an older user is saved, users.trustScore and
\* user_trust_scores.trustScore agree for everybody it read.
THEOREM ScoresStayTogether == TrustSpec => []ScoresAgree
<1>1. TrustSpec => []TrustAgree
  <2>1. TrustSpec => []TrustTyped
    BY TrustTypedAlways
  <2> QED
    BY <2>1, TrustAgreeStart, TrustAgreeStep, PTL DEF TrustSpec
<1> QED
  BY <1>1, TrustAgreeMeans, PTL

-----------------------------------------------------------------------------
(* Both. *)

LEMMA AccountsStart == Init => ProfileTyped /\ TrustTyped
BY ProfileTypedStart, TrustTypedStart DEF Init, ProfileAtRest, TrustAtRest

LEMMA AccountsStep == [Next]_vars => [ProfileNext]_profileVars /\ [TrustNext]_trustVars
BY DEF Next, vars

\* Every column, local variable and counter of the two components keeps to its
\* type: a user that is stored has an address and a nickname, a score is a
\* percentage whatever members do between the reads of the batch, and a row of
\* user_trust_scores has a user (PrimaryGeneratedColumn, NOT NULL and the foreign
\* keys of user.entity.ts and user-trust-score.entity.ts).
THEOREM AccountsType == Spec => []TypeOK
<1>1. Spec => [](ProfileTyped /\ TrustTyped)
  <2>1. ProfileTyped /\ TrustTyped /\ [Next]_vars => (ProfileTyped /\ TrustTyped)'
    BY AccountsStep, ProfileTypedStep, TrustTypedStep
  <2> QED
    BY <2>1, AccountsStart, PTL DEF Spec
<1>2. ProfileTyped /\ TrustTyped => TypeOK
  BY ProfileTypedMeans, TrustTypedMeans DEF TypeOK
<1> QED
  BY <1>1, <1>2, PTL
=============================================================================
