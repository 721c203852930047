-------------------------------- MODULE Profile --------------------------------
(***************************************************************************)
(* The row of a user and those who write it: UserService (src/src/user),   *)
(* BadgeService (src/src/badge) and the sign-up of AuthService             *)
(* (src/src/auth).                                                         *)
(*                                                                         *)
(* Some requests load the entity, check it, change it and save it whole:   *)
(* save reads the row again, writes the columns in which the entity        *)
(* differs from it, and inserts the entity if the row is gone.  Others     *)
(* write one column with one UPDATE.  A step is one statement; a slot of   *)
(* Requests runs one request after another.                                *)
(***************************************************************************)
EXTENDS BadgeRules

CONSTANTS
  UserIds,         \* ids of table users, never reused
  Persons,         \* Kakao accounts; each stands for its e-mail address too
  Emails,          \* e-mail addresses
  Nicknames,
  Requests,        \* requests that may run at once
  Choices,         \* badges that users ask for
  Contexts,        \* what the evaluator may find about a user
  NicknameLimit,   \* three days
  BadgeCooldown,   \* one hour
  MaxTime,         \* bound: the clock
  MaxRequests,     \* bound: requests
  NoPerson, NoUserId

ASSUME ProfileAssumption ==
  /\ Persons \subseteq Emails
  /\ Choices \subseteq {b.id : b \in Badges}
  /\ NicknameLimit \in Nat \ {0} /\ BadgeCooldown \in Nat \ {0}
  /\ MaxTime \in Nat /\ MaxRequests \in Nat
  /\ BadgeCooldown <= NicknameLimit /\ NicknameLimit <= MaxTime
  /\ NoPerson \notin Emails /\ NoPerson \notin Nicknames
  /\ NoUserId \notin UserIds \cup Requests

VARIABLES
  profile,   \* rows of users, each with its row of user_oauths
  request,   \* the local variables of each request
  clock,
  asked,     \* requests so far
  wanted,    \* history: each row as its last intended writes would leave it
  stale,     \* history: columns written while another request held the entity
  rivals     \* history: persons of whom two first logins overlapped

profileVars == <<profile, request, clock, asked, wanted, stale, rivals>>

NoBadge == 0

\* fcmToken, the two notification settings and trustScore are one column, setting:
\* each is written alone, by one UPDATE. Of the image, whether its user chose it.
\* A time of 0 is NULL.
Columns == {"email", "nickname", "nicknameAt", "badge", "badgeAt", "image", "setting"}

Fields == Columns \cup {"state", "oauth"}

Blank(state) ==
  [state |-> state, oauth |-> NoPerson, email |-> NoPerson, nickname |-> NoPerson,
   nicknameAt |-> 0, badge |-> NoBadge, badgeAt |-> 0, image |-> "kakao", setting |-> FALSE]

NewUser(person, email, nickname) ==
  [Blank("stored") EXCEPT !.oauth = person, !.email = email, !.nickname = nickname]

Waiting == [pc |-> "idle", user |-> NoUserId, seen |-> Blank("unused"),
            means |-> {}, dirty |-> {}]

UserRow == [state      : {"unused", "stored", "removed"},
            oauth      : Persons \cup {NoPerson},
            email      : Emails \cup {NoPerson},
            nickname   : Nicknames \cup {NoPerson},
            nicknameAt : 0..MaxTime,
            badge      : Choices \cup {NoBadge},
            badgeAt    : 0..MaxTime,
            image      : {"kakao", "own"},
            setting    : BOOLEAN]

ProfileTypeOK ==
  /\ profile \in [UserIds -> UserRow]
  /\ \A u \in UserIds : profile[u].state = "stored" =>     \* NOT NULL
       profile[u].email \in Emails /\ profile[u].nickname \in Nicknames
  /\ request \in [Requests ->
       [pc    : {"idle", "check", "evaluate", "reload", "write", "reinsert", "sync", "signup"},
        user  : UserIds \cup {NoUserId},
        seen  : UserRow,
        means : SUBSET Columns,
        dirty : SUBSET Columns]]
  /\ clock \in 0..MaxTime
  /\ asked \in 0..MaxRequests
  /\ wanted \in [UserIds -> UserRow]
  /\ stale \in [UserIds -> SUBSET Fields]
  /\ rivals \subseteq Persons

ProfileInit ==
  /\ \E S \in {{}} \cup {{u} : u \in UserIds}, p \in Persons, n \in Nicknames :   \* one or none
       profile = [u \in UserIds |-> IF u \in S THEN NewUser(p, p, n) ELSE Blank("unused")]
  /\ request = [c \in Requests |-> Waiting]
  /\ clock = NicknameLimit
  /\ asked = 0
  /\ wanted = profile
  /\ stale = [u \in UserIds |-> {}]
  /\ rivals = {}

-----------------------------------------------------------------------------
Stored(u) == profile[u].state = "stored"

Pc(c, where) == request[c].pc = where

Answer(c) == request' = [request EXCEPT ![c] = Waiting]

Refuse(c) == Answer(c) /\ UNCHANGED <<profile, clock, asked, wanted, stale, rivals>>

Goto(c, where) ==
  /\ request' = [request EXCEPT ![c].pc = where]
  /\ UNCHANGED <<profile, clock, asked, wanted, stale, rivals>>

Begin == asked < MaxRequests /\ asked' = asked + 1

\* Faulty variant: email is not unique.
NicknameTaken(u, e, n) == \E v \in UserIds \ {u} : Stored(v) /\ profile[v].nickname = n

\* email and nickname are unique.
Taken(u, e, n) ==
  \E v \in UserIds \ {u} : Stored(v) /\ (profile[v].email = e \/ profile[v].nickname = n)

\* A request means to write fields ks of user u as in row w.
Means(u, ks, w) ==
  wanted' = [wanted EXCEPT ![u] = [k \in Fields |-> IF k \in ks THEN w[k] ELSE @[k]]]

\* Request c, if it is one that holds u, writes fields ks of the row. Another that
\* holds the entity now knows an old row; otherwise the write settles them.
Settles(c, u, ks) ==
  stale' = [stale EXCEPT ![u] =
    IF \E d \in Requests \ {c} : request[d].user = u THEN @ \cup ks ELSE @ \ ks]

\* A request loads user u; e is what it makes of the entity, means what it changed.
LoadUser(c, u, where, e, means) ==
  /\ Pc(c, "idle")
  /\ Stored(u)
  /\ Begin
  /\ request' = [request EXCEPT ![c] =
       [pc |-> where, user |-> u, seen |-> e, means |-> means, dirty |-> {}]]
  /\ UNCHANGED <<profile, clock, wanted, stale, rivals>>

-----------------------------------------------------------------------------
(* Requests that save the entity *)

\* Faulty variant: the limit is not checked.
StartNicknameAnytime(c, u, n) ==
  LoadUser(c, u, "check", [profile[u] EXCEPT !.nickname = n, !.nicknameAt = clock],
           {"nickname", "nicknameAt"})

\* updateNickname: the limit, and whether the name must be looked up.
StartNickname(c, u, n) ==
  /\ clock - profile[u].nicknameAt >= NicknameLimit
  /\ LoadUser(c, u, IF profile[u].nickname = n THEN "reload" ELSE "check",
              [profile[u] EXCEPT !.nickname = n, !.nicknameAt = clock],
              {"nickname", "nicknameAt"})

\* updateNickname: checkNicknameAvailable.
CheckNickname(c) ==
  /\ Pc(c, "check")
  /\ IF \E u \in UserIds : Stored(u) /\ profile[u].nickname = request[c].seen.nickname
     THEN Refuse(c)
     ELSE Goto(c, "reload")

\* setRepresentativeBadge, of another badge than the present one: the cool-down.
StartBadge(c, u, b) ==
  /\ profile[u].badge # b
  /\ clock - profile[u].badgeAt >= BadgeCooldown
  /\ LoadUser(c, u, IF b = NoBadge THEN "reload" ELSE "evaluate",
              [profile[u] EXCEPT !.badge = b, !.badgeAt = clock], {"badge", "badgeAt"})

\* setRepresentativeBadge: getEarnedBadgeIds reads the user and three counts.
EvaluateBadge(c) ==
  /\ Pc(c, "evaluate")
  /\ \E ctx \in Contexts :
       IF Stored(request[c].user) /\ request[c].seen.badge \in EarnedIds(ctx)
       THEN Goto(c, "reload")
       ELSE Refuse(c)

\* update: any of the columns of UpdateUserDto.
StartPatch(c, u) ==
  \/ \E e \in Emails :
       LoadUser(c, u, "reload", [profile[u] EXCEPT !.email = e], {"email"})
  \/ \E n \in Nicknames :
       LoadUser(c, u, "reload", [profile[u] EXCEPT !.nickname = n], {"nickname"})
  \/ LoadUser(c, u, "reload", [profile[u] EXCEPT !.image = "own"], {"image"})

\* save, the read.
ReloadUser(c) ==
  LET r == request[c]
      row == profile[r.user] IN
  /\ Pc(c, "reload")
  /\ request' = [request EXCEPT
       ![c].pc = IF Stored(r.user) THEN "write" ELSE "reinsert",
       ![c].dirty = IF Stored(r.user) THEN {k \in Columns : r.seen[k] # row[k]} ELSE {}]
  /\ UNCHANGED <<profile, clock, asked, wanted, stale, rivals>>

\* save, the UPDATE; a row removed since is not missed.
WriteUser(c) ==
  LET r == request[c]
      row == profile[r.user]
      new == [k \in Fields |-> IF k \in r.dirty THEN r.seen[k] ELSE row[k]] IN
  /\ Pc(c, "write")
  /\ IF ~ Stored(r.user) \/ Taken(r.user, new.email, new.nickname)
     THEN Refuse(c)
     ELSE /\ profile' = [profile EXCEPT ![r.user] = new]
          /\ Means(r.user, r.means, r.seen)
          /\ Settles(c, r.user, r.means \cap r.dirty)
          /\ Answer(c)
          /\ UNCHANGED <<clock, asked, rivals>>

\* save, the INSERT of a user who is gone: the row comes back without its
\* user_oauths.
ReinsertUser(c) ==
  LET r == request[c] IN
  /\ Pc(c, "reinsert")
  /\ IF Stored(r.user) \/ Taken(r.user, r.seen.email, r.seen.nickname)
     THEN Refuse(c)
     ELSE /\ profile' = [profile EXCEPT ![r.user] = [r.seen EXCEPT !.oauth = NoPerson]]
          /\ stale' = [stale EXCEPT ![r.user] = Fields]
          /\ Answer(c)
          /\ UNCHANGED <<clock, asked, wanted, rivals>>

-----------------------------------------------------------------------------
(* Login *)

\* Faulty variant: every login writes the image.
KeepsNoImage(u) == FALSE

KeepsImage(u) == profile[u].image = "own"

\* findOrCreateUser: existing. An image of one's own is kept; otherwise the one of
\* Kakao is written. Without an account the person signs up.
FindOauth(c, p) ==
  LET known == {u \in UserIds : Stored(u) /\ profile[u].oauth = p} IN
  /\ Pc(c, "idle")
  /\ Begin
  /\ \/ \E u \in known :
          /\ ~ KeepsImage(u)
          /\ request' = [request EXCEPT ![c] = [Waiting EXCEPT !.pc = "sync", !.user = u]]
          /\ UNCHANGED rivals
     \/ \E n \in Nicknames :
          /\ known = {}
          /\ request' = [request EXCEPT ![c] =
               [Waiting EXCEPT !.pc = "signup", !.seen = NewUser(p, p, n)]]
          /\ rivals' = IF \E d \in Requests : Pc(d, "signup") /\ request[d].seen.oauth = p
                       THEN rivals \cup {p} ELSE rivals
  /\ UNCHANGED <<profile, clock, wanted, stale>>

\* findOrCreateUser: the update of profileImageUrl.
SyncImage(c) ==
  LET u == request[c].user IN
  /\ Pc(c, "sync")
  /\ IF ~ Stored(u)
     THEN Refuse(c)
     ELSE /\ profile' = [profile EXCEPT ![u].image = "kakao"]
          /\ Answer(c)
          /\ UNCHANGED <<clock, asked, wanted, stale, rivals>>

\* findOrCreateUser: the transaction that inserts the user and its user_oauths, or
\* neither.
SignUpUser(c) ==
  LET e == request[c].seen IN
  /\ Pc(c, "signup")
  /\ IF Taken(NoUserId, e.email, e.nickname)
     THEN Refuse(c)
     ELSE /\ \E u \in UserIds :
               /\ profile[u].state = "unused"
               /\ profile' = [profile EXCEPT ![u] = e]
               /\ wanted' = [wanted EXCEPT ![u] = e]
          /\ Answer(c)
          /\ UNCHANGED <<clock, asked, stale, rivals>>

-----------------------------------------------------------------------------
(* Requests of one statement *)

\* create, by an administrator: a user without a Kakao account.
CreateUser(u, e, n) ==
  /\ Begin
  /\ profile[u].state = "unused"
  /\ ~ Taken(u, e, n)
  /\ profile' = [profile EXCEPT ![u] = NewUser(NoPerson, e, n)]
  /\ wanted' = [wanted EXCEPT ![u] = NewUser(NoPerson, e, n)]
  /\ UNCHANGED <<request, clock, stale, rivals>>

\* updateFcmToken, updateNotificationSettings; the nightly batch writes trustScore.
UpdateSetting(u) ==
  /\ Begin
  /\ Stored(u)
  /\ profile' = [profile EXCEPT ![u].setting = ~ @]
  /\ Means(u, {"setting"}, profile'[u]) /\ Settles(NoUserId, u, {"setting"})
  /\ UNCHANGED <<request, clock, rivals>>

\* deleteAccount, and remove by an administrator: user_oauths goes with the row.
DeleteUser(u) ==
  /\ Begin
  /\ Stored(u)
  /\ profile' = [profile EXCEPT ![u] = Blank("removed")]
  /\ Means(u, Fields, profile'[u]) /\ Settles(NoUserId, u, Fields)
  /\ UNCHANGED <<request, clock, rivals>>

\* The process dies.
CrashRequest(c) == ~ Pc(c, "idle") /\ Refuse(c)

PassTime ==
  /\ clock < MaxTime
  /\ clock' = clock + 1
  /\ UNCHANGED <<profile, request, asked, wanted, stale, rivals>>

ProfileStatement(c) ==
  \/ CheckNickname(c) \/ EvaluateBadge(c) \/ ReloadUser(c) \/ WriteUser(c)
  \/ ReinsertUser(c) \/ SyncImage(c) \/ SignUpUser(c)

ProfileStart(c) ==
  \/ \E u \in UserIds, n \in Nicknames : StartNickname(c, u, n)
  \/ \E u \in UserIds, b \in Choices \cup {NoBadge} : StartBadge(c, u, b)
  \/ \E u \in UserIds : StartPatch(c, u)
  \/ \E p \in Persons : FindOauth(c, p)

ProfileNext ==
  \/ \E c \in Requests : ProfileStart(c) \/ ProfileStatement(c) \/ CrashRequest(c)
  \/ \E u \in UserIds, e \in Emails, n \in Nicknames : CreateUser(u, e, n)
  \/ \E u \in UserIds : UpdateSetting(u) \/ DeleteUser(u)
  \/ PassTime

ProfileSpec == ProfileInit /\ [][ProfileNext]_profileVars

-----------------------------------------------------------------------------
\* Whatever was last written to a field of a user stands - the settings, the
\* image, the deletion itself - unless somebody who had loaded the user before
\* that write was still at work: only then may a save bring an old value, or the
\* whole row, back.
UnracedWritesStand ==
  \A u \in UserIds, k \in Fields :
    profile[u][k] # wanted[u][k] => k \in stale[u]

\* The step is the write of a PATCH that was sent a nickname (user.service.ts:96).
PatchesNickname(u) ==
  /\ \E c \in Requests :
       /\ Pc(c, "write") /\ Pc(c, "idle")'
       /\ request[c].user = u /\ request[c].means = {"nickname"}
  /\ wanted'[u].nicknameAt = wanted[u].nicknameAt

\* Nobody means to change a stored nickname, or its time, within three days of the
\* time set last, nor a badge or its time within an hour - except by a PATCH, which
\* knows no limit of the nickname and leaves its time alone, and unless that time
\* was stale: the request had loaded, or a save brought back, an older one.
LimitsHold ==
  [][\A u \in UserIds :
       wanted[u].state = "stored" /\ wanted'[u].state = "stored" =>
         /\ \/ /\ wanted'[u].nickname = wanted[u].nickname
               /\ wanted'[u].nicknameAt = wanted[u].nicknameAt
            \/ wanted'[u].nicknameAt - wanted[u].nicknameAt >= NicknameLimit
            \/ PatchesNickname(u)
            \/ "nicknameAt" \in stale[u]
         /\ \/ /\ wanted'[u].badge = wanted[u].badge
               /\ wanted'[u].badgeAt = wanted[u].badgeAt
            \/ wanted'[u].badgeAt - wanted[u].badgeAt >= BadgeCooldown
            \/ "badgeAt" \in stale[u]]_profileVars

Renames(u) == Stored(u) /\ Stored(u)' /\ profile'[u].nickname # profile[u].nickname

\* Thirty days, NicknameLimit being three.
DocumentedLimit == 10 * NicknameLimit

\* PROGRESS.md:24 and PROJECT.md:94: a nickname that was changed is changed again,
\* by the request that keeps its time, only thirty days later.
OneNicknamePerMonth ==
  [][\A u \in UserIds :
       /\ Renames(u)
       /\ profile[u].nicknameAt # 0 /\ profile'[u].nicknameAt # profile[u].nicknameAt
       => clock - profile[u].nicknameAt >= DocumentedLimit]_profileVars

\* No two users share an address or a nickname, and a person has one account
\* unless two first logins overlapped: the address that should refuse the second
\* may have been changed in between.
OneAccountPerPerson ==
  \A u, v \in UserIds :
    u # v /\ Stored(u) /\ Stored(v) =>
      /\ profile[u].email # profile[v].email
      /\ profile[u].nickname # profile[v].nickname
      /\ profile[u].oauth = profile[v].oauth => profile[u].oauth \in rivals \cup {NoPerson}
=============================================================================
