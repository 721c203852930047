----------------------------- MODULE MarketProofs -----------------------------
(***************************************************************************)
(* What surrounds the prices, for any users, products, stores, prices and  *)
(* bounds: what reaches a user, which is the news of a badge, the pushes   *)
(* of a flyer or a price and the listing of the notifications; what is     *)
(* offered, which is the stores, the products and the search; and how the  *)
(* prices are read while they change.                                      *)
(***************************************************************************)
EXTENDS MCMarket, SumLemmas, NaturalsInduction, FunctionTheorems, SequenceTheorems

-----------------------------------------------------------------------------
(* Badges.  What is announced once is a threshold that nothing disturbed:  *)
(* before it is reached nobody speaks of it, and from then on either one   *)
(* check is on its way to announce it or the announcement is there.        *)

\* The checks that will announce threshold t to u if nothing comes between.
Bringing(c, u, t) ==
  /\ check[c].verifier = u
  /\ \/ check[c].pc = "count" /\ verifications[u] = t
     \/ check[c].pc \in {"load", "save"} /\ check[c].threshold = t

CheckType ==
  [pc : {"idle", "count", "load", "save"}, verifier : Verifiers \cup {NoVerifier},
   threshold : Thresholds \cup {0}]

\* The bounds of the instances left out.
TableTypes ==
  /\ verifications \in [Verifiers -> Nat]
  /\ check \in [Checks -> CheckType]
  /\ \A c \in Checks : check[c].pc # "idle" => check[c].verifier \in Verifiers
  /\ \A c \in Checks : check[c].pc = "idle" => check[c].verifier = NoVerifier
  /\ \A c \in Checks : check[c].pc \in {"load", "save"} => check[c].threshold \in Thresholds
  /\ news \in [Verifiers -> [Thresholds -> Nat]]
  /\ disturbed \in [Verifiers -> SUBSET Thresholds]

Ahead(u, t) ==
  verifications[u] < t => news[u][t] = 0 /\ \A c \in Checks : ~ Bringing(c, u, t)

OneBrings(u, t) ==
  \A c, d \in Checks : Bringing(c, u, t) /\ Bringing(d, u, t) => c = d

NewsOnce(u, t) ==
  news[u][t] = 0 \/ (news[u][t] = 1 /\ \A c \in Checks : ~ Bringing(c, u, t))

Told(u, t) ==
  verifications[u] >= t => news[u][t] = 1 \/ \E c \in Checks : Bringing(c, u, t)

Announced(u, t) == Ahead(u, t) /\ OneBrings(u, t) /\ NewsOnce(u, t) /\ Told(u, t)

IInv ==
  /\ TableTypes
  /\ \A u \in Verifiers \ closed : \A t \in Thresholds \ disturbed[u] : Announced(u, t)

-----------------------------------------------------------------------------
\* At first nothing is verified, and no threshold is 0.
LEMMA InitIInv == BadgeAlertsInit => IInv
<1> USE BadgeAlertsAssumption
<1> SUFFICES ASSUME BadgeAlertsInit PROVE IInv
  OBVIOUS
<1>1. TableTypes
  BY DEF BadgeAlertsInit, TableTypes, CheckType, NoCheck
<1>2. ASSUME NEW u \in Verifiers, NEW t \in Thresholds PROVE Announced(u, t)
  <2>1. t \in Nat /\ t > 0 /\ verifications[u] = 0 /\ news[u][t] = 0
    BY DEF BadgeAlertsInit
  <2>2. \A c \in Checks : ~ Bringing(c, u, t)
    BY DEF BadgeAlertsInit, Bringing, NoCheck
  <2> QED
    BY <2>1, <2>2 DEF Announced, Ahead, OneBrings, NewsOnce, Told
<1> QED
  BY <1>1, <1>2 DEF IInv

\* What no check of a user, no count and no news of theirs changes stays announced.
LEMMA SameAnnounced ==
  ASSUME NEW u, NEW t, Announced(u, t),
         verifications'[u] = verifications[u], news'[u][t] = news[u][t],
         \A c \in Checks : Bringing(c, u, t)' <=> Bringing(c, u, t)
  PROVE  Announced(u, t)'
  BY DEF Announced, Ahead, OneBrings, NewsOnce, Told

\* One check changes, and the other tables keep their types.
LEMMA CheckTyped ==
  ASSUME TableTypes, NEW c \in Checks,
         check' \in [Checks -> CheckType], \A d \in Checks \ {c} : check'[d] = check[d],
         IF check'[c].pc = "idle" THEN check'[c].verifier = NoVerifier
                                  ELSE check'[c].verifier \in Verifiers,
         check'[c].pc \in {"load", "save"} => check'[c].threshold \in Thresholds,
         verifications' \in [Verifiers -> Nat],
         news' \in [Verifiers -> [Thresholds -> Nat]],
         disturbed' \in [Verifiers -> SUBSET Thresholds]
  PROVE  TableTypes'
  BY DEF TableTypes

LEMMA NoCheckTyped ==
  /\ NoCheck \in CheckType /\ NoCheck.pc = "idle" /\ NoCheck.verifier = NoVerifier
  BY DEF NoCheck, CheckType

\* A verification commits.
LEMMA VerifyStep ==
  ASSUME IInv, NEW c \in Checks, NEW v \in Verifiers, Verify(c, v)
  PROVE  IInv'
<1> USE BadgeAlertsAssumption
<1>1. TableTypes'
  <2> DEFINE k == [NoCheck EXCEPT !.pc = "count", !.verifier = v]
  <2>1. k \in CheckType /\ k.pc = "count" /\ k.verifier = v
    BY DEF NoCheck, CheckType
  <2>2. check' = [check EXCEPT ![c] = k]
    BY DEF Verify
  <2> HIDE DEF k
  <2>3. check' \in [Checks -> CheckType] /\ check'[c] = k
    BY <2>1, <2>2 DEF IInv, TableTypes
  <2>4. /\ verifications' \in [Verifiers -> Nat]
        /\ news' \in [Verifiers -> [Thresholds -> Nat]]
        /\ disturbed' \in [Verifiers -> SUBSET Thresholds]
    BY DEF IInv, TableTypes, Verify, Disturbs
  <2> QED
    BY <2>1, <2>2, <2>3, <2>4, CheckTyped DEF IInv, TableTypes
<1>2. ASSUME NEW u \in Verifiers \ closed', NEW t \in Thresholds \ disturbed'[u]
      PROVE  Announced(u, t)'
  <2>1. /\ u \in Verifiers \ closed /\ t \in Thresholds \ disturbed[u] /\ t \in Nat
        /\ Announced(u, t) /\ news' = news /\ verifications[u] \in Nat
        /\ check[c].verifier = NoVerifier
    BY DEF IInv, TableTypes, Verify, Disturbs
  <2>2. \A d \in Checks \ {c} : check'[d] = check[d]
    BY DEF IInv, TableTypes, Verify
  <2>3. check'[c].pc = "count" /\ check'[c].verifier = v
    BY DEF IInv, TableTypes, Verify, NoCheck
  <2>4. CASE u # v
    <3>1. verifications'[u] = verifications[u]
      BY <2>4 DEF IInv, TableTypes, Verify
    <3>2. \A d \in Checks : Bringing(d, u, t)' <=> Bringing(d, u, t)
      BY <2>1, <2>2, <2>3, <2>4, <3>1 DEF Bringing
    <3> QED
      BY <2>1, <3>1, <3>2, SameAnnounced
  <2>5. CASE u = v
    <3>1. verifications'[u] = verifications[u] + 1
      BY <2>5 DEF IInv, TableTypes, Verify
    <3>2. t \in {verifications[u], verifications[u] + 1} =>
            \A d \in Checks : check[d].verifier = u => check[d].pc # "count"
      BY <2>1, <2>5 DEF IInv, TableTypes, Verify, Disturbs, CheckOf
    <3>3. ~ Bringing(c, u, t)
      BY <2>1 DEF Bringing
    <3>4. Bringing(c, u, t)' <=> verifications[u] + 1 = t
      BY <2>3, <2>5, <3>1 DEF Bringing
    <3>5. \A d \in Checks \ {c} : Bringing(d, u, t)' <=> Bringing(d, u, t)
      BY <2>1, <2>2, <3>1, <3>2 DEF Bringing
    <3>6. CASE verifications[u] + 1 = t
      BY <2>1, <3>1, <3>3, <3>4, <3>5, <3>6 DEF Announced, Ahead, OneBrings, NewsOnce, Told
    <3>7. CASE verifications[u] + 1 # t
      <4>1. \A d \in Checks : Bringing(d, u, t)' <=> Bringing(d, u, t)
        BY <3>3, <3>4, <3>5, <3>7
      <4> QED
        BY <2>1, <3>1, <3>7, <4>1 DEF Announced, Ahead, OneBrings, NewsOnce, Told
    <3> QED
      BY <3>6, <3>7
  <2> QED
    BY <2>4, <2>5
<1> QED
  BY <1>1, <1>2 DEF IInv

\* A check moves on, or ends where it would have announced nothing.
LEMMA CheckStep ==
  ASSUME IInv, NEW c \in Checks, CountVerifications(c) \/ LoadVerifier(c)
  PROVE  IInv'
<1> USE BadgeAlertsAssumption
<1>0. check[c].verifier \in Verifiers
  BY DEF IInv, TableTypes, CountVerifications, LoadVerifier
<1>1. TableTypes'
  <2> USE DEF IInv, TableTypes
  <2>0. ASSUME check' \in [Checks -> CheckType], \A d \in Checks \ {c} : check'[d] = check[d],
               IF check'[c].pc = "idle" THEN check'[c].verifier = NoVerifier
                                        ELSE check'[c].verifier \in Verifiers,
               check'[c].pc \in {"load", "save"} => check'[c].threshold \in Thresholds
        PROVE  TableTypes'
    BY <2>0, CheckTyped DEF CountVerifications, LoadVerifier
  <2>1. CASE check' = [check EXCEPT ![c] = NoCheck]
    BY <2>0, <2>1, NoCheckTyped
  <2>2. ASSUME NEW n \in Thresholds,
               check' = [check EXCEPT ![c].pc = "load", ![c].threshold = n]
        PROVE  TableTypes'
    <3>1. check'[c].pc = "load" /\ check'[c].threshold = n /\ check'[c].verifier = check[c].verifier
      BY <2>2 DEF CheckType
    <3>2. [check[c] EXCEPT !.pc = "load", !.threshold = n] \in CheckType
      <4>1. check[c] \in CheckType
        OBVIOUS
      <4> QED
        BY <4>1 DEF CheckType
    <3>3. check' = [check EXCEPT ![c] = [check[c] EXCEPT !.pc = "load", !.threshold = n]]
      BY <2>2
    <3>4. check' \in [Checks -> CheckType]
      BY <3>2, <3>3
    <3> QED
      BY <1>0, <2>0, <2>2, <3>1, <3>4
  <2>3. CASE check[c].pc = "load" /\ check' = [check EXCEPT ![c].pc = "save"]
    <3>1. /\ check'[c].pc = "save" /\ check'[c].threshold = check[c].threshold
          /\ check'[c].verifier = check[c].verifier
      BY <2>3 DEF CheckType
    <3>2. [check[c] EXCEPT !.pc = "save"] \in CheckType
      <4>1. check[c] \in CheckType
        OBVIOUS
      <4> QED
        BY <4>1 DEF CheckType
    <3>3. check' = [check EXCEPT ![c] = [check[c] EXCEPT !.pc = "save"]]
      BY <2>3
    <3>4. check' \in [Checks -> CheckType]
      BY <3>2, <3>3
    <3> QED
      BY <1>0, <2>0, <2>3, <3>1, <3>4
  <2> QED
    BY <2>1, <2>2, <2>3 DEF CountVerifications, LoadVerifier, ReachedThresholds, Forget
<1>2. ASSUME NEW u \in Verifiers \ closed', NEW t \in Thresholds \ disturbed'[u]
      PROVE  Announced(u, t)'
  <2>1. /\ closed' = closed /\ disturbed' = disturbed /\ news' = news
        /\ verifications' = verifications
    BY DEF CountVerifications, LoadVerifier
  <2>2. Announced(u, t) /\ u \in Verifiers \ closed
    BY <2>1 DEF IInv
  <2>3. \A d \in Checks \ {c} : check'[d] = check[d]
    BY DEF IInv, TableTypes, CountVerifications, LoadVerifier, Forget
  <2>4. Bringing(c, u, t)' <=> Bringing(c, u, t)
    <3>0. CASE check' = [check EXCEPT ![c] = NoCheck] /\ ~ Bringing(c, u, t)
      BY <2>2, <3>0 DEF IInv, TableTypes, Bringing, NoCheck
    <3>1. CASE CountVerifications(c)
      <4>1. ASSUME NEW n \in ReachedThresholds(verifications[check[c].verifier]),
                   check' = [check EXCEPT ![c].pc = "load", ![c].threshold = n]
            PROVE  Bringing(c, u, t)' <=> Bringing(c, u, t)
        <5>1. /\ check'[c].verifier = check[c].verifier /\ check'[c].pc = "load"
              /\ check'[c].threshold = verifications[check[c].verifier]
          BY <4>1 DEF IInv, TableTypes, CheckType, ReachedThresholds
        <5> QED
          BY <2>1, <3>1, <5>1 DEF Bringing, CountVerifications
      <4>2. CASE ReachedThresholds(verifications[check[c].verifier]) = {}
        <5>1. check' = [check EXCEPT ![c] = NoCheck]
          BY <3>1, <4>2 DEF CountVerifications, Forget
        <5>2. ~ Bringing(c, u, t)
          BY <3>1, <4>2 DEF CountVerifications, ReachedThresholds, Bringing
        <5> QED
          BY <3>0, <5>1, <5>2
      <4> QED
        BY <3>1, <4>1, <4>2 DEF CountVerifications
    <3>2. CASE LoadVerifier(c)
      <4>1. CASE check[c].verifier \in closed
        BY <2>2, <3>0, <3>2, <4>1 DEF LoadVerifier, Forget, Bringing
      <4>2. CASE check[c].verifier \notin closed
        <5>1. /\ check'[c].verifier = check[c].verifier /\ check'[c].pc = "save"
              /\ check'[c].threshold = check[c].threshold /\ check[c].pc = "load"
          BY <3>2, <4>2 DEF IInv, TableTypes, CheckType, LoadVerifier
        <5> QED
          BY <2>1, <5>1 DEF Bringing
      <4> QED
        BY <4>1, <4>2
    <3> QED
      BY <3>1, <3>2
  <2>5. \A d \in Checks : Bringing(d, u, t)' <=> Bringing(d, u, t)
    BY <2>1, <2>3, <2>4 DEF Bringing
  <2> QED
    BY <2>1, <2>2, <2>5, SameAnnounced
<1> QED
  BY <1>1, <1>2 DEF IInv

\* The one check that brings the news saves it, and is gone.
LEMMA SaveStep ==
  ASSUME IInv, NEW c \in Checks, SaveNews(c)
  PROVE  IInv'
<1> USE BadgeAlertsAssumption
<1> DEFINE v == check[c].verifier
           n == check[c].threshold
<1>0. v \in Verifiers /\ n \in Thresholds /\ check[c].pc = "save"
  BY DEF IInv, TableTypes, SaveNews
<1>3. /\ check' = [check EXCEPT ![c] = NoCheck]
      /\ news' = IF v \in closed THEN news ELSE [news EXCEPT ![v][n] = @ + 1]
      /\ verifications' = verifications /\ closed' = closed /\ disturbed' = disturbed
  BY DEF SaveNews, Forget
<1>1. TableTypes'
  <2>1. ASSUME NEW f \in [Thresholds -> Nat], NEW t \in Thresholds
        PROVE  [f EXCEPT ![t] = @ + 1] \in [Thresholds -> Nat]
    <3>1. f[t] \in Nat
      OBVIOUS
    <3>2. f[t] + 1 \in Nat
      BY <3>1
    <3> QED
      BY <3>2
  <2>2. news \in [Verifiers -> [Thresholds -> Nat]]
    BY DEF IInv, TableTypes
  <2>3. ASSUME NEW u \in Verifiers
        PROVE  news[u] \in [Thresholds -> Nat]
    BY <2>2
  <2>4. [news[v] EXCEPT ![n] = @ + 1] \in [Thresholds -> Nat]
    BY <1>0, <2>1, <2>3
  <2>5. news' \in [Verifiers -> [Thresholds -> Nat]]
    BY <1>0, <1>3, <2>4 DEF IInv, TableTypes
  <2>6. check' \in [Checks -> CheckType] /\ check'[c] = NoCheck
    BY <1>3, NoCheckTyped DEF IInv, TableTypes
  <2> QED
    BY <1>3, <2>5, <2>6, NoCheckTyped, CheckTyped DEF IInv, TableTypes
<1>2. ASSUME NEW u \in Verifiers \ closed', NEW t \in Thresholds \ disturbed'[u]
      PROVE  Announced(u, t)'
  <2>1. u \in Verifiers \ closed /\ t \in Thresholds /\ Announced(u, t)
    BY <1>3 DEF IInv
  <2>2. \A d \in Checks \ {c} : Bringing(d, u, t)' <=> Bringing(d, u, t)
    BY <1>3 DEF IInv, TableTypes, Bringing
  <2>3. ~ Bringing(c, u, t)'
    BY <1>3, <2>1 DEF IInv, TableTypes, Bringing, NoCheck
  <2>4. CASE u = v /\ t = n
    <3>1. Bringing(c, u, t)
      BY <1>0, <2>4 DEF Bringing
    <3>2. news[u][t] = 0 /\ \A d \in Checks \ {c} : ~ Bringing(d, u, t)
      BY <2>1, <3>1 DEF Announced, NewsOnce, OneBrings
    <3>3. news'[u][t] = 1
      BY <1>3, <2>1, <2>4, <3>2 DEF IInv, TableTypes
    <3>4. ~ (verifications[u] < t)
      BY <2>1, <3>1 DEF Announced, Ahead
    <3> QED
      BY <1>3, <2>2, <2>3, <3>2, <3>3, <3>4 DEF Announced, Ahead, OneBrings, NewsOnce, Told
  <2>5. CASE ~ (u = v /\ t = n)
    <3>1. ~ Bringing(c, u, t)
      BY <1>0, <2>5 DEF Bringing
    <3>2. news'[u][t] = news[u][t]
      BY <1>0, <1>3, <2>1, <2>5 DEF IInv, TableTypes
    <3>3. \A d \in Checks : Bringing(d, u, t)' <=> Bringing(d, u, t)
      BY <2>2, <2>3, <3>1
    <3> QED
      BY <1>3, <2>1, <3>2, <3>3, SameAnnounced
  <2> QED
    BY <2>4, <2>5
<1> QED
  BY <1>1, <1>2 DEF IInv

\* A crash disturbs what its check was bringing.
LEMMA CrashStep ==
  ASSUME IInv, NEW c \in Checks, CrashCheck(c)
  PROVE  IInv'
<1> USE BadgeAlertsAssumption
<1> DEFINE v == check[c].verifier
<1>0. v \in Verifiers
  BY DEF IInv, TableTypes, CrashCheck
<1>1. TableTypes'
  <2>1. disturbed' \in [Verifiers -> SUBSET Thresholds]
    BY DEF IInv, TableTypes, CrashCheck, Disturbs
  <2>2. check' \in [Checks -> CheckType] /\ check'[c] = NoCheck
    BY NoCheckTyped DEF IInv, TableTypes, CrashCheck, Forget
  <2> QED
    BY <2>1, <2>2, NoCheckTyped, CheckTyped DEF IInv, TableTypes, CrashCheck, Forget
<1>2. ASSUME NEW u \in Verifiers \ closed', NEW t \in Thresholds \ disturbed'[u]
      PROVE  Announced(u, t)'
  <2>1. /\ u \in Verifiers \ closed /\ t \in Thresholds \ disturbed[u] /\ Announced(u, t)
        /\ news' = news /\ verifications' = verifications
    BY <1>0 DEF IInv, TableTypes, CrashCheck, Disturbs
  <2>2. check' = [check EXCEPT ![c] = NoCheck]
    BY DEF CrashCheck, Forget
  <2>3. ~ Bringing(c, u, t)
    <3>1. CASE u # v
      BY <3>1 DEF Bringing
    <3>2. CASE u = v
      <4>1. t # (IF check[c].pc = "count" THEN verifications[u] ELSE check[c].threshold)
        BY <1>0, <3>2 DEF IInv, TableTypes, CrashCheck, Disturbs
      <4> QED
        BY <4>1 DEF Bringing
    <3> QED
      BY <3>1, <3>2
  <2>4. \A d \in Checks : Bringing(d, u, t)' <=> Bringing(d, u, t)
    BY <2>1, <2>2, <2>3 DEF IInv, TableTypes, Bringing, NoCheck
  <2> QED
    BY <2>1, <2>4, SameAnnounced
<1> QED
  BY <1>1, <1>2 DEF IInv

\* A removal disturbs the number it takes away and those that will be reached again.
LEMMA RemoveStep ==
  ASSUME IInv, NEW us \in SUBSET Verifiers, RemovePrice(us)
  PROVE  IInv'
<1> USE BadgeAlertsAssumption
<1>1. TableTypes'
  BY DEF IInv, TableTypes, CheckType, RemovePrice
<1>2. ASSUME NEW u \in Verifiers \ closed', NEW t \in Thresholds \ disturbed'[u]
      PROVE  Announced(u, t)'
  <2>1. /\ u \in Verifiers \ closed /\ t \in Thresholds \ disturbed[u] /\ t \in Nat
        /\ Announced(u, t) /\ news' = news /\ check' = check /\ verifications[u] \in Nat
    BY DEF IInv, TableTypes, RemovePrice
  <2>2. CASE u \notin us
    <3>1. verifications'[u] = verifications[u]
      BY <2>1, <2>2 DEF RemovePrice
    <3> QED
      BY <2>1, <3>1, SameAnnounced DEF Bringing
  <2>3. CASE u \in us
    <3>1. /\ verifications[u] > 0 /\ verifications'[u] = verifications[u] - 1
          /\ ~ (t >= verifications[u] - 1)
      BY <2>1, <2>3 DEF RemovePrice
    <3>2. \A d \in Checks : Bringing(d, u, t)' <=> Bringing(d, u, t)
      BY <2>1, <3>1 DEF Bringing
    <3> QED
      BY <2>1, <3>1, <3>2 DEF Announced, Ahead, OneBrings, NewsOnce, Told
  <2> QED
    BY <2>2, <2>3
<1> QED
  BY <1>1, <1>2 DEF IInv

\* A deleted account is not spoken of any more.
LEMMA CloseStep ==
  ASSUME IInv, NEW v \in Verifiers, CloseAccount(v)
  PROVE  IInv'
<1>1. TableTypes'
  BY DEF IInv, TableTypes, CheckType, CloseAccount
<1>2. ASSUME NEW u \in Verifiers \ closed', NEW t \in Thresholds \ disturbed'[u]
      PROVE  Announced(u, t)'
  <2>1. /\ u \in Verifiers \ closed /\ t \in Thresholds \ disturbed[u] /\ Announced(u, t)
        /\ u # v /\ check' = check
    BY DEF IInv, CloseAccount
  <2>2. verifications'[u] = verifications[u] /\ news'[u] = news[u]
    BY <2>1 DEF IInv, TableTypes, CloseAccount
  <2> QED
    BY <2>1, <2>2, SameAnnounced DEF Bringing
<1> QED
  BY <1>1, <1>2 DEF IInv

LEMMA StutterStep == IInv /\ UNCHANGED alertVars => IInv'
  BY DEF IInv, alertVars, TableTypes, CheckType, Announced, Ahead, OneBrings, NewsOnce, Told, Bringing

LEMMA Invariance == BadgeAlertsSpec => []IInv
<1>1. IInv /\ [BadgeAlertsNext]_alertVars => IInv'
  BY VerifyStep, CheckStep, SaveStep, CrashStep, RemoveStep, CloseStep, StutterStep
  DEF BadgeAlertsNext
<1> QED
  BY <1>1, InitIInv, PTL DEF BadgeAlertsSpec

\* Every threshold that nothing disturbed is announced once, whatever the thresholds and
\* however many verifications of however many users commit, are counted and are lost in
\* whatever order.
THEOREM AnnouncedOnce == BadgeAlertsSpec => []BadgesAnnouncedOnce
<1>1. IInv => BadgesAnnouncedOnce
  <2> SUFFICES ASSUME IInv, NEW u \in Verifiers \ closed, NEW t \in Thresholds \ disturbed[u]
               PROVE  /\ news[u][t] <= 1
                      /\ CheckOf(u) = {} /\ verifications[u] >= t => news[u][t] = 1
    BY DEF BadgesAnnouncedOnce
  <2>1. Announced(u, t)
    BY DEF IInv
  <2> QED
    BY <2>1 DEF Announced, NewsOnce, Told, Bringing, CheckOf
<1> QED
  BY <1>1, Invariance, PTL

-----------------------------------------------------------------------------
(* Pushes.  The offset of the next page, beside the number of receivers    *)
(* that come before a user, tells whether the user has been reached.       *)

LEMMA RankType ==
  ASSUME NEW S, IsFiniteSet(S), NEW u
  PROVE  /\ Rank(u, S) \in Nat
         /\ IsFiniteSet({v \in S : v < u})
BY FS_Subset, FS_CardinalityType DEF Rank

LEMMA RankGrows ==
  ASSUME NEW S, NEW T, IsFiniteSet(S), IsFiniteSet(T), NEW u, NEW w,
         {v \in S : v < u} \subseteq {v \in T : v < w}
  PROVE  Rank(u, S) <= Rank(w, T)
<1> DEFINE before == {v \in S : v < u}
           after == {v \in T : v < w}
<1>1. IsFiniteSet(after)
  BY RankType
<1>2. before \in SUBSET after
  OBVIOUS
<1> HIDE DEF before, after
<1>3. Cardinality(before) <= Cardinality(after)
  BY <1>1, <1>2, FS_Subset
<1> QED
  BY <1>3 DEF Rank, before, after

LEMMA LastOf ==
  ASSUME NEW L \in SUBSET Nat, IsFiniteSet(L), L # {}
  PROVE  \E w \in L : \A y \in L : y <= w
<1> DEFINE Above(w) == {x \in L : x > w}
           Family == {Above(w) : w \in L}
<1>1. Family \in SUBSET (SUBSET L) /\ Family # {}
  OBVIOUS
<1> HIDE DEF Family
<1>2. PICK T \in Family : \A X \in SUBSET T : X # T => X \notin Family
  BY <1>1, SmallestSet
<1> USE DEF Family
<1>3. PICK w \in L : T = Above(w)
  OBVIOUS
<1>4. ASSUME NEW y \in L, ~ (y <= w) PROVE FALSE
  <2>1. \A x \in L : x \in Nat /\ (x > y => x > w)
    BY <1>4
  <2>a. ~ (y > y) /\ y > w
    BY <1>4, <2>1
  <2>b. \A x \in Above(y) : x \in Above(w)
    BY <2>1
  <2>c. y \in Above(w) /\ y \notin Above(y)
    BY <2>a
  <2>2. Above(y) \in SUBSET T /\ Above(y) # T /\ Above(y) \in Family
    <3> HIDE DEF Above
    <3> QED
      BY <1>3, <2>b, <2>c
  <2> QED
    BY <1>2, <2>2
<1> QED
  BY <1>4

\* If somebody has k before them, k come before the k-th.
LEMMA FirstOnes ==
  ASSUME NEW S \in SUBSET Nat, IsFiniteSet(S), NEW k \in Nat, NEW a \in S, Rank(a, S) >= k
  PROVE  Cardinality({v \in S : Rank(v, S) < k}) = k
<1> DEFINE Lower(u) == {v \in S : v < u}
           Family == {Lower(u) : u \in {x \in S : Rank(x, S) >= k}}
<1>1. Family \in SUBSET (SUBSET S) /\ Family # {}
  OBVIOUS
<1> HIDE DEF Family
<1>2. PICK T \in Family : \A X \in SUBSET T : X # T => X \notin Family
  BY <1>1, SmallestSet
<1> USE DEF Family
<1>3. PICK u \in S : T = Lower(u) /\ Rank(u, S) >= k
  OBVIOUS
<1>4. \A v \in S : Rank(v, S) \in Nat
  BY RankType
<1>5. ASSUME NEW v \in S, v < u PROVE Rank(v, S) < k
  <2> SUFFICES ASSUME Rank(v, S) >= k PROVE FALSE
    BY <1>4
  <2>0. \A x \in S : x \in Nat /\ (x < v => x < u)
    BY <1>5
  <2>a. ~ (v < v) /\ v < u
    BY <1>5, <2>0
  <2>b. \A x \in Lower(v) : x \in Lower(u)
    BY <2>0
  <2>c. v \in Lower(u) /\ v \notin Lower(v)
    BY <2>a
  <2>1. Lower(v) \in SUBSET T /\ Lower(v) # T /\ Lower(v) \in Family
    <3> HIDE DEF Lower
    <3> QED
      BY <1>3, <1>5, <2>b, <2>c
  <2> QED
    BY <1>2, <2>1
<1>6. ASSUME NEW v \in S, ~ (v < u) PROVE ~ (Rank(v, S) < k)
  <2>0. \A x \in S : x \in Nat /\ (x < u => x < v)
    BY <1>6
  <2>1. Lower(u) \subseteq Lower(v)
    BY <2>0
  <2>2. Rank(u, S) <= Rank(v, S)
    BY <2>1, RankGrows
  <2> QED
    BY <1>3, <1>4, <2>2
<1>7. {v \in S : Rank(v, S) < k} = Lower(u) /\ Cardinality(Lower(u)) = Rank(u, S)
  BY <1>5, <1>6 DEF Rank
<1>8. Rank(u, S) <= k
  <2>1. Lower(u) \in SUBSET Nat /\ IsFiniteSet(Lower(u))
    BY FS_Subset
  <2>2. CASE Lower(u) = {}
    BY <1>7, <2>2, FS_EmptySet
  <2>3. CASE Lower(u) # {}
    <3>1. PICK w \in Lower(u) : \A y \in Lower(u) : y <= w
      <4> HIDE DEF Lower
      <4> QED
        BY <2>1, <2>3, LastOf
    <3>a. \A x \in S : x \in Nat /\ (x < u <=> x < w \/ x = w)
      BY <3>1
    <3>b. IsFiniteSet(Lower(w))
      BY FS_Subset
    <3>c. w \in S /\ w < u /\ ~ (w < w)
      BY <3>1, <3>a
    <3>d. \A x : x \in Lower(u) <=> x \in Lower(w) \/ x = w
      BY <3>a, <3>c
    <3>e. w \notin Lower(w)
      BY <3>c
    <3>2. Lower(u) = Lower(w) \cup {w} /\ w \notin Lower(w) /\ IsFiniteSet(Lower(w))
      <4> HIDE DEF Lower
      <4> QED
        BY <3>b, <3>d, <3>e
    <3>3. Cardinality(Lower(u)) = Cardinality(Lower(w)) + 1
      <4> HIDE DEF Lower
      <4> QED
        BY <3>2, FS_AddElement
    <3>4. Cardinality(Lower(w)) = Rank(w, S) /\ Rank(w, S) < k
      BY <1>5, <3>1 DEF Rank
    <3> QED
      BY <1>4, <1>7, <3>3, <3>4
  <2> QED
    BY <2>2, <2>3
<1>9. Rank(u, S) = k
  BY <1>3, <1>4, <1>8
<1> HIDE DEF Lower, Family
<1> QED
  BY <1>7, <1>9

\* If somebody comes after a page, the page is full.
LEMMA PageIsFull ==
  ASSUME NEW S \in SUBSET Nat, IsFiniteSet(S), NEW s \in Nat, NEW n \in Nat,
         NEW a \in S, Rank(a, S) >= s + n
  PROVE  Cardinality({v \in S : Rank(v, S) \in s .. s + n - 1}) = n
<1> DEFINE Early(k) == {v \in S : Rank(v, S) < k}
<1>1. \A v \in S : Rank(v, S) \in Nat
  BY RankType
<1>2. Cardinality(Early(s)) = s /\ Cardinality(Early(s + n)) = s + n
  BY <1>1, FirstOnes
<1> DEFINE Some == {v \in S : Rank(v, S) \in s .. s + n - 1}
<1>b. \A v : /\ v \in Some <=> v \in Early(s + n) /\ v \notin Early(s)
             /\ v \in Early(s) => v \in Early(s + n)
  <2> TAKE v
  <2>1. CASE v \in S
    <3>1. /\ v \in Some <=> Rank(v, S) \in s .. s + n - 1
          /\ v \in Early(s + n) <=> Rank(v, S) < s + n
          /\ v \in Early(s) <=> Rank(v, S) < s
      BY <2>1, Zenon
    <3>2. /\ Rank(v, S) \in s .. s + n - 1 <=> Rank(v, S) < s + n /\ ~ (Rank(v, S) < s)
          /\ Rank(v, S) < s => Rank(v, S) < s + n
      BY <1>1, <2>1
    <3> HIDE DEF Some, Early
    <3> QED
      BY <3>1, <3>2
  <2>2. CASE v \notin S
    BY <2>2, Zenon
  <2> QED
    BY <2>1, <2>2, Zenon
<1>3. /\ Some = Early(s + n) \ Early(s)
      /\ Early(s + n) \cap Early(s) = Early(s)
  <2> HIDE DEF Some, Early
  <2> QED
    BY <1>b
<1>4. IsFiniteSet(Early(s + n))
  BY FS_Subset
<1>5. Cardinality(Early(s + n) \ Early(s)) = (s + n) - s
  <2> HIDE DEF Early
  <2>1. Cardinality(Early(s + n) \ Early(s))
          = Cardinality(Early(s + n)) - Cardinality(Early(s + n) \cap Early(s))
    BY <1>4, FS_Difference
  <2> QED
    BY <1>2, <1>3, <2>1
<1>6. Cardinality(Some) = n
  <2> HIDE DEF Some, Early
  <2> QED
    BY <1>3, <1>5
<1> QED
  BY <1>6

\* A page has as many items as users.
LEMMA PageOfUsers ==
  ASSUME NEW S, IsFiniteSet(S), NEW t
  PROVE  /\ Cardinality({[user |-> u, token |-> t[u]] : u \in S}) = Cardinality(S)
         /\ {item.user : item \in {[user |-> u, token |-> t[u]] : u \in S}} = S
<1> DEFINE page == {[user |-> u, token |-> t[u]] : u \in S}
           f == [u \in S |-> [user |-> u, token |-> t[u]]]
<1>1. f \in Bijection(S, page)
  <2>1. f \in [S -> page]
    OBVIOUS
  <2>2. \A a, b \in S : f[a] = f[b] => a = b
    <3> SUFFICES ASSUME NEW a \in S, NEW b \in S, f[a] = f[b] PROVE a = b
      OBVIOUS
    <3>1. f[a].user = a /\ f[b].user = b
      OBVIOUS
    <3> QED
      BY <3>1
  <2>3. \A item \in page : \E u \in S : f[u] = item
    OBVIOUS
  <2> QED
    BY <2>1, <2>2, <2>3 DEF Bijection, Injection, Surjection, IsInjective
<1>2. Cardinality(page) = Cardinality(S)
  <2> HIDE DEF page, f
  <2> QED
    BY <1>1, FS_Bijection DEF ExistsBijection
<1>3. {item.user : item \in page} = S
  <2>1. ASSUME NEW u \in S PROVE u \in {item.user : item \in page}
    <3>1. [user |-> u, token |-> t[u]] \in page
      OBVIOUS
    <3>2. [user |-> u, token |-> t[u]].user = u
      OBVIOUS
    <3> HIDE DEF page
    <3> QED
      BY <3>1, <3>2
  <2>2. ASSUME NEW item \in page PROVE item.user \in S
    OBVIOUS
  <2> HIDE DEF page
  <2> QED
    BY <2>1, <2>2
<1> QED
  BY <1>2, <1>3

-----------------------------------------------------------------------------
(* What holds of a push r to the receivers R, of whom row tells how many rows each
   has of it and acc the state of the account. *)

PushRecord ==
  [pc : {"idle", "read", "save", "send", "clear", "done", "crashed"}, kind : Kinds,
   registerer : Users \cup {NoReceiver}, skip : Nat,
   page : SUBSET [user : Users, token : Tokens \cup {NoToken}], failed : SUBSET Tokens,
   stayed : SUBSET Users, came : SUBSET Users, gone : SUBSET Users]

InFlight == {"read", "save", "send", "clear"}

OnPage(r) == {item.user : item \in r.page}

Excused(r, u, acc) ==
  \E v \in r.gone : acc[v] = "removed" \/ (r.kind = "flyer" /\ v < u)

Shifted(r, u) == \E v \in r.came : v < u

\* The page is full, and u comes after it.
StillToCome(r, R, u) ==
  /\ r.kind = "flyer"
  /\ Rank(u, R) >= r.skip + BatchSize
  /\ ~ (Cardinality(r.page) < BatchSize)

Noted(r, R, acc, row) ==
  /\ r.pc = "idle" => \A u \in Users : row[u] = 0
  /\ \A v \in r.stayed \cup r.gone : acc[v] # "unused"
  /\ r.pc \in InFlight => r.stayed \subseteq R
  /\ r.pc = "save" => OnPage(r) \subseteq R \cup r.gone

Reaches(r, R, acc, row, u) ==
  u \in r.stayed /\ acc[u] = "stored" /\ row[u] = 0 /\ ~ Excused(r, u, acc) =>
    /\ r.pc # "done"
    /\ r.pc = "read" => r.kind = "price" \/ Rank(u, R) >= r.skip
    /\ r.pc = "save" => u \in OnPage(r) \/ StillToCome(r, R, u)
    /\ r.pc \in {"send", "clear"} => StillToCome(r, R, u)

ReachedOnce(r, R, row, u) ==
  r.kind = "price" \/ ~ Shifted(r, u) =>
    /\ row[u] <= 1
    /\ r.pc \in {"read", "save"} /\ row[u] = 1 => r.kind = "flyer" /\ Rank(u, R) < r.skip
    /\ r.pc = "save" /\ u \in OnPage(r) =>
         row[u] = 0 /\ (r.kind = "price" \/ Rank(u, R) < r.skip + BatchSize)
    /\ r.pc \in {"send", "clear"} /\ row[u] = 1 =>
         r.kind = "price" \/ Rank(u, R) < r.skip + BatchSize

PushOK(r, R, acc, row) ==
  /\ Noted(r, R, acc, row)
  /\ \A u \in Users : Reaches(r, R, acc, row, u) /\ ReachedOnce(r, R, row, u)

\* The receivers of the page that r reads.
SomeOf(r, R, some) ==
  some = IF r.kind = "price" THEN R
         ELSE {u \in R : Rank(u, R) \in r.skip .. r.skip + BatchSize - 1}

\* q is a later state of the push r.
Follows(q, r) ==
  q.kind = r.kind /\ q.stayed = r.stayed /\ q.came = r.came /\ q.gone = r.gone

\* A page read.
LEMMA ReadOK ==
  ASSUME NEW r \in PushRecord, r.pc = "read", NEW R \in SUBSET Users, NEW acc,
         NEW row \in [Users -> Nat], PushOK(r, R, acc, row),
         NEW some \in SUBSET R, SomeOf(r, R, some), NEW q, Follows(q, r),
         q.skip = r.skip, q.pc = IF some = {} THEN "done" ELSE "save",
         OnPage(q) = some, Cardinality(q.page) = Cardinality(some)
  PROVE  PushOK(q, R, acc, row)
<1>1. q.kind = r.kind /\ q.stayed = r.stayed /\ q.came = r.came /\ q.gone = r.gone
  BY DEF Follows
<1>2. IsFiniteSet(R) /\ IsFiniteSet(some)
  BY BroadcastAssumption, FS_Subset
<1>3. \A u \in R : u \in some <=> r.kind = "price" \/ Rank(u, R) \in r.skip .. r.skip + BatchSize - 1
  BY DEF SomeOf
<1>4. Noted(q, R, acc, row)
  BY <1>1, <1>3 DEF PushOK, Noted, InFlight
<1>5. BatchSize \in Nat /\ BatchSize > 0 /\ r.skip \in Nat
  BY BroadcastAssumption DEF PushRecord
<1>a. \A u : Rank(u, R) \in Nat
  BY <1>2, RankType
<1>6. ASSUME NEW u \in Users PROVE Reaches(q, R, acc, row, u)
  <2> SUFFICES ASSUME u \in r.stayed, acc[u] = "stored", row[u] = 0, ~ Excused(r, u, acc)
               PROVE  some # {} /\ (u \in some \/ StillToCome(q, R, u))
    BY <1>1, <1>3 DEF Reaches, Excused
  <2>1. u \in R /\ (r.kind = "price" \/ Rank(u, R) >= r.skip)
    BY DEF PushOK, Noted, Reaches, InFlight
  <2>2. CASE r.kind = "price" \/ Rank(u, R) <= r.skip + BatchSize - 1
    <3>1. r.kind = "price" \/ Rank(u, R) \in r.skip .. r.skip + BatchSize - 1
      <4>1. Rank(u, R) \in Nat
        BY <1>a
      <4> QED
        BY <1>5, <2>1, <2>2, <4>1
    <3>2. u \in some
      BY <1>3, <2>1, <3>1
    <3> QED
      BY <3>2
  <2>3. CASE r.kind # "price" /\ ~ (Rank(u, R) <= r.skip + BatchSize - 1)
    <3>1. Rank(u, R) \in Nat /\ Rank(u, R) >= r.skip + BatchSize
      <4>1. Rank(u, R) \in Nat
        BY <1>a
      <4> QED
        BY <1>5, <2>3, <4>1
    <3>2. R \in SUBSET Nat /\ r.kind = "flyer"
      BY <2>3, BroadcastAssumption DEF PushRecord, Kinds
    <3>3. Cardinality(some) = BatchSize
      BY <1>2, <1>5, <2>1, <2>3, <3>1, <3>2, PageIsFull DEF SomeOf
    <3>4. some # {}
      BY <1>5, <3>3, FS_EmptySet
    <3> QED
      BY <1>1, <1>3, <1>5, <3>1, <3>2, <3>3, <3>4 DEF StillToCome
  <2> QED
    BY <2>2, <2>3
<1>7. ASSUME NEW u \in Users PROVE ReachedOnce(q, R, row, u)
  <2> SUFFICES ASSUME r.kind = "price" \/ ~ Shifted(r, u)
               PROVE  /\ row[u] <= 1
                      /\ row[u] = 1 => r.kind = "flyer" /\ Rank(u, R) < r.skip
                      /\ u \in some =>
                           row[u] = 0 /\ (r.kind = "price" \/ Rank(u, R) < r.skip + BatchSize)
    BY <1>1, <1>3 DEF ReachedOnce, Shifted
  <2>1. /\ row[u] <= 1 /\ row[u] \in Nat
        /\ row[u] = 1 => r.kind = "flyer" /\ Rank(u, R) < r.skip
    BY DEF PushOK, ReachedOnce
  <2>a. Rank(u, R) \in Nat
    BY <1>a
  <2>2. ASSUME u \in some, r.kind # "price"
        PROVE  Rank(u, R) >= r.skip /\ Rank(u, R) < r.skip + BatchSize
    <3>1. Rank(u, R) \in r.skip .. r.skip + BatchSize - 1
      BY <1>3, <2>2
    <3> QED
      BY <1>5, <2>a, <3>1
  <2>3. row[u] = 0 \/ row[u] = 1
    BY <2>1
  <2>4. r.kind = "price" => r.kind # "flyer"
    OBVIOUS
  <2>5. u \in some /\ row[u] = 1 => FALSE
    BY <1>5, <2>a, <2>1, <2>2, <2>4
  <2> QED
    BY <2>1, <2>2, <2>3, <2>5
<1> QED
  BY <1>4, <1>6, <1>7 DEF PushOK

\* A page saved, whole or not at all.
LEMMA SaveOK ==
  ASSUME NEW r \in PushRecord, r.pc = "save", NEW R \in SUBSET Users, NEW acc,
         NEW row \in [Users -> Nat], PushOK(r, R, acc, row),
         \A u \in R : acc[u] = "stored",
         \A u \in Users : acc[u] \in {"unused", "stored", "removed"},
         NEW new,
         new = [u \in Users |->
                 IF u \in OnPage(r) /\ \A v \in OnPage(r) : acc[v] = "stored"
                 THEN row[u] + 1 ELSE row[u]]
  PROVE  PushOK([r EXCEPT !.pc = "send"], R, acc, new)
<1> DEFINE q == [r EXCEPT !.pc = "send"]
<1>1. /\ q.kind = r.kind /\ q.skip = r.skip /\ q.page = r.page
      /\ q.stayed = r.stayed /\ q.came = r.came /\ q.gone = r.gone /\ q.pc = "send"
  BY DEF PushRecord
<1> HIDE DEF q
<1>2. Noted(q, R, acc, new)
  BY <1>1 DEF PushOK, Noted, InFlight
<1>3. \A u \in Users : Reaches(r, R, acc, row, u) /\ ReachedOnce(r, R, row, u)
  BY DEF PushOK
<1>4. ASSUME NEW u \in Users PROVE Reaches(q, R, acc, new, u)
  <2> SUFFICES ASSUME u \in r.stayed, acc[u] = "stored", new[u] = 0, ~ Excused(r, u, acc)
               PROVE  StillToCome(r, R, u)
    BY <1>1 DEF Reaches, Excused, StillToCome
  <2>1. row[u] = 0
    OBVIOUS
  <2>2. u \in OnPage(r) \/ StillToCome(r, R, u)
    BY <1>3, <2>1 DEF Reaches
  <2>3. ASSUME u \in OnPage(r) PROVE FALSE
    <3>1. PICK v \in OnPage(r) : acc[v] # "stored"
      BY <2>1, <2>3
    <3>2. v \in r.gone /\ v \in Users /\ acc[v] # "unused"
      BY <3>1 DEF PushOK, Noted, PushRecord
    <3> QED
      BY <3>1, <3>2 DEF Excused
  <2> QED
    BY <2>2, <2>3
<1>5. ASSUME NEW u \in Users PROVE ReachedOnce(q, R, new, u)
  <2> SUFFICES ASSUME r.kind = "price" \/ ~ Shifted(r, u)
               PROVE  /\ new[u] <= 1
                      /\ new[u] = 1 => r.kind = "price" \/ Rank(u, R) < r.skip + BatchSize
    BY <1>1 DEF ReachedOnce, Shifted
  <2>1. /\ row[u] <= 1 /\ row[u] \in Nat
        /\ row[u] = 1 => r.kind = "flyer" /\ Rank(u, R) < r.skip
        /\ u \in OnPage(r) => row[u] = 0 /\ (r.kind = "price" \/ Rank(u, R) < r.skip + BatchSize)
    BY <1>3 DEF ReachedOnce
  <2>2. Rank(u, R) \in Nat /\ r.skip \in Nat /\ BatchSize \in Nat
    BY BroadcastAssumption, FS_Subset, RankType DEF PushRecord
  <2>3. CASE new[u] = row[u]
    BY <2>1, <2>2, <2>3
  <2>4. CASE u \in OnPage(r) /\ new[u] = row[u] + 1
    BY <2>1, <2>4
  <2> QED
    BY <2>3, <2>4
<1> QED
  BY <1>2, <1>4, <1>5 DEF PushOK, q

\* On to the next page.
LEMMA NextOK ==
  ASSUME NEW r \in PushRecord, r.pc \in {"send", "clear"}, NEW R \in SUBSET Users, NEW acc,
         NEW row \in [Users -> Nat], PushOK(r, R, acc, row), NEW q, Follows(q, r),
         q.pc = IF r.kind = "price" \/ Cardinality(r.page) < BatchSize THEN "done" ELSE "read",
         q.skip = IF r.kind = "price" THEN r.skip ELSE r.skip + BatchSize
  PROVE  PushOK(q, R, acc, row)
<1>1. q.kind = r.kind /\ q.stayed = r.stayed /\ q.came = r.came /\ q.gone = r.gone
  BY DEF Follows
<1>2. Noted(q, R, acc, row)
  BY <1>1 DEF PushOK, Noted, InFlight
<1>3. ASSUME NEW u \in Users PROVE Reaches(q, R, acc, row, u)
  <2> SUFFICES ASSUME u \in r.stayed, acc[u] = "stored", row[u] = 0, ~ Excused(r, u, acc)
               PROVE  q.pc = "read" /\ Rank(u, R) >= q.skip
    BY <1>1 DEF Reaches, Excused
  <2>1. StillToCome(r, R, u)
    BY DEF PushOK, Reaches
  <2> QED
    BY <2>1 DEF StillToCome
<1>4. ASSUME NEW u \in Users PROVE ReachedOnce(q, R, row, u)
  <2> SUFFICES ASSUME r.kind = "price" \/ ~ Shifted(r, u)
               PROVE  /\ row[u] <= 1
                      /\ q.pc = "read" /\ row[u] = 1 => r.kind = "flyer" /\ Rank(u, R) < q.skip
    BY <1>1 DEF ReachedOnce, Shifted
  <2>1. /\ row[u] <= 1
        /\ row[u] = 1 => r.kind = "price" \/ Rank(u, R) < r.skip + BatchSize
    BY DEF PushOK, ReachedOnce
  <2>2. q.pc = "read" => r.kind = "flyer"
    BY DEF PushRecord, Kinds
  <2> QED
    BY <2>1, <2>2
<1> QED
  BY <1>2, <1>3, <1>4 DEF PushOK

\* What a user does: u comes to the receivers, leaves them, or neither.
LEMMA ShiftOK ==
  ASSUME NEW r \in PushRecord, NEW q \in PushRecord,
         q.pc = r.pc, q.kind = r.kind, q.skip = r.skip, q.page = r.page,
         NEW R \in SUBSET Users, NEW S \in SUBSET Users,
         NEW acc, NEW after, NEW row \in [Users -> Nat], NEW new \in [Users -> Nat],
         NEW u \in Users,
         \A v \in Users \ {u} : (v \in S <=> v \in R) /\ after[v] = acc[v] /\ new[v] = row[v],
         r.pc \in InFlight =>
           /\ q.stayed \subseteq r.stayed
           /\ u \in q.stayed => u \in S
           /\ r.came \subseteq q.came /\ S \ R \subseteq q.came
           /\ r.gone \subseteq q.gone /\ R \ S \subseteq q.gone
           /\ q.gone \subseteq r.gone \cup {u}
           /\ u \in q.gone \ r.gone => after[u] # "unused",
         r.pc \notin InFlight =>
           q.stayed = r.stayed /\ q.came = r.came /\ q.gone = r.gone,
         acc[u] = "removed" => after[u] = "removed",
         acc[u] # "unused" => after[u] # "unused",
         u \in R => acc[u] = "stored",
         after[u] = "stored" /\ acc[u] # "unused" => acc[u] = "stored",
         new[u] = row[u] \/ (new[u] = 0 /\ after[u] = "removed"),
         PushOK(r, R, acc, row)
  PROVE  PushOK(q, S, after, new)
<1>1. IsFiniteSet(R) /\ IsFiniteSet(S) /\ R \subseteq Nat /\ S \subseteq Nat /\ Users \subseteq Nat
  BY BroadcastAssumption, FS_Subset
<1>2. r.stayed \subseteq Users /\ r.came \subseteq Users /\ r.gone \subseteq Users
  BY DEF PushRecord
<1>3. q.stayed \subseteq r.stayed /\ r.came \subseteq q.came /\ r.gone \subseteq q.gone
  BY <1>2
<1>4. \A v \in Users : acc[v] # "unused" => after[v] # "unused"
  OBVIOUS
<1>5. \A v \in Users : acc[v] = "removed" => after[v] = "removed"
  OBVIOUS
<1>6. Noted(q, S, after, new)
  <2>1. Noted(r, R, acc, row)
    BY DEF PushOK
  <2>2. ASSUME q.pc = "idle", NEW v \in Users PROVE new[v] = 0
    BY <2>1, <2>2 DEF Noted
  <2>3. ASSUME NEW v \in q.stayed \cup q.gone PROVE after[v] # "unused"
    <3>1. CASE v \in r.stayed \cup r.gone
      BY <1>2, <1>4, <2>1, <3>1 DEF Noted
    <3>2. CASE v \notin r.stayed \cup r.gone
      <4>1. v = u /\ v \in q.gone \ r.gone /\ r.pc \in InFlight
        BY <1>3, <2>3, <3>2
      <4> QED
        BY <4>1
    <3> QED
      BY <3>1, <3>2
  <2>4. ASSUME q.pc \in InFlight PROVE q.stayed \subseteq S
    BY <1>2, <2>1, <2>4 DEF Noted
  <2>5. ASSUME q.pc = "save" PROVE OnPage(q) \subseteq S \cup q.gone
    <3>1. OnPage(q) = OnPage(r) /\ OnPage(r) \subseteq R \cup r.gone
      BY <2>1, <2>5 DEF Noted, OnPage
    <3>2. r.gone \subseteq q.gone /\ R \ S \subseteq q.gone
      BY <2>5 DEF InFlight
    <3> QED
      BY <3>1, <3>2
  <2> QED
    BY <2>2, <2>3, <2>4, <2>5 DEF Noted
<1>7. ASSUME NEW w \in Users PROVE Reaches(q, S, after, new, w)
  <2> SUFFICES ASSUME w \in q.stayed, after[w] = "stored", new[w] = 0, ~ Excused(q, w, after)
               PROVE  Reaches(q, S, after, new, w)
    BY DEF Reaches
  <2>1. w \in r.stayed /\ acc[w] # "unused"
    BY <1>3 DEF PushOK, Noted
  <2>2. acc[w] = "stored" /\ row[w] = 0
    <3>1. CASE w = u
      BY <2>1, <3>1
    <3>2. CASE w # u
      BY <3>2
    <3> QED
      BY <3>1, <3>2
  <2>3. ~ Excused(r, w, acc)
    BY <1>2, <1>3, <1>5 DEF Excused
  <2>4. /\ r.pc # "done"
        /\ r.pc = "read" => r.kind = "price" \/ Rank(w, R) >= r.skip
        /\ r.pc = "save" => w \in OnPage(r) \/ StillToCome(r, R, w)
        /\ r.pc \in {"send", "clear"} => StillToCome(r, R, w)
    BY <2>1, <2>2, <2>3 DEF PushOK, Reaches
  <2>5. ASSUME r.pc \in InFlight, r.kind = "flyer" PROVE Rank(w, R) <= Rank(w, S)
    <3>1. ASSUME NEW v \in R, v < w PROVE v \in S
      <4>1. v \notin q.gone
        BY <2>5, <3>1 DEF Excused
      <4> QED
        BY <2>5, <3>1, <4>1
    <3>2. {v \in R : v < w} \subseteq {v \in S : v < w}
      BY <3>1
    <3> QED
      BY <1>1, <3>2, RankGrows
  <2>6. Rank(w, R) \in Nat /\ Rank(w, S) \in Nat /\ r.skip \in Nat /\ BatchSize \in Nat
    BY <1>1, RankType, BroadcastAssumption DEF PushRecord
  <2>7. ASSUME r.pc \in InFlight, StillToCome(r, R, w) PROVE StillToCome(q, S, w)
    BY <2>5, <2>6, <2>7 DEF StillToCome
  <2>8. OnPage(q) = OnPage(r)
    BY DEF OnPage
  <2>9. ASSUME r.pc = "read", r.kind = "flyer" PROVE Rank(w, S) >= r.skip
    BY <2>4, <2>5, <2>6, <2>9 DEF InFlight
  <2>10. r.kind \in {"price", "flyer"}
    BY DEF PushRecord, Kinds
  <2> QED
    BY <2>4, <2>7, <2>8, <2>9, <2>10 DEF Reaches, InFlight
<1>8. ASSUME NEW w \in Users PROVE ReachedOnce(q, S, new, w)
  <2> SUFFICES ASSUME r.kind = "price" \/ ~ Shifted(q, w)
               PROVE  ReachedOnce(q, S, new, w)
    BY DEF ReachedOnce
  <2>1. r.kind = "price" \/ ~ Shifted(r, w)
    BY <1>3 DEF Shifted
  <2>2. ReachedOnce(r, R, row, w)
    BY DEF PushOK
  <2>3. ASSUME r.pc \in InFlight, r.kind # "price" PROVE Rank(w, S) <= Rank(w, R)
    <3>1. ASSUME NEW v \in S, v < w PROVE v \in R
      <4>1. v \notin q.came
        BY <2>3, <3>1 DEF Shifted
      <4> QED
        BY <2>3, <3>1, <4>1
    <3>2. {v \in S : v < w} \subseteq {v \in R : v < w}
      BY <3>1
    <3> QED
      BY <1>1, <3>2, RankGrows
  <2>4. Rank(w, R) \in Nat /\ Rank(w, S) \in Nat /\ r.skip \in Nat /\ BatchSize \in Nat
    BY <1>1, RankType, BroadcastAssumption DEF PushRecord
  <2>5. OnPage(q) = OnPage(r)
    BY DEF OnPage
  <2>6. new[w] = row[w] \/ new[w] = 0
    OBVIOUS
  <2>7. row[w] <= 1 /\ row[w] \in Nat
    BY <2>1, <2>2 DEF ReachedOnce
  <2>8. ASSUME r.pc \in {"read", "save"}, new[w] = 1
        PROVE  r.kind = "flyer" /\ Rank(w, S) < r.skip
    BY <2>1, <2>2, <2>3, <2>4, <2>6, <2>8 DEF ReachedOnce, InFlight
  <2>9. ASSUME r.pc = "save", w \in OnPage(r)
        PROVE  new[w] = 0 /\ (r.kind = "price" \/ Rank(w, S) < r.skip + BatchSize)
    BY <2>1, <2>2, <2>3, <2>4, <2>6, <2>9 DEF ReachedOnce, InFlight
  <2>10. ASSUME r.pc \in {"send", "clear"}, new[w] = 1
         PROVE  r.kind = "price" \/ Rank(w, S) < r.skip + BatchSize
    BY <2>1, <2>2, <2>3, <2>4, <2>6, <2>10 DEF ReachedOnce, InFlight
  <2> QED
    BY <2>5, <2>6, <2>7, <2>8, <2>9, <2>10 DEF ReachedOnce
<1> QED
  BY <1>6, <1>7, <1>8 DEF PushOK

-----------------------------------------------------------------------------
(* Every push, at every step. *)

BroadcastTyped ==
  /\ account \in [Users -> {"unused", "stored", "removed"}]
  /\ consent \in [Users -> SUBSET Kinds]
  /\ token \in [Users -> Tokens \cup {NoToken}]
  /\ device \in [Users -> Tokens \cup {NoToken}]
  /\ expired \subseteq Tokens
  /\ push \in [Pushes -> PushRecord]
  /\ rows \in [Pushes -> [Users -> Nat]]
  /\ changes \in 0..MaxChanges

Getters(kind, by) == {u \in Users \ {by} : Gets(u, kind)}

PushesOK == \A p \in Pushes : PushOK(push[p], Receivers(p), account, rows[p])

TokensOK ==
  /\ \A p \in Pushes : push[p].failed \subseteq expired
  /\ \A u \in Users : token[u] = device[u] \/ device[u] \in expired

BroadcastInv == BroadcastTyped /\ PushesOK /\ TokensOK

LEMMA ReceiversAre == \A p : Receivers(p) = Getters(push[p].kind, push[p].registerer)
BY DEF Receivers, Getters

LEMMA GettersType ==
  ASSUME BroadcastTyped, NEW kind, NEW by
  PROVE  /\ Getters(kind, by) \in SUBSET Users
         /\ \A u \in Getters(kind, by) : account[u] = "stored"
         /\ \A u : u \in Getters(kind, by) <=>
              u \in Users /\ u # by /\ account[u] = "stored" /\ kind \in consent[u]
BY DEF Getters, Gets

LEMMA BroadcastStart == BroadcastInit => BroadcastInv
<1> SUFFICES ASSUME BroadcastInit PROVE BroadcastInv
  OBVIOUS
<1>1. NoPush \in PushRecord
  BY DEF NoPush, PushRecord, Kinds
<1>2. BroadcastTyped
  <2>1. account \in [Users -> {"unused", "stored", "removed"}]
    BY DEF BroadcastInit
  <2>2. consent \in [Users -> SUBSET Kinds]
    BY DEF BroadcastInit
  <2>3. token \in [Users -> Tokens \cup {NoToken}] /\ device \in [Users -> Tokens \cup {NoToken}]
    BY DEF BroadcastInit
  <2>4. /\ push \in [Pushes -> PushRecord] /\ expired \subseteq Tokens
        /\ rows \in [Pushes -> [Users -> Nat]] /\ changes \in 0..MaxChanges
    BY <1>1, BroadcastAssumption DEF BroadcastInit
  <2> QED
    BY <2>1, <2>2, <2>3, <2>4 DEF BroadcastTyped
<1>3. ASSUME NEW p \in Pushes PROVE PushOK(push[p], Receivers(p), account, rows[p])
  <2>1. /\ push[p].pc = "idle" /\ push[p].stayed = {} /\ push[p].gone = {} /\ push[p].page = {}
        /\ \A u \in Users : rows[p][u] = 0
    BY DEF BroadcastInit, NoPush
  <2> QED
    BY <2>1 DEF PushOK, Noted, Reaches, ReachedOnce, InFlight
<1>4. TokensOK
  BY DEF TokensOK, BroadcastInit, NoPush
<1> QED
  BY <1>2, <1>3, <1>4 DEF BroadcastInv, PushesOK

\* The step of one push does not touch the others.
LEMMA OthersOK ==
  ASSUME BroadcastInv, NEW p \in Pushes, UNCHANGED <<account, consent>>,
         \A q \in Pushes \ {p} : push'[q] = push[q] /\ rows'[q] = rows[q],
         PushOK(push'[p], Getters(push'[p].kind, push'[p].registerer), account, rows'[p])
  PROVE  PushesOK'
<1> SUFFICES ASSUME NEW q \in Pushes
             PROVE  PushOK(push'[q], Receivers(q)', account', rows'[q])
  BY DEF PushesOK
<1>1. Receivers(q)' = Getters(push'[q].kind, push'[q].registerer)
  BY DEF Receivers, Getters, Gets
<1>2. CASE q = p
  BY <1>1, <1>2
<1>3. CASE q # p
  BY <1>1, <1>3, ReceiversAre DEF BroadcastInv, PushesOK
<1> QED
  BY <1>2, <1>3

LEMMA StartPushOK ==
  ASSUME BroadcastInv, NEW p \in Pushes, NEW kind \in Kinds, NEW by \in Users \cup {NoReceiver},
         StartPush(p, kind, by)
  PROVE  BroadcastInv'
<1> DEFINE R == {u \in Users \ {by} : Gets(u, kind)}
           q == [NoPush EXCEPT !.pc = "read", !.kind = kind, !.registerer = by, !.stayed = R]
<1>1. /\ push[p].pc = "idle" /\ push' = [push EXCEPT ![p] = q]
      /\ UNCHANGED <<account, consent, token, device, expired, rows, changes>>
  BY DEF StartPush, PushAt
<1>2. R \in SUBSET Users /\ (\A u \in R : account[u] = "stored") /\ R = Getters(kind, by)
  BY DEF Gets, Getters
<1> HIDE DEF R
<1>3. /\ q \in PushRecord /\ q.pc = "read" /\ q.kind = kind /\ q.registerer = by /\ q.skip = 0
      /\ q.stayed = R /\ q.came = {} /\ q.gone = {} /\ q.failed = {}
  BY <1>2 DEF NoPush, PushRecord
<1> HIDE DEF q
<1>4. push' \in [Pushes -> PushRecord] /\ push'[p] = q /\ \A d \in Pushes \ {p} : push'[d] = push[d]
  BY <1>1, <1>3 DEF BroadcastInv, BroadcastTyped
<1>5. \A u \in Users : rows[p][u] = 0
  BY <1>1 DEF BroadcastInv, PushesOK, PushOK, Noted
<1>6. PushOK(q, R, account, rows[p])
  <2>1. Noted(q, R, account, rows[p])
    BY <1>2, <1>3 DEF Noted
  <2>2. ASSUME NEW u \in Users PROVE Reaches(q, R, account, rows[p], u)
    <3>1. Rank(u, R) \in Nat
      BY <1>2, BroadcastAssumption, FS_Subset, RankType
    <3> QED
      BY <1>3, <3>1 DEF Reaches
  <2>3. ASSUME NEW u \in Users PROVE ReachedOnce(q, R, rows[p], u)
    BY <1>3, <1>5 DEF ReachedOnce
  <2> QED
    BY <2>1, <2>2, <2>3 DEF PushOK
<1>7. PushesOK'
  BY <1>1, <1>2, <1>3, <1>4, <1>6, OthersOK
<1>8. TokensOK'
  BY <1>1, <1>3, <1>4 DEF BroadcastInv, TokensOK
<1> QED
  BY <1>1, <1>4, <1>7, <1>8 DEF BroadcastInv, BroadcastTyped

LEMMA ReadPageOK ==
  ASSUME BroadcastInv, NEW p \in Pushes, ReadPage(p)
  PROVE  BroadcastInv'
<1> DEFINE R == Receivers(p)
           some == IF push[p].kind = "price" THEN R
                   ELSE {u \in R : Rank(u, R) \in push[p].skip .. push[p].skip + BatchSize - 1}
           page == {[user |-> u, token |-> token[u]] : u \in some}
           r == push[p]
           q == [push[p] EXCEPT !.pc = IF some = {} THEN "done" ELSE "save", !.page = page]
<1>1. /\ r.pc = "read"
      /\ push' = [push EXCEPT ![p].pc = IF some = {} THEN "done" ELSE "save", ![p].page = page]
      /\ UNCHANGED <<account, consent, token, device, expired, rows, changes>>
  BY DEF ReadPage, PushAt
<1>2. r \in PushRecord /\ rows[p] \in [Users -> Nat] /\ token \in [Users -> Tokens \cup {NoToken}]
  BY DEF BroadcastInv, BroadcastTyped
<1>3. R \in SUBSET Users /\ R = Getters(r.kind, r.registerer) /\ some \in SUBSET R /\ SomeOf(r, R, some)
  BY ReceiversAre, GettersType DEF BroadcastInv, SomeOf
<1>a. PushOK(r, R, account, rows[p])
  BY DEF BroadcastInv, PushesOK
<1> HIDE DEF R
<1> HIDE DEF some
<1>4. IsFiniteSet(some)
  BY <1>3, BroadcastAssumption, FS_Subset
<1>5. /\ page \subseteq [user : Users, token : Tokens \cup {NoToken}]
      /\ Cardinality(page) = Cardinality(some) /\ {item.user : item \in page} = some
  BY <1>2, <1>3, <1>4, PageOfUsers
<1> HIDE DEF page
<1>6. push'[p] = q /\ \A d \in Pushes \ {p} : push'[d] = push[d]
  BY <1>1 DEF BroadcastInv, BroadcastTyped
<1>7. /\ q \in PushRecord /\ q.pc = IF some = {} THEN "done" ELSE "save"
      /\ q.kind = r.kind /\ q.registerer = r.registerer /\ q.skip = r.skip /\ q.page = page
      /\ q.stayed = r.stayed /\ q.came = r.came /\ q.gone = r.gone /\ q.failed = r.failed
  BY <1>2, <1>5 DEF PushRecord
<1> HIDE DEF q, r
<1>8. push' \in [Pushes -> PushRecord]
  BY <1>1, <1>6, <1>7 DEF BroadcastInv, BroadcastTyped
<1>9. Follows(q, r) /\ OnPage(q) = some /\ Cardinality(q.page) = Cardinality(some)
  BY <1>5, <1>7 DEF Follows, OnPage
<1>10. PushOK(q, R, account, rows[p])
  BY <1>1, <1>2, <1>3, <1>7, <1>9, <1>a, ReadOK
<1>11. PushesOK'
  BY <1>1, <1>3, <1>6, <1>7, <1>10, OthersOK
<1>12. TokensOK'
  BY <1>1, <1>6, <1>7 DEF BroadcastInv, TokensOK, r
<1> QED
  BY <1>1, <1>8, <1>11, <1>12 DEF BroadcastInv, BroadcastTyped

LEMMA SavePageOK ==
  ASSUME BroadcastInv, NEW p \in Pushes, SavePage(p)
  PROVE  BroadcastInv'
<1> DEFINE r == push[p]
           q == [r EXCEPT !.pc = "send"]
           R == Receivers(p)
           new == [u \in Users |->
                    IF u \in OnPage(r) /\ \A v \in OnPage(r) : account[v] = "stored"
                    THEN rows[p][u] + 1 ELSE rows[p][u]]
<1>1. /\ r.pc = "save" /\ push' = [push EXCEPT ![p].pc = "send"]
      /\ rows' = [rows EXCEPT ![p] = new]
      /\ UNCHANGED <<account, consent, token, device, expired, changes>>
  BY DEF SavePage, PushAt, Push, Listed, OnPage
<1>2. r \in PushRecord /\ rows[p] \in [Users -> Nat]
  BY DEF BroadcastInv, BroadcastTyped
<1>3. /\ R \in SUBSET Users /\ R = Getters(r.kind, r.registerer)
      /\ \A u \in R : account[u] = "stored"
      /\ \A u \in Users : account[u] \in {"unused", "stored", "removed"}
  BY ReceiversAre, GettersType DEF BroadcastInv, BroadcastTyped
<1>4. PushOK(r, R, account, rows[p])
  BY DEF BroadcastInv, PushesOK
<1>5. new \in [Users -> Nat]
  BY <1>2
<1> HIDE DEF R
<1>6. PushOK(q, R, account, new)
  <2> HIDE DEF r
  <2> QED
    BY <1>1, <1>2, <1>3, <1>4, SaveOK
<1> HIDE DEF new
<1>7. /\ push'[p] = q /\ rows'[p] = new /\ rows' \in [Pushes -> [Users -> Nat]]
      /\ \A d \in Pushes \ {p} : push'[d] = push[d] /\ rows'[d] = rows[d]
  BY <1>1, <1>5 DEF BroadcastInv, BroadcastTyped
<1>8. q \in PushRecord /\ q.kind = r.kind /\ q.registerer = r.registerer /\ q.failed = r.failed
  BY <1>2 DEF PushRecord
<1> HIDE DEF q, r
<1>9. push' \in [Pushes -> PushRecord]
  BY <1>1, <1>7, <1>8 DEF BroadcastInv, BroadcastTyped
<1>10. PushesOK'
  BY <1>1, <1>3, <1>6, <1>7, <1>8, OthersOK
<1>11. TokensOK'
  BY <1>1, <1>7, <1>8 DEF BroadcastInv, TokensOK, r
<1> QED
  BY <1>1, <1>7, <1>9, <1>10, <1>11 DEF BroadcastInv, BroadcastTyped

LEMMA NextPageOK ==
  ASSUME BroadcastInv, NEW p \in Pushes, push[p].pc \in {"send", "clear"}, NextPage(p),
         UNCHANGED <<account, consent, rows>>
  PROVE  /\ push' \in [Pushes -> PushRecord] /\ PushesOK'
         /\ \A d \in Pushes : push'[d].failed \subseteq push[d].failed
<1> DEFINE r == push[p]
           q == [r EXCEPT
                  !.pc = IF r.kind = "price" \/ Cardinality(r.page) < BatchSize
                         THEN "done" ELSE "read",
                  !.skip = IF r.kind = "price" THEN @ ELSE @ + BatchSize,
                  !.page = {}, !.failed = {}]
           R == Receivers(p)
<1>1. r \in PushRecord /\ rows[p] \in [Users -> Nat]
  BY DEF BroadcastInv, BroadcastTyped
<1>2. R \in SUBSET Users /\ R = Getters(r.kind, r.registerer) /\ PushOK(r, R, account, rows[p])
  BY ReceiversAre, GettersType DEF BroadcastInv, PushesOK
<1>3. push'[p] = q /\ \A d \in Pushes \ {p} : push'[d] = push[d]
  BY DEF BroadcastInv, BroadcastTyped, NextPage
<1>4. /\ q \in PushRecord /\ q.registerer = r.registerer /\ Follows(q, r) /\ q.failed = {}
      /\ q.pc = IF r.kind = "price" \/ Cardinality(r.page) < BatchSize THEN "done" ELSE "read"
      /\ q.skip = IF r.kind = "price" THEN r.skip ELSE r.skip + BatchSize
  <2> DEFINE where == IF r.kind = "price" \/ Cardinality(r.page) < BatchSize THEN "done" ELSE "read"
             skip == IF r.kind = "price" THEN r.skip ELSE r.skip + BatchSize
  <2>1. where \in {"done", "read"} /\ skip \in Nat
    BY <1>1, BroadcastAssumption DEF PushRecord
  <2>2. q = [r EXCEPT !.pc = where, !.skip = skip, !.page = {}, !.failed = {}]
    BY <1>1 DEF PushRecord
  <2> HIDE DEF where, skip, r, q
  <2>3. /\ q \in PushRecord /\ q.registerer = r.registerer /\ Follows(q, r) /\ q.failed = {}
        /\ q.pc = where /\ q.skip = skip
    BY <1>1, <2>1, <2>2 DEF PushRecord, Follows
  <2> QED
    BY <2>3 DEF where, skip
<1> HIDE DEF q, R
<1>5. PushOK(q, R, account, rows[p])
  <2> HIDE DEF r
  <2> QED
    BY <1>1, <1>2, <1>4, NextOK DEF r
<1>6. push' \in [Pushes -> PushRecord]
  BY <1>3, <1>4 DEF BroadcastInv, BroadcastTyped, NextPage
<1>7. PushesOK'
  BY <1>2, <1>3, <1>4, <1>5, OthersOK DEF Follows
<1>8. \A d \in Pushes : push'[d].failed \subseteq push[d].failed
  BY <1>3, <1>4
<1> QED
  BY <1>6, <1>7, <1>8

\* A push that goes on with what it has, or stops.
LEMMA OnlyOnOK ==
  ASSUME BroadcastInv, NEW p \in Pushes, NEW q \in PushRecord,
         (push[p].pc = "send" /\ q.pc = "clear") \/ q.pc = "crashed",
         push[p].pc # "idle",
         Follows(q, push[p]), q.registerer = push[p].registerer,
         q.skip = push[p].skip, q.page = push[p].page, q.failed \subseteq expired,
         push' = [push EXCEPT ![p] = q],
         UNCHANGED <<account, consent, token, device, expired, rows, changes>>
  PROVE  BroadcastInv'
<1> DEFINE r == push[p]
           R == Receivers(p)
<1>1. R = Getters(r.kind, r.registerer) /\ PushOK(r, R, account, rows[p])
  BY ReceiversAre DEF BroadcastInv, PushesOK
<1>2. /\ push'[p] = q /\ \A d \in Pushes \ {p} : push'[d] = push[d]
      /\ push' \in [Pushes -> PushRecord]
  BY DEF BroadcastInv, BroadcastTyped
<1>3. PushOK(q, R, account, rows[p])
  <2>1. Noted(q, R, account, rows[p])
    BY <1>1 DEF PushOK, Noted, Follows, InFlight
  <2>2. ASSUME NEW u \in Users PROVE Reaches(q, R, account, rows[p], u)
    BY <1>1 DEF PushOK, Reaches, Follows, Excused, StillToCome
  <2>3. ASSUME NEW u \in Users PROVE ReachedOnce(q, R, rows[p], u)
    BY <1>1 DEF PushOK, ReachedOnce, Follows, Shifted
  <2> QED
    BY <2>1, <2>2, <2>3 DEF PushOK
<1>4. PushesOK'
  BY <1>1, <1>2, <1>3, OthersOK DEF Follows
<1>5. TokensOK'
  BY <1>2 DEF BroadcastInv, TokensOK
<1> QED
  BY <1>2, <1>4, <1>5 DEF BroadcastInv, BroadcastTyped

LEMMA SendOK ==
  ASSUME BroadcastInv, NEW p \in Pushes, Send(p)
  PROVE  BroadcastInv'
<1>1. push[p].pc = "send" /\ UNCHANGED <<account, consent, token, device, expired, rows, changes>>
  BY DEF Send, PushAt
<1>2. CASE NextPage(p)
  BY <1>1, <1>2, NextPageOK DEF BroadcastInv, BroadcastTyped, TokensOK
<1>3. ASSUME NEW failed \in SUBSET expired,
             push' = [push EXCEPT ![p].pc = "clear", ![p].failed = failed]
      PROVE  BroadcastInv'
  <2> DEFINE q == [push[p] EXCEPT !.pc = "clear", !.failed = failed]
  <2>1. push' = [push EXCEPT ![p] = q]
    BY <1>3
  <2>2. push[p] \in PushRecord /\ failed \subseteq Tokens
    BY DEF BroadcastInv, BroadcastTyped
  <2>3. /\ q \in PushRecord /\ q.pc = "clear" /\ Follows(q, push[p]) /\ q.failed = failed
        /\ q.registerer = push[p].registerer /\ q.skip = push[p].skip /\ q.page = push[p].page
    BY <2>2 DEF PushRecord, Follows
  <2> HIDE DEF q
  <2> QED
    BY <1>1, <2>1, <2>3, OnlyOnOK
<1> QED
  BY <1>2, <1>3 DEF Send

LEMMA CrashPushOK ==
  ASSUME BroadcastInv, NEW p \in Pushes, CrashPush(p)
  PROVE  BroadcastInv'
<1> DEFINE q == [push[p] EXCEPT !.pc = "crashed"]
<1>1. push' = [push EXCEPT ![p] = q] /\ push[p].pc # "idle"
      /\ UNCHANGED <<account, consent, token, device, expired, rows, changes>>
  BY DEF CrashPush, Push, Running
<1>2. push[p] \in PushRecord /\ push[p].failed \subseteq expired
  BY DEF BroadcastInv, BroadcastTyped, TokensOK
<1>3. /\ q \in PushRecord /\ q.pc = "crashed" /\ Follows(q, push[p]) /\ q.failed = push[p].failed
      /\ q.registerer = push[p].registerer /\ q.skip = push[p].skip /\ q.page = push[p].page
  BY <1>2 DEF PushRecord, Follows
<1> HIDE DEF q
<1> QED
  BY <1>1, <1>2, <1>3, OnlyOnOK

LEMMA ClearOK ==
  ASSUME BroadcastInv, NEW p \in Pushes, Clear(p)
  PROVE  BroadcastInv'
<1>1. /\ push[p].pc = "clear" /\ NextPage(p)
      /\ UNCHANGED <<account, consent, device, expired, rows, changes>>
  BY DEF Clear, PushAt
<1>2. /\ push' \in [Pushes -> PushRecord] /\ PushesOK'
      /\ \A d \in Pushes : push'[d].failed \subseteq push[d].failed
  BY <1>1, NextPageOK
<1>3. \A u \in Users : token'[u] = token[u] \/ (token'[u] = NoToken /\ token[u] \in push[p].failed)
  BY DEF Clear
<1>4. token' \in [Users -> Tokens \cup {NoToken}]
  BY DEF Clear, BroadcastInv, BroadcastTyped
<1>5. TokensOK'
  BY <1>1, <1>2, <1>3 DEF BroadcastInv, TokensOK
<1> QED
  BY <1>1, <1>2, <1>4, <1>5 DEF BroadcastInv, BroadcastTyped

-----------------------------------------------------------------------------
(* Users meanwhile. *)

\* A user comes to the pushes of the kinds in after and leaves those in before.
LEMMA UserOK ==
  ASSUME BroadcastInv, NEW u \in Users, NEW before, NEW after, TakeNote(u, before, after),
         \A v \in Users \ {u} :
           /\ account'[v] = account[v] /\ consent'[v] = consent[v]
           /\ \A p \in Pushes : rows'[p][v] = rows[p][v],
         \A k \in Kinds : (k \in before <=> Gets(u, k)) /\ (k \in after <=> Gets(u, k)'),
         account[u] = "removed" => account'[u] = "removed",
         account[u] # "unused" => account'[u] # "unused",
         account'[u] = "stored" /\ account[u] # "unused" => account[u] = "stored",
         \A p \in Pushes :
           rows'[p][u] = rows[p][u] \/ (rows'[p][u] = 0 /\ account'[u] = "removed"),
         rows' \in [Pushes -> [Users -> Nat]]
  PROVE  /\ push' \in [Pushes -> PushRecord] /\ PushesOK'
         /\ \A p \in Pushes : push'[p].failed = push[p].failed
<1> SUFFICES ASSUME NEW p \in Pushes
             PROVE  /\ push'[p] \in PushRecord /\ push'[p].failed = push[p].failed
                    /\ PushOK(push'[p], Receivers(p)', account', rows'[p])
  BY DEF PushesOK, TakeNote
<1> DEFINE r == push[p]
           k == push[p].kind
           q == push'[p]
           R == Receivers(p)
           S == Receivers(p)'
<1>1. r \in PushRecord /\ rows[p] \in [Users -> Nat] /\ rows'[p] \in [Users -> Nat]
  BY DEF BroadcastInv, BroadcastTyped
<1>2. r.kind \in Kinds
  BY <1>1 DEF PushRecord
<1>3. q = IF r.pc \in {"idle", "done", "crashed"} THEN r
          ELSE [r EXCEPT !.stayed = IF k \in after THEN @ ELSE @ \ {u},
                         !.came = IF k \in after \ before THEN @ \cup {u} ELSE @,
                         !.gone = IF k \in before \ after THEN @ \cup {u} ELSE @]
  BY DEF TakeNote, Running
<1> DEFINE stayed == IF k \in after THEN r.stayed ELSE r.stayed \ {u}
           arrived == IF k \in after \ before THEN r.came \cup {u} ELSE r.came
           left == IF k \in before \ after THEN r.gone \cup {u} ELSE r.gone
<1>4. /\ q \in PushRecord /\ q.pc = r.pc /\ q.kind = r.kind /\ q.skip = r.skip /\ q.page = r.page
      /\ q.registerer = r.registerer /\ q.failed = r.failed
      /\ r.pc \notin InFlight => q.stayed = r.stayed /\ q.came = r.came /\ q.gone = r.gone
      /\ r.pc \in InFlight => q.stayed = stayed /\ q.came = arrived /\ q.gone = left
  <2>1. CASE r.pc \in {"idle", "done", "crashed"}
    <3>1. q = r
      BY <1>3, <2>1
    <3> HIDE DEF q, r
    <3> QED
      BY <1>1, <2>1, <3>1 DEF InFlight
  <2>2. CASE r.pc \notin {"idle", "done", "crashed"}
    <3>1. q = [r EXCEPT !.stayed = stayed, !.came = arrived, !.gone = left]
      BY <1>1, <1>3, <2>2 DEF PushRecord
    <3>2. stayed \in SUBSET Users /\ arrived \in SUBSET Users /\ left \in SUBSET Users
      BY <1>1 DEF PushRecord
    <3>3. r.pc \in InFlight
      BY <1>1, <2>2 DEF PushRecord, InFlight
    <3> HIDE DEF q, r, stayed, arrived, left
    <3> QED
      BY <1>1, <3>1, <3>2, <3>3 DEF PushRecord
  <2> QED
    BY <2>1, <2>2
<1>5. \A v \in Users \ {u} : Gets(v, k) <=> Gets(v, k)'
  <2> SUFFICES ASSUME NEW v \in Users \ {u} PROVE Gets(v, k) <=> Gets(v, k)'
    OBVIOUS
  <2>1. account'[v] = account[v] /\ consent'[v] = consent[v]
    OBVIOUS
  <2> QED
    BY <1>1, <1>3, <1>4, <2>1 DEF Gets
<1>6. /\ \A v : v \in R <=> v \in Users /\ v # r.registerer /\ Gets(v, k)
      /\ \A v : v \in S <=> v \in Users /\ v # r.registerer /\ Gets(v, k)'
  BY <1>4 DEF Receivers
<1>7. (k \in before <=> Gets(u, k)) /\ (k \in after <=> Gets(u, k)')
  BY <1>2, <1>4 DEF Gets
<1>8. PushOK(r, R, account, rows[p])
  BY DEF BroadcastInv, PushesOK
<1>9. Noted(r, R, account, rows[p])
  BY <1>8 DEF PushOK
<1>10. r.pc \in InFlight =>
         /\ q.stayed \subseteq r.stayed
         /\ u \in q.stayed => u \in S
         /\ r.came \subseteq q.came /\ S \ R \subseteq q.came
         /\ r.gone \subseteq q.gone /\ R \ S \subseteq q.gone
         /\ q.gone \subseteq r.gone \cup {u}
         /\ u \in q.gone \ r.gone => account'[u] # "unused"
  <2> SUFFICES ASSUME r.pc \in InFlight
               PROVE  /\ stayed \subseteq r.stayed
                      /\ u \in stayed => u \in S
                      /\ r.came \subseteq arrived /\ S \ R \subseteq arrived
                      /\ r.gone \subseteq left /\ R \ S \subseteq left
                      /\ left \subseteq r.gone \cup {u}
                      /\ u \in left \ r.gone => account'[u] # "unused"
    BY <1>4
  <2>1. u \in r.stayed => u \in R
    BY <1>9 DEF Noted
  <2>2. u \in left \ r.gone => account[u] # "unused"
    BY <1>7 DEF Gets
  <2>3. /\ \A v \in S \ R : v = u /\ k \in after \ before
        /\ \A v \in R \ S : v = u /\ k \in before \ after
    BY <1>5, <1>6, <1>7
  <2>4. u \in stayed => u \in S
    BY <1>6, <1>7, <2>1
  <2> QED
    BY <2>2, <2>3, <2>4
<1>11. R \in SUBSET Users /\ S \in SUBSET Users
  BY <1>6
<1>12. \A v \in Users \ {u} :
         (v \in S <=> v \in R) /\ account'[v] = account[v] /\ rows'[p][v] = rows[p][v]
  BY <1>5, <1>6
<1>13. u \in R => account[u] = "stored"
  BY <1>6 DEF Gets
<1>14. rows'[p][u] = rows[p][u] \/ (rows'[p][u] = 0 /\ account'[u] = "removed")
  OBVIOUS
<1>a. r.pc \notin InFlight => q.stayed = r.stayed /\ q.came = r.came /\ q.gone = r.gone
  BY <1>4
<1>b. q \in PushRecord /\ q.pc = r.pc /\ q.kind = r.kind /\ q.skip = r.skip /\ q.page = r.page
  BY <1>4
<1>15. PushOK(q, S, account', rows'[p])
  <2> DEFINE new == rows'[p]
             row == rows[p]
             then == account'
  <2>1. row \in [Users -> Nat] /\ new \in [Users -> Nat] /\ r \in PushRecord
    BY <1>1
  <2>2. PushOK(r, R, account, row)
    BY <1>8
  <2>3. \A v \in Users \ {u} : (v \in S <=> v \in R) /\ then[v] = account[v] /\ new[v] = row[v]
    BY <1>12
  <2>4. new[u] = row[u] \/ (new[u] = 0 /\ then[u] = "removed")
    BY <1>14
  <2>5. r.pc \in InFlight =>
         /\ q.stayed \subseteq r.stayed
         /\ u \in q.stayed => u \in S
         /\ r.came \subseteq q.came /\ S \ R \subseteq q.came
         /\ r.gone \subseteq q.gone /\ R \ S \subseteq q.gone
         /\ q.gone \subseteq r.gone \cup {u}
         /\ u \in q.gone \ r.gone => then[u] # "unused"
    BY <1>10
  <2>6. /\ account[u] = "removed" => then[u] = "removed"
        /\ account[u] # "unused" => then[u] # "unused"
        /\ then[u] = "stored" /\ account[u] # "unused" => account[u] = "stored"
    OBVIOUS
  <2> HIDE DEF r, k, q, R, S, row, new, then
  <2>7. PushOK(q, S, then, new)
    BY <1>a, <1>b, <1>11, <1>13, <2>1, <2>2, <2>3, <2>4, <2>5, <2>6, ShiftOK
  <2> QED
    BY <2>7 DEF then, new
<1> HIDE DEF r, k, q, R, S
<1> QED
  BY <1>4, <1>15 DEF r, k, q, S

LEMMA JoinOK ==
  ASSUME BroadcastInv, NEW u \in Users, NEW kinds \in SUBSET Kinds, NEW t \in Tokens,
         t \notin expired, Join(u, kinds, t)
  PROVE  BroadcastInv'
<1>1. /\ account[u] = "unused" /\ account' = [account EXCEPT ![u] = "stored"]
      /\ consent' = [consent EXCEPT ![u] = kinds]
      /\ token' = [token EXCEPT ![u] = t] /\ device' = [device EXCEPT ![u] = t]
      /\ TakeNote(u, {}, kinds) /\ expired' = expired /\ rows' = rows /\ changes' \in 0..MaxChanges
  BY BroadcastAssumption DEF Join, Meanwhile, BroadcastInv, BroadcastTyped
<1>2. /\ account'[u] = "stored" /\ consent'[u] = kinds
      /\ \A v \in Users \ {u} : account'[v] = account[v] /\ consent'[v] = consent[v]
  BY <1>1 DEF BroadcastInv, BroadcastTyped
<1>3. \A k \in Kinds : (k \in {} <=> Gets(u, k)) /\ (k \in kinds <=> Gets(u, k)')
  BY <1>1, <1>2 DEF Gets
<1>4. rows' \in [Pushes -> [Users -> Nat]]
  BY <1>1 DEF BroadcastInv, BroadcastTyped
<1>5. /\ push' \in [Pushes -> PushRecord] /\ PushesOK'
      /\ \A p \in Pushes : push'[p].failed = push[p].failed
  BY <1>1, <1>2, <1>3, <1>4, UserOK
<1>6. TokensOK'
  BY <1>1, <1>5 DEF BroadcastInv, BroadcastTyped, TokensOK
<1>7. BroadcastTyped'
  BY <1>1, <1>4, <1>5 DEF BroadcastInv, BroadcastTyped
<1> QED
  BY <1>5, <1>6, <1>7 DEF BroadcastInv

LEMMA AgreeOK ==
  ASSUME BroadcastInv, NEW u \in Users, NEW kinds \in SUBSET Kinds, Agree(u, kinds)
  PROVE  BroadcastInv'
<1>1. /\ account[u] = "stored" /\ consent' = [consent EXCEPT ![u] = kinds]
      /\ TakeNote(u, consent[u], kinds) /\ changes' \in 0..MaxChanges
      /\ UNCHANGED <<account, token, device, expired, rows>>
  BY BroadcastAssumption DEF Agree, Meanwhile, BroadcastInv, BroadcastTyped
<1>2. /\ consent'[u] = kinds
      /\ \A v \in Users \ {u} : account'[v] = account[v] /\ consent'[v] = consent[v]
  BY <1>1 DEF BroadcastInv, BroadcastTyped
<1>3. \A k \in Kinds : (k \in consent[u] <=> Gets(u, k)) /\ (k \in kinds <=> Gets(u, k)')
  BY <1>1, <1>2 DEF Gets
<1>4. rows' \in [Pushes -> [Users -> Nat]]
  BY <1>1 DEF BroadcastInv, BroadcastTyped
<1>5. /\ push' \in [Pushes -> PushRecord] /\ PushesOK'
      /\ \A p \in Pushes : push'[p].failed = push[p].failed
  BY <1>1, <1>2, <1>3, <1>4, UserOK
<1>6. TokensOK'
  BY <1>1, <1>5 DEF BroadcastInv, TokensOK
<1>7. BroadcastTyped'
  BY <1>1, <1>4, <1>5 DEF BroadcastInv, BroadcastTyped
<1> QED
  BY <1>5, <1>6, <1>7 DEF BroadcastInv

LEMMA RemoveUserOK ==
  ASSUME BroadcastInv, NEW u \in Users, RemoveUser(u)
  PROVE  BroadcastInv'
<1>1. /\ account[u] = "stored" /\ account' = [account EXCEPT ![u] = "removed"]
      /\ consent' = [consent EXCEPT ![u] = {}]
      /\ token' = [token EXCEPT ![u] = NoToken] /\ device' = [device EXCEPT ![u] = NoToken]
      /\ rows' = [p \in Pushes |-> [rows[p] EXCEPT ![u] = 0]]
      /\ TakeNote(u, consent[u], {}) /\ expired' = expired /\ changes' \in 0..MaxChanges
  BY BroadcastAssumption DEF RemoveUser, Meanwhile, BroadcastInv, BroadcastTyped
<1>2. /\ account'[u] = "removed" /\ consent'[u] = {}
      /\ \A v \in Users \ {u} : account'[v] = account[v] /\ consent'[v] = consent[v]
  BY <1>1 DEF BroadcastInv, BroadcastTyped
<1>3. \A k \in Kinds : (k \in consent[u] <=> Gets(u, k)) /\ (k \in {} <=> Gets(u, k)')
  BY <1>1, <1>2 DEF Gets
<1>4. /\ rows' \in [Pushes -> [Users -> Nat]]
      /\ \A p \in Pushes : rows'[p][u] = 0 /\ \A v \in Users \ {u} : rows'[p][v] = rows[p][v]
  BY <1>1 DEF BroadcastInv, BroadcastTyped
<1>5. /\ push' \in [Pushes -> PushRecord] /\ PushesOK'
      /\ \A p \in Pushes : push'[p].failed = push[p].failed
  BY <1>1, <1>2, <1>3, <1>4, UserOK
<1>6. TokensOK'
  BY <1>1, <1>5 DEF BroadcastInv, BroadcastTyped, TokensOK
<1>7. BroadcastTyped'
  BY <1>1, <1>4, <1>5 DEF BroadcastInv, BroadcastTyped
<1> QED
  BY <1>5, <1>6, <1>7 DEF BroadcastInv

\* The tables a push reads are left as they are.
LEMMA PushesUntouched ==
  ASSUME BroadcastInv, UNCHANGED <<account, consent, push, rows>>
  PROVE  PushesOK'
<1> SUFFICES ASSUME NEW p \in Pushes
             PROVE  PushOK(push'[p], Receivers(p)', account', rows'[p])
  BY DEF PushesOK
<1>1. Receivers(p)' = Receivers(p)
  BY DEF Receivers, Gets
<1> QED
  BY <1>1 DEF BroadcastInv, PushesOK

LEMMA TokenChangesOK ==
  ASSUME BroadcastInv,
         \/ \E u \in Users, t \in Tokens : UpdateFcmToken(u, t)
         \/ \E t \in Tokens : Expire(t)
  PROVE  BroadcastInv'
<1>1. ASSUME NEW u \in Users, NEW t \in Tokens, UpdateFcmToken(u, t) PROVE BroadcastInv'
  <2>1. /\ token' = [token EXCEPT ![u] = t] /\ device' = [device EXCEPT ![u] = t]
        /\ UNCHANGED <<account, consent, expired, push, rows>> /\ changes' \in 0..MaxChanges
    BY <1>1, BroadcastAssumption DEF UpdateFcmToken, Meanwhile, BroadcastInv, BroadcastTyped
  <2>2. TokensOK'
    BY <2>1 DEF BroadcastInv, BroadcastTyped, TokensOK
  <2> QED
    BY <2>1, <2>2, PushesUntouched DEF BroadcastInv, BroadcastTyped
<1>2. ASSUME NEW t \in Tokens, Expire(t) PROVE BroadcastInv'
  <2>1. /\ expired' = expired \cup {t} /\ changes' \in 0..MaxChanges
        /\ UNCHANGED <<account, consent, token, device, push, rows>>
    BY <1>2, BroadcastAssumption DEF Expire, Meanwhile, BroadcastInv, BroadcastTyped
  <2>2. TokensOK'
    BY <2>1 DEF BroadcastInv, TokensOK
  <2> QED
    BY <2>1, <2>2, PushesUntouched DEF BroadcastInv, BroadcastTyped
<1> QED
  BY <1>1, <1>2

LEMMA BroadcastStep == BroadcastInv /\ [BroadcastNext]_broadcastVars => BroadcastInv'
<1> SUFFICES ASSUME BroadcastInv, [BroadcastNext]_broadcastVars PROVE BroadcastInv'
  OBVIOUS
<1>1. ASSUME NEW p \in Pushes, NEW kind \in Kinds, NEW by \in Users \cup {NoReceiver},
             StartPush(p, kind, by)
      PROVE  BroadcastInv'
  BY <1>1, StartPushOK
<1>2. ASSUME NEW p \in Pushes,
             ReadPage(p) \/ SavePage(p) \/ Send(p) \/ Clear(p) \/ CrashPush(p)
      PROVE  BroadcastInv'
  BY <1>2, ReadPageOK, SavePageOK, SendOK, ClearOK, CrashPushOK
<1>3. ASSUME NEW u \in Users, NEW kinds \in {{}, Kinds},
             Agree(u, kinds) \/ \E t \in Tokens \ expired : Join(u, kinds, t)
      PROVE  BroadcastInv'
  BY <1>3, AgreeOK, JoinOK
<1>4. ASSUME NEW u \in Users, RemoveUser(u) PROVE BroadcastInv'
  BY <1>4, RemoveUserOK
<1>5. CASE \/ \E u \in Users, t \in Tokens : UpdateFcmToken(u, t)
           \/ \E t \in Tokens : Expire(t)
  BY <1>5, TokenChangesOK
<1>6. CASE UNCHANGED broadcastVars
  <2>1. UNCHANGED <<account, consent, token, device, expired, push, rows, changes>>
    BY <1>6 DEF broadcastVars
  <2>2. TokensOK'
    BY <2>1 DEF BroadcastInv, TokensOK
  <2> QED
    BY <2>1, <2>2, PushesUntouched DEF BroadcastInv, BroadcastTyped
<1> QED
  BY <1>1, <1>2, <1>3, <1>4, <1>5, <1>6 DEF BroadcastNext

LEMMA BroadcastInvMeans == BroadcastInv => PushesReachOnce
<1> SUFFICES ASSUME BroadcastInv PROVE PushesReachOnce
  OBVIOUS
<1>1. ASSUME NEW p \in Pushes, NEW u \in Users, push[p].pc = "done", u \in push[p].stayed,
             account[u] = "stored", rows[p][u] = 0
      PROVE  \E v \in push[p].gone : account[v] = "removed" \/ (push[p].kind = "flyer" /\ v < u)
  BY <1>1 DEF BroadcastInv, PushesOK, PushOK, Reaches, Excused
<1>2. ASSUME NEW p \in Pushes, NEW u \in Users, rows[p][u] > 1
      PROVE  push[p].kind = "flyer" /\ \E v \in push[p].came : v < u
  <2>1. rows[p][u] \in Nat /\ push[p].kind \in Kinds
    BY DEF BroadcastInv, BroadcastTyped, PushRecord
  <2>2. ReachedOnce(push[p], Receivers(p), rows[p], u)
    BY DEF BroadcastInv, PushesOK, PushOK
  <2>3. ~ (rows[p][u] <= 1)
    BY <1>2, <2>1
  <2> QED
    BY <2>1, <2>2, <2>3 DEF ReachedOnce, Shifted, Kinds
<1> QED
  BY <1>1, <1>2 DEF BroadcastInv, TokensOK, PushesReachOnce, PushAt

\* PushesReachOnce: a push that ended has written a notification to every stored user who
\* would get it all the time, unless an account was deleted under a page or, for a flyer,
\* somebody before them left; nobody gets two, unless somebody before them came; and only a
\* token that the push service forgot is ever taken from a device.
THEOREM ReachOnce == BroadcastSpec => []PushesReachOnce
<1>1. BroadcastSpec => []BroadcastInv
  BY BroadcastStart, BroadcastStep, PTL DEF BroadcastSpec
<1> QED
  BY <1>1, BroadcastInvMeans, PTL

-----------------------------------------------------------------------------
(* Listings.  The cursor of the next page separates what a listing has     *)
(* shown from what it has not, by the dates of the notifications; a note   *)
(* keeps its date, whatever removes it and brings it back.                 *)

LEMMA Division ==
  \A x \in Nat : /\ x \div Millisecond \in Nat
                 /\ ToDate(x) = Millisecond * (x \div Millisecond)
                 /\ ToDate(x) <= x /\ x < ToDate(x) + Millisecond
BY InboxAssumption, SMTT(30) DEF ToDate

\* No multiple of a millisecond lies between a time and its date.
LEMMA DateIsLast ==
  ASSUME NEW x \in Nat, NEW q \in Nat, Millisecond * q <= x
  PROVE  Millisecond * q <= ToDate(x)
<1> DEFINE M == Millisecond
           k == x \div Millisecond
<1>a. k \in Nat /\ ToDate(x) = M * k /\ x < ToDate(x) + M
  BY Division
<1>1. k \in Nat /\ M \in Nat /\ M > 0 /\ ToDate(x) = M * k /\ x < M * k + M
  <2>1. M \in Nat /\ M > 0
    BY InboxAssumption
  <2> HIDE DEF k, M
  <2> QED
    BY <1>a, <2>1
<1> HIDE DEF k, M
<1>2. ASSUME q > k PROVE FALSE
  <2>1. PICK d \in Nat : q = k + 1 + d
    BY <1>1, <1>2
  <2>2. M * q = M * k + M + M * d /\ M * d \in Nat
    BY <1>1, <2>1
  <2> QED
    BY <1>1, <2>2 DEF M
<1>3. CASE q <= k
  <2>1. PICK d \in Nat : k = q + d
    BY <1>1, <1>3
  <2>2. M * k = M * q + M * d /\ M * d \in Nat
    BY <1>1, <2>1
  <2> QED
    BY <1>1, <2>2 DEF M
<1> QED
  BY <1>1, <1>2, <1>3

LEMMA Dates ==
  \A x, y \in Nat :
    /\ ToDate(x) \in Nat /\ ToDate(x) <= x
    /\ ToDate(ToDate(x)) = ToDate(x)
    /\ x <= y => ToDate(x) <= ToDate(y)
    /\ x <= y /\ ToDate(y) <= x => ToDate(x) = ToDate(y)
<1>1. ASSUME NEW x \in Nat PROVE ToDate(x) \in Nat /\ ToDate(x) <= x
  BY Division, InboxAssumption
<1>2. ASSUME NEW x \in Nat, NEW y \in Nat, ToDate(x) <= y PROVE ToDate(x) <= ToDate(y)
  BY <1>2, Division, DateIsLast
<1>3. ASSUME NEW x \in Nat PROVE ToDate(ToDate(x)) = ToDate(x)
  BY <1>1, <1>2
<1>4. ASSUME NEW x \in Nat, NEW y \in Nat, x <= y PROVE ToDate(x) <= ToDate(y)
  BY <1>1, <1>2, <1>4
<1>5. ASSUME NEW x \in Nat, NEW y \in Nat, x <= y, ToDate(y) <= x
      PROVE  ToDate(x) = ToDate(y)
  BY <1>1, <1>2, <1>4, <1>5
<1> QED
  BY <1>1, <1>3, <1>4, <1>5

-----------------------------------------------------------------------------
(* What the model keeps. *)

ShownItem == [note : Notes, at : 0..MaxClock]

ListingRecord ==
  [pc : {"idle", "page", "done"}, user : Readers \cup {NoReader}, cursor : 0..MaxClock + 1,
   shown : Seq(ShownItem), there : SUBSET Notes, ends : SUBSET (0..MaxClock)]

MarkRecord ==
  [pc : {"idle", "reload", "update", "insert"}, note : Notes \cup {NoNote}, seen : NoteRow]

InboxTyped ==
  /\ note \in [Notes -> NoteRow]
  /\ now \in 0..MaxClock
  /\ listing \in [Listings -> ListingRecord]
  /\ mark \in [Marks -> MarkRecord]
  /\ asks \in 0..MaxMarks
  /\ removed \subseteq Notes /\ held \subseteq removed

\* A row has a user, or is none; and there are so many.
RowsOK ==
  /\ \A n \in Notes : note[n].user = NoReader => note[n] = Absent
  /\ IsFiniteSet({n \in Notes : Exists(n)})

\* A mark holds a note that has been there; if it is gone, it was removed under it.
MarksOK ==
  \A m \in Marks : mark[m].pc # "idle" =>
    /\ mark[m].note \in Notes /\ mark[m].seen.user \in Readers
    /\ Used(mark[m].note)
    /\ Exists(mark[m].note) \/ mark[m].note \in held

\* The date of a note, d[n], is that of its row, of the entity that a mark holds, and of
\* the item that a listing has shown: a mark that brings it back keeps the date.
Dated(d) ==
  /\ \A n \in Notes : Exists(n) => ToDate(note[n].at) = d[n]
  /\ \A m \in Marks : mark[m].pc # "idle" => ToDate(mark[m].seen.at) = d[mark[m].note]
  /\ \A l \in Listings : \A i \in 1..Len(listing[l].shown) :
       /\ Used(listing[l].shown[i].note)
       /\ ToDate(listing[l].shown[i].at) = d[listing[l].shown[i].note]

\* A listing r that holds a page's cursor has shown what is not before it.
InOrder(r) ==
  /\ \A i, j \in 1..Len(r.shown) : i < j =>
       r.shown[i].note # r.shown[j].note /\ r.shown[i].at >= r.shown[j].at
  /\ r.pc = "page" => /\ r.user \in Readers
                      /\ \A i \in 1..Len(r.shown) : ToDate(r.shown[i].at) >= r.cursor

Shows(r, n) == \E i \in 1..Len(r.shown) : r.shown[i].note = n

Skips(r, n) == \E end \in r.ends : ToDate(end) = ToDate(note[n].at)

Covers(r) ==
  /\ \A n \in r.there : Used(n)
  /\ \A n \in r.there \ removed :
       /\ r.pc = "page" => /\ note[n].user = r.user
                           /\ Shows(r, n) \/ Skips(r, n) \/ note[n].at < r.cursor
       /\ r.pc = "done" => Shows(r, n) \/ Skips(r, n)

ListingsOK == \A l \in Listings : InOrder(listing[l]) /\ Covers(listing[l])

InboxInv ==
  /\ InboxTyped /\ RowsOK /\ MarksOK /\ ListingsOK /\ RemovedStaysAway
  /\ \E d \in [Notes -> Nat] : Dated(d)

LEMMA InboxInvMeans == InboxInv => InboxWhole
<1> SUFFICES ASSUME InboxInv PROVE InboxWhole
  OBVIOUS
<1>1. ASSUME NEW l \in Listings
      PROVE  /\ \A i, j \in DOMAIN listing[l].shown : i < j =>
                  /\ listing[l].shown[i].note # listing[l].shown[j].note
                  /\ listing[l].shown[i].at >= listing[l].shown[j].at
             /\ listing[l].pc = "done" =>
                  \A n \in listing[l].there \ removed :
                    n \in ShownBy(l) \/ \E e \in listing[l].ends : ToDate(e) = ToDate(note[n].at)
  <2>1. listing[l].shown \in Seq(ShownItem)
    BY DEF InboxInv, InboxTyped, ListingRecord
  <2>2. DOMAIN listing[l].shown = 1..Len(listing[l].shown)
    BY <2>1, LenProperties
  <2>3. InOrder(listing[l]) /\ Covers(listing[l])
    BY DEF InboxInv, ListingsOK
  <2>4. \A n : Shows(listing[l], n) => n \in ShownBy(l)
    BY <2>2 DEF Shows, ShownBy, Range
  <2>5. \A i, j \in DOMAIN listing[l].shown : i < j =>
           /\ listing[l].shown[i].note # listing[l].shown[j].note
           /\ listing[l].shown[i].at >= listing[l].shown[j].at
    BY <2>2, <2>3 DEF InOrder
  <2> QED
    BY <2>3, <2>4, <2>5 DEF Covers, Skips
<1>2. ListsWhole
  BY <1>1 DEF ListsWhole
<1> QED
  BY <1>2 DEF InboxInv, InboxWhole

LEMMA AbsentIsRow ==
  /\ Absent \in NoteRow /\ Absent.user = NoReader /\ Absent.at = 0
  /\ \A r \in NoteRow : r.user \in Readers => r # Absent
BY InboxAssumption DEF Absent, NoteRow

LEMMA InboxStart == InboxInit => InboxInv
<1> SUFFICES ASSUME InboxInit PROVE InboxInv
  OBVIOUS
<1>1. NoListing \in ListingRecord /\ NoListing.pc = "idle" /\ NoListing.shown = <<>>
      /\ NoListing.there = {}
  BY InboxAssumption, EmptySeq DEF NoListing, ListingRecord
<1>2. NoMark \in MarkRecord /\ NoMark.pc = "idle"
  BY AbsentIsRow DEF NoMark, MarkRecord
<1>3. InboxTyped
  BY <1>1, <1>2, AbsentIsRow, InboxAssumption DEF InboxInit, InboxTyped
<1>4. {n \in Notes : Exists(n)} = {}
  BY DEF InboxInit, Exists
<1>5. RowsOK
  BY <1>4, FS_EmptySet DEF RowsOK, InboxInit
<1>6. MarksOK
  BY <1>2 DEF MarksOK, InboxInit
<1>a. Len(<<>>) = 0 /\ 1..0 = {}
  OBVIOUS
<1>7. ListingsOK
  BY <1>1, <1>a DEF ListingsOK, InOrder, Covers, InboxInit
<1>8. Dated([n \in Notes |-> 0])
  BY <1>1, <1>2, <1>4, <1>a DEF Dated, InboxInit
<1> QED
  BY <1>3, <1>5, <1>6, <1>7, <1>8 DEF InboxInv, RemovedStaysAway, InboxInit

\* Rows that stay, or are removed, or are new.
RowsKept ==
  /\ removed \subseteq removed'
  /\ \A n \in Notes : Used(n) => Used(n)'
  /\ \A n \in Notes : Used(n) /\ n \notin removed' =>
       note'[n].user = note[n].user /\ note'[n].at = note[n].at

LEMMA ListingsKept ==
  ASSUME InboxInv, RowsKept, listing' = listing
  PROVE  ListingsOK'
<1> SUFFICES ASSUME NEW l \in Listings
             PROVE  InOrder(listing[l])' /\ Covers(listing[l])'
  BY DEF ListingsOK
<1>1. InOrder(listing[l]) /\ Covers(listing[l]) /\ listing[l] \in ListingRecord
  BY DEF InboxInv, ListingsOK, InboxTyped
<1>2. InOrder(listing[l])'
  BY <1>1 DEF InOrder
<1>3. \A n \in listing[l].there : n \in Notes /\ Used(n) /\ Used(n)'
  BY <1>1 DEF Covers, RowsKept, ListingRecord
<1>4. \A n \in listing[l].there \ removed' :
        /\ n \in listing[l].there \ removed
        /\ note'[n].user = note[n].user /\ note'[n].at = note[n].at
  BY <1>3 DEF RowsKept
<1>5. Covers(listing[l])'
  BY <1>1, <1>3, <1>4 DEF Covers, Shows, Skips
<1> QED
  BY <1>2, <1>5

\* Rows that keep their dates.
LEMMA DatesKept ==
  ASSUME InboxInv, RowsKept, listing' = listing,
         NEW d \in [Notes -> Nat], Dated(d),
         \A n \in Notes : Exists(n)' => Used(n) /\ ToDate(note'[n].at) = d[n],
         \A m \in Marks : mark'[m].pc # "idle" => ToDate(mark'[m].seen.at) = d[mark'[m].note]
  PROVE  Dated(d)'
<1>1. \A l \in Listings : \A i \in 1..Len(listing[l].shown) : listing[l].shown[i].note \in Notes
  <2> SUFFICES ASSUME NEW l \in Listings, NEW i \in 1..Len(listing[l].shown)
               PROVE  listing[l].shown[i].note \in Notes
    OBVIOUS
  <2>1. listing[l].shown \in Seq(ShownItem)
    BY DEF InboxInv, InboxTyped, ListingRecord
  <2>2. listing[l].shown[i] \in ShownItem
    BY <2>1, ElementOfSeq
  <2> QED
    BY <2>2 DEF ShownItem
<1> QED
  BY <1>1 DEF Dated, RowsKept

LEMMA CreateOK ==
  ASSUME InboxInv, NEW u \in Readers, CreateAndPush(u)
  PROVE  InboxInv'
<1> DEFINE new == CHOOSE n \in Notes : ~ Used(n)
           row == [user |-> u, at |-> now, isRead |-> FALSE]
<1>1. /\ new \in Notes /\ ~ Used(new) /\ note' = [note EXCEPT ![new] = row]
      /\ UNCHANGED <<now, listing, mark, asks, removed, held>>
  BY DEF CreateAndPush
<1> HIDE DEF new
<1>2. row \in NoteRow /\ row.user = u /\ row.at = now /\ row # Absent
  BY AbsentIsRow DEF NoteRow, InboxInv, InboxTyped
<1> HIDE DEF row
<1>3. note'[new] = row /\ \A n \in Notes \ {new} : note'[n] = note[n]
  BY <1>1 DEF InboxInv, InboxTyped
<1>4. InboxTyped'
  BY <1>1, <1>2 DEF InboxInv, InboxTyped
<1>5. \A n \in Notes : (Exists(n)' <=> n = new \/ Exists(n)) /\ (Used(n)' <=> n = new \/ Used(n))
  BY <1>1, <1>2, <1>3 DEF Exists, Used
<1>6. RowsOK'
  <2>1. {n \in Notes : Exists(n)'} = {n \in Notes : Exists(n)} \cup {new}
    BY <1>1, <1>5
  <2>2. IsFiniteSet({n \in Notes : Exists(n)'})
    BY <2>1, FS_AddElement DEF InboxInv, RowsOK
  <2>3. \A n \in Notes : note'[n].user = NoReader => note'[n] = Absent
    BY <1>2, <1>3, InboxAssumption DEF InboxInv, RowsOK
  <2> QED
    BY <2>2, <2>3 DEF RowsOK
<1>7. MarksOK'
  BY <1>1, <1>5 DEF InboxInv, MarksOK
<1>8. RowsKept
  BY <1>1, <1>3, <1>5 DEF RowsKept
<1>9. RemovedStaysAway'
  BY <1>1, <1>5 DEF InboxInv, InboxTyped, RemovedStaysAway, Used
<1>10. PICK d \in [Notes -> Nat] : Dated(d)
  BY DEF InboxInv
<1>11. ToDate(now) \in Nat
  BY Dates DEF InboxInv, InboxTyped
<1>12. PICK e \in [Notes -> Nat] : e[new] = ToDate(now) /\ \A n \in Notes \ {new} : e[n] = d[n]
  <2> DEFINE f == [d EXCEPT ![new] = ToDate(now)]
  <2>1. f \in [Notes -> Nat] /\ f[new] = ToDate(now) /\ \A n \in Notes \ {new} : f[n] = d[n]
    BY <1>1, <1>11
  <2> HIDE DEF f
  <2> QED
    BY <2>1
<1>13. Dated(e)
  <2>1. \A n \in Notes : Exists(n) => ToDate(note[n].at) = e[n]
    BY <1>1, <1>10, <1>12 DEF Dated, Used
  <2>2. \A m \in Marks : mark[m].pc # "idle" => ToDate(mark[m].seen.at) = e[mark[m].note]
    BY <1>1, <1>10, <1>12 DEF Dated, InboxInv, MarksOK
  <2>3. ASSUME NEW l \in Listings, NEW i \in 1..Len(listing[l].shown)
        PROVE  /\ Used(listing[l].shown[i].note)
               /\ ToDate(listing[l].shown[i].at) = e[listing[l].shown[i].note]
    <3>1. listing[l].shown \in Seq(ShownItem)
      BY DEF InboxInv, InboxTyped, ListingRecord
    <3>2. listing[l].shown[i] \in ShownItem
      BY <3>1, ElementOfSeq
    <3>3. listing[l].shown[i].note \in Notes
      BY <3>2 DEF ShownItem
    <3> QED
      BY <1>1, <1>10, <1>12, <3>3 DEF Dated
  <2> QED
    BY <2>1, <2>2, <2>3 DEF Dated
<1>14. Dated(e)'
  <2>1. \A n \in Notes : Exists(n)' => ToDate(note'[n].at) = e[n]
    BY <1>2, <1>3, <1>5, <1>12, <1>13 DEF Dated
  <2>2. \A n : Used(n) => Used(n)'
    BY <1>1, <1>3 DEF Used, Exists, InboxInv, InboxTyped
  <2>3. \A m \in Marks : mark'[m].pc # "idle" => ToDate(mark'[m].seen.at) = e[mark'[m].note]
    BY <1>1, <1>13 DEF Dated
  <2>4. \A l \in Listings : \A i \in 1..Len(listing'[l].shown) :
          /\ Used(listing[l].shown[i].note)'
          /\ ToDate(listing'[l].shown[i].at) = e[listing'[l].shown[i].note]
    <3> SUFFICES ASSUME NEW l \in Listings, NEW i \in 1..Len(listing'[l].shown)
                 PROVE  /\ Used(listing[l].shown[i].note)'
                        /\ ToDate(listing'[l].shown[i].at) = e[listing'[l].shown[i].note]
      OBVIOUS
    <3>1. PICK x : x = listing[l].shown[i].note
      OBVIOUS
    <3>2. Used(x) /\ ToDate(listing[l].shown[i].at) = e[x] /\ listing' = listing
      BY <1>1, <1>13, <3>1 DEF Dated
    <3>3. Used(x)'
      BY <2>2, <3>2
    <3> QED
      BY <3>1, <3>2, <3>3 DEF Used, Exists
  <2> QED
    BY <2>1, <2>3, <2>4 DEF Dated
<1>15. ListingsOK'
  BY <1>1, <1>8, ListingsKept
<1> QED
  BY <1>4, <1>6, <1>7, <1>9, <1>12, <1>14, <1>15 DEF InboxInv

\* Only the mark m moves, or nobody does.
LEMMA ClockOK ==
  ASSUME InboxInv, PassMicrosecond
  PROVE  InboxInv'
<1>1. now' \in 0..MaxClock /\ UNCHANGED <<note, listing, mark, asks, removed, held>>
  BY InboxAssumption DEF PassMicrosecond, InboxInv, InboxTyped
<1>2. RowsKept
  BY <1>1 DEF RowsKept, Used, Exists
<1>3. ListingsOK'
  BY <1>1, <1>2, ListingsKept
<1>4. \A d : Dated(d) => Dated(d)'
  BY <1>1 DEF Dated, Used, Exists
<1>5. InboxTyped' /\ RowsOK' /\ MarksOK' /\ RemovedStaysAway'
  BY <1>1 DEF InboxInv, InboxTyped, RowsOK, MarksOK, RemovedStaysAway, Used, Exists
<1> QED
  BY <1>3, <1>4, <1>5 DEF InboxInv

\* A note known by its user exists.
LEMMA KnownExists ==
  ASSUME InboxInv, NEW n \in Notes, NEW u \in Readers, note[n].user = u
  PROVE  Exists(n)
BY AbsentIsRow DEF InboxInv, InboxTyped, Exists

LEMMA MarkOK ==
  ASSUME InboxInv, NEW m \in Marks, NEW n \in Notes, NEW u \in Readers, MarkAsRead(m, n, u)
  PROVE  InboxInv'
<1> DEFINE seen == [note[n] EXCEPT !.isRead = TRUE, !.at = ToDate(@)]
           k == [pc |-> "reload", note |-> n, seen |-> seen]
<1>1. /\ note[n].user = u /\ mark' = [mark EXCEPT ![m] = k] /\ asks' \in 0..MaxMarks
      /\ UNCHANGED <<note, now, listing, removed, held>>
  BY InboxAssumption DEF MarkAsRead, Ask, InboxInv, InboxTyped
<1>2. note[n] \in NoteRow /\ note[n].at \in 0..MaxClock /\ note[n].at \in Nat
  BY DEF InboxInv, InboxTyped, NoteRow
<1>3. ToDate(note[n].at) \in 0..MaxClock /\ ToDate(ToDate(note[n].at)) = ToDate(note[n].at)
  BY <1>2, Dates, InboxAssumption
<1>4. seen \in NoteRow /\ seen.user = u /\ seen.at = ToDate(note[n].at)
  <2> DEFINE at == ToDate(note[n].at)
  <2>1. seen = [note[n] EXCEPT !.isRead = TRUE, !.at = at]
    BY <1>2 DEF NoteRow
  <2>2. at \in 0..MaxClock
    BY <1>3
  <2> HIDE DEF at, seen
  <2>3. seen \in NoteRow /\ seen.user = note[n].user /\ seen.at = at
    BY <1>2, <2>1, <2>2 DEF NoteRow
  <2> QED
    BY <1>1, <2>3 DEF at
<1> HIDE DEF seen
<1>5. k \in MarkRecord /\ k.pc = "reload" /\ k.note = n /\ k.seen = seen
  BY <1>4 DEF MarkRecord
<1> HIDE DEF k
<1>6. mark'[m] = k /\ mark' \in [Marks -> MarkRecord] /\ \A c \in Marks \ {m} : mark'[c] = mark[c]
  BY <1>1, <1>5 DEF InboxInv, InboxTyped
<1>7. InboxTyped'
  BY <1>1, <1>6 DEF InboxInv, InboxTyped
<1>8. Exists(n)
  BY <1>1, KnownExists
<1>9. MarksOK'
  BY <1>1, <1>4, <1>5, <1>6, <1>8 DEF InboxInv, MarksOK, Used, Exists
<1>10. RowsKept
  BY <1>1 DEF RowsKept, Used, Exists
<1>11. ListingsOK'
  BY <1>1, <1>10, ListingsKept
<1>12. PICK d \in [Notes -> Nat] : Dated(d)
  BY DEF InboxInv
<1>13. Dated(d)'
  <2>1. \A c \in Marks : mark'[c].pc # "idle" => ToDate(mark'[c].seen.at) = d[mark'[c].note]
    BY <1>3, <1>4, <1>5, <1>6, <1>8, <1>12 DEF Dated
  <2>2. \A x \in Notes : Exists(x)' => Used(x) /\ ToDate(note'[x].at) = d[x]
    BY <1>1, <1>12 DEF Dated, Exists, Used
  <2> QED
    BY <1>1, <1>10, <1>12, <2>1, <2>2, DatesKept
<1>14. RowsOK' /\ RemovedStaysAway'
  BY <1>1 DEF InboxInv, RowsOK, RemovedStaysAway, Exists
<1> QED
  BY <1>7, <1>9, <1>11, <1>13, <1>14 DEF InboxInv

LEMMA ReloadOK ==
  ASSUME InboxInv, NEW m \in Marks, ReloadNote(m)
  PROVE  InboxInv'
<1> DEFINE where == IF Exists(mark[m].note) THEN "update" ELSE "insert"
<1>1. /\ mark[m].pc = "reload" /\ mark' = [mark EXCEPT ![m].pc = where]
      /\ UNCHANGED <<note, now, listing, asks, removed, held>>
  BY DEF ReloadNote
<1>2. where \in {"update", "insert"}
  OBVIOUS
<1> HIDE DEF where
<1>3. /\ mark'[m] \in MarkRecord /\ mark'[m].note = mark[m].note /\ mark'[m].seen = mark[m].seen
      /\ mark' \in [Marks -> MarkRecord] /\ \A c \in Marks \ {m} : mark'[c] = mark[c]
  BY <1>1, <1>2 DEF InboxInv, InboxTyped, MarkRecord
<1>4. InboxTyped'
  BY <1>1, <1>3 DEF InboxInv, InboxTyped
<1>5. MarksOK'
  BY <1>1, <1>3 DEF InboxInv, MarksOK, Used, Exists
<1>6. RowsKept
  BY <1>1 DEF RowsKept, Used, Exists
<1>7. ListingsOK'
  BY <1>1, <1>6, ListingsKept
<1>8. PICK d \in [Notes -> Nat] : Dated(d)
  BY DEF InboxInv
<1>9. Dated(d)'
  <2>1. \A c \in Marks : mark'[c].pc # "idle" => ToDate(mark'[c].seen.at) = d[mark'[c].note]
    BY <1>1, <1>3, <1>8 DEF Dated
  <2>2. \A x \in Notes : Exists(x)' => Used(x) /\ ToDate(note'[x].at) = d[x]
    BY <1>1, <1>8 DEF Dated, Exists, Used
  <2> QED
    BY <1>1, <1>6, <1>8, <2>1, <2>2, DatesKept
<1>10. RowsOK' /\ RemovedStaysAway'
  BY <1>1 DEF InboxInv, RowsOK, RemovedStaysAway, Exists
<1> QED
  BY <1>4, <1>5, <1>7, <1>9, <1>10 DEF InboxInv

\* A mark has ended, and at most changed a row to one with the date of its note.
LEMMA MarkEnds ==
  ASSUME InboxInv, NEW m \in Marks, mark[m].pc # "idle", mark' = [mark EXCEPT ![m] = NoMark],
         UNCHANGED <<now, listing, asks, removed, held>>,
         NEW k, k = mark[m].note,
         note' \in [Notes -> NoteRow],
         \A n \in Notes \ {k} : note'[n] = note[n],
         \/ note'[k] = note[k]
         \/ /\ note'[k].user \in Readers
            /\ Exists(k) => note'[k].user = note[k].user /\ note'[k].at = note[k].at
            /\ ~ Exists(k) => note'[k].at = mark[m].seen.at
  PROVE  InboxInv'
<1>1. NoMark \in MarkRecord /\ NoMark.pc = "idle"
  BY AbsentIsRow DEF NoMark, MarkRecord
<1>2. mark'[m] = NoMark /\ mark' \in [Marks -> MarkRecord] /\ \A c \in Marks \ {m} : mark'[c] = mark[c]
  BY <1>1 DEF InboxInv, InboxTyped
<1>3. InboxTyped'
  BY <1>2 DEF InboxInv, InboxTyped
<1>4. k \in Notes /\ Used(k) /\ (Exists(k) \/ k \in held)
  BY DEF InboxInv, MarksOK
<1>5. note'[k] = note[k] \/ (Exists(k)' /\ note'[k].user # NoReader)
  BY <1>4, AbsentIsRow, InboxAssumption DEF Exists
<1>6. /\ \A n \in Notes \ {k} : Exists(n)' <=> Exists(n)
      /\ Exists(k) => Exists(k)'
  BY <1>5 DEF Exists
<1>7. \A n \in Notes : (Used(n) <=> Used(n)')
  BY <1>4, <1>6 DEF Used
<1>8. RowsKept
  BY <1>4, <1>7 DEF RowsKept, Used
<1>9. ListingsOK'
  BY <1>8, ListingsKept
<1>10. MarksOK'
  BY <1>1, <1>2, <1>4, <1>6, <1>7 DEF InboxInv, MarksOK
<1>11. RemovedStaysAway'
  BY <1>4, <1>6 DEF InboxInv, InboxTyped, RemovedStaysAway, Used
<1>12. RowsOK'
  <2>1. {n \in Notes : Exists(n)'} \subseteq {n \in Notes : Exists(n)} \cup {k}
    BY <1>6
  <2>2. IsFiniteSet({n \in Notes : Exists(n)} \cup {k})
    BY FS_AddElement DEF InboxInv, RowsOK
  <2>3. IsFiniteSet({n \in Notes : Exists(n)'})
    BY <2>1, <2>2, FS_Subset
  <2>4. \A n \in Notes : note'[n].user = NoReader => note'[n] = Absent
    BY <1>5 DEF InboxInv, RowsOK
  <2> QED
    BY <2>3, <2>4 DEF RowsOK
<1>13. PICK d \in [Notes -> Nat] : Dated(d)
  BY DEF InboxInv
<1>14. Dated(d)'
  <2>1. \A c \in Marks : mark'[c].pc # "idle" => ToDate(mark'[c].seen.at) = d[mark'[c].note]
    BY <1>1, <1>2, <1>13 DEF Dated
  <2>2. ToDate(mark[m].seen.at) = d[k]
    BY <1>13 DEF Dated
  <2>3. \A x \in Notes \ {k} : Exists(x)' => Used(x) /\ ToDate(note'[x].at) = d[x]
    BY <1>6, <1>13 DEF Dated, Used
  <2>4. Exists(k)' => ToDate(note'[k].at) = d[k]
    <3>1. Exists(k) => ToDate(note[k].at) = d[k]
      BY <1>4, <1>13 DEF Dated
    <3>2. CASE note'[k] = note[k]
      BY <3>1, <3>2 DEF Exists
    <3>3. CASE note'[k] # note[k]
      BY <2>2, <3>1, <3>3
    <3> QED
      BY <3>2, <3>3
  <2> QED
    BY <1>4, <1>8, <1>13, <2>1, <2>3, <2>4, DatesKept
<1> QED
  BY <1>3, <1>9, <1>10, <1>11, <1>12, <1>14 DEF InboxInv

LEMMA UpdateOK ==
  ASSUME InboxInv, NEW m \in Marks, UpdateNote(m)
  PROVE  InboxInv'
<1> DEFINE k == mark[m].note
<1>1. /\ mark[m].pc = "update" /\ mark' = [mark EXCEPT ![m] = NoMark]
      /\ note' = IF Exists(k) THEN [note EXCEPT ![k].isRead = TRUE] ELSE note
      /\ UNCHANGED <<now, listing, asks, removed, held>>
  BY DEF UpdateNote
<1>2. k \in Notes /\ note \in [Notes -> NoteRow] /\ note[k] \in NoteRow
  BY <1>1 DEF InboxInv, MarksOK, InboxTyped
<1>3. note' \in [Notes -> NoteRow] /\ \A n \in Notes \ {k} : note'[n] = note[n]
  BY <1>1, <1>2 DEF NoteRow
<1>4. note'[k] = note[k] \/ (Exists(k) /\ note'[k].user = note[k].user /\ note'[k].at = note[k].at)
  BY <1>1, <1>2 DEF NoteRow
<1>5. Exists(k) => note[k].user \in Readers
  BY <1>2 DEF InboxInv, RowsOK, Exists, NoteRow
<1> HIDE DEF k
<1> QED
  BY <1>1, <1>3, <1>4, <1>5, MarkEnds DEF k

LEMMA InsertOK ==
  ASSUME InboxInv, NEW m \in Marks, InsertNote(m)
  PROVE  InboxInv'
<1> DEFINE k == mark[m].note
<1>1. /\ mark[m].pc = "insert" /\ mark' = [mark EXCEPT ![m] = NoMark]
      /\ note' = IF Exists(k) THEN note ELSE [note EXCEPT ![k] = mark[m].seen]
      /\ UNCHANGED <<now, listing, asks, removed, held>>
  BY DEF InsertNote
<1>2. k \in Notes /\ note \in [Notes -> NoteRow] /\ mark[m].seen.user \in Readers
  BY <1>1 DEF InboxInv, MarksOK, InboxTyped
<1>3. mark[m].seen \in NoteRow
  BY DEF InboxInv, InboxTyped, MarkRecord
<1>4. note' \in [Notes -> NoteRow] /\ \A n \in Notes \ {k} : note'[n] = note[n]
  BY <1>1, <1>2, <1>3
<1>5. note'[k] = note[k] \/ (~ Exists(k) /\ note'[k] = mark[m].seen)
  BY <1>1, <1>2
<1> HIDE DEF k
<1> QED
  BY <1>1, <1>2, <1>4, <1>5, MarkEnds DEF k

LEMMA MarkAllOK ==
  ASSUME InboxInv, NEW u \in Readers, MarkAllAsRead(u)
  PROVE  InboxInv'
<1>1. /\ note' = [n \in Notes |-> IF note[n].user = u THEN [note[n] EXCEPT !.isRead = TRUE]
                                                      ELSE note[n]]
      /\ asks' \in 0..MaxMarks /\ UNCHANGED <<now, listing, mark, removed, held>>
  BY InboxAssumption DEF MarkAllAsRead, Ask, InboxInv, InboxTyped
<1>2. ASSUME NEW n \in Notes
      PROVE  /\ note'[n] \in NoteRow /\ note'[n].user = note[n].user /\ note'[n].at = note[n].at
             /\ Exists(n)' <=> Exists(n)
             /\ note'[n].user = NoReader => note'[n] = Absent
  <2>1. note[n] \in NoteRow /\ (note[n].user = NoReader => note[n] = Absent)
    BY DEF InboxInv, InboxTyped, RowsOK
  <2>2. CASE note[n].user = u
    <3> DEFINE r == [note[n] EXCEPT !.isRead = TRUE]
    <3>1. note'[n] = r
      BY <1>1, <2>2
    <3>2. r \in NoteRow /\ r.user = u /\ r.at = note[n].at
      BY <2>1, <2>2 DEF NoteRow
    <3> HIDE DEF r
    <3> QED
      BY <2>1, <2>2, <3>1, <3>2, AbsentIsRow, InboxAssumption DEF Exists
  <2>3. CASE note[n].user # u
    <3>1. note'[n] = note[n]
      BY <1>1, <2>3
    <3> QED
      BY <2>1, <3>1 DEF Exists
  <2> QED
    BY <2>2, <2>3
<1>3. note' \in [Notes -> NoteRow]
  <2>1. note' = [n \in Notes |-> note'[n]]
    BY <1>1
  <2> QED
    BY <1>2, <2>1
<1>4. \A n \in Notes : Used(n)' <=> Used(n)
  BY <1>1, <1>2 DEF Used
<1>5. InboxTyped'
  BY <1>1, <1>3 DEF InboxInv, InboxTyped
<1>6. RowsKept
  BY <1>1, <1>2, <1>4 DEF RowsKept
<1>7. ListingsOK'
  BY <1>1, <1>6, ListingsKept
<1>8. {n \in Notes : Exists(n)'} = {n \in Notes : Exists(n)}
  BY <1>2
<1>9. RowsOK'
  BY <1>2, <1>8 DEF InboxInv, RowsOK
<1>10. MarksOK'
  BY <1>1, <1>2, <1>4 DEF InboxInv, MarksOK
<1>11. RemovedStaysAway'
  BY <1>1, <1>2 DEF InboxInv, InboxTyped, RemovedStaysAway
<1>12. PICK d \in [Notes -> Nat] : Dated(d)
  BY DEF InboxInv
<1>13. Dated(d)'
  <2>1. \A m \in Marks : mark'[m].pc # "idle" => ToDate(mark'[m].seen.at) = d[mark'[m].note]
    BY <1>1, <1>12 DEF Dated
  <2>2. \A x \in Notes : Exists(x)' => Used(x) /\ ToDate(note'[x].at) = d[x]
    BY <1>2, <1>12 DEF Dated, Used
  <2> QED
    BY <1>1, <1>6, <1>12, <2>1, <2>2, DatesKept
<1> QED
  BY <1>5, <1>7, <1>9, <1>10, <1>11, <1>13 DEF InboxInv

LEMMA RemoveOK ==
  ASSUME InboxInv, NEW n \in Notes, NEW u \in Readers, RemoveNote(n, u)
  PROVE  InboxInv'
<1>1. /\ note[n].user = u /\ note' = [note EXCEPT ![n] = Absent] /\ removed' = removed \cup {n}
      /\ held' = IF \E m \in Marks : mark[m].note = n THEN held \cup {n} ELSE held
      /\ asks' \in 0..MaxMarks /\ UNCHANGED <<now, listing, mark>>
  BY InboxAssumption DEF RemoveNote, Ask, InboxInv, InboxTyped
<1>2. note'[n] = Absent /\ \A x \in Notes \ {n} : note'[x] = note[x]
  BY <1>1 DEF InboxInv, InboxTyped
<1>3. /\ ~ Exists(n)' /\ Used(n)'
      /\ \A x \in Notes \ {n} : (Exists(x)' <=> Exists(x)) /\ (Used(x)' <=> Used(x))
  BY <1>1, <1>2 DEF Exists, Used
<1>4. InboxTyped'
  BY <1>1, AbsentIsRow DEF InboxInv, InboxTyped
<1>5. RowsOK'
  <2>1. {x \in Notes : Exists(x)'} \subseteq {x \in Notes : Exists(x)}
    BY <1>3
  <2>2. IsFiniteSet({x \in Notes : Exists(x)'})
    BY <2>1, FS_Subset DEF InboxInv, RowsOK
  <2>3. \A x \in Notes : note'[x].user = NoReader => note'[x] = Absent
    BY <1>2 DEF InboxInv, RowsOK
  <2> QED
    BY <2>2, <2>3 DEF RowsOK
<1>6. MarksOK'
  <2> SUFFICES ASSUME NEW m \in Marks, mark[m].pc # "idle"
               PROVE  /\ mark[m].note \in Notes /\ mark[m].seen.user \in Readers
                      /\ Used(mark[m].note)'
                      /\ Exists(mark[m].note)' \/ mark[m].note \in held'
    BY <1>1 DEF MarksOK
  <2>1. /\ mark[m].note \in Notes /\ mark[m].seen.user \in Readers /\ Used(mark[m].note)
        /\ Exists(mark[m].note) \/ mark[m].note \in held
    BY DEF InboxInv, MarksOK
  <2>2. CASE mark[m].note = n
    BY <1>1, <1>3, <2>1, <2>2 DEF Used
  <2>3. CASE mark[m].note # n
    BY <1>1, <1>2, <2>1, <2>3 DEF Used, Exists
  <2> QED
    BY <2>2, <2>3
<1>7. RowsKept
  BY <1>1, <1>2, <1>3 DEF RowsKept
<1>8. ListingsOK'
  BY <1>1, <1>7, ListingsKept
<1>9. RemovedStaysAway'
  BY <1>1, <1>3 DEF InboxInv, InboxTyped, RemovedStaysAway
<1>10. PICK d \in [Notes -> Nat] : Dated(d)
  BY DEF InboxInv
<1>11. Dated(d)'
  <2>1. \A m \in Marks : mark'[m].pc # "idle" => ToDate(mark'[m].seen.at) = d[mark'[m].note]
    BY <1>1, <1>10 DEF Dated
  <2>2. \A x \in Notes : Exists(x)' => Used(x) /\ ToDate(note'[x].at) = d[x]
    BY <1>2, <1>3, <1>10 DEF Dated, Used
  <2> QED
    BY <1>1, <1>7, <1>10, <2>1, <2>2, DatesKept
<1> QED
  BY <1>4, <1>5, <1>6, <1>8, <1>9, <1>11 DEF InboxInv

\* A listing goes on, with what it had shown or what is there now.
LEMMA ListingGoesOn ==
  ASSUME InboxInv, NEW l \in Listings, NEW q \in ListingRecord,
         listing' = [listing EXCEPT ![l] = q],
         UNCHANGED <<note, now, mark, asks, removed, held>>,
         InOrder(q), Covers(q),
         \A i \in 1..Len(q.shown) :
           \/ \E j \in 1..Len(listing[l].shown) : q.shown[i] = listing[l].shown[j]
           \/ /\ q.shown[i].note \in Notes /\ Exists(q.shown[i].note)
              /\ q.shown[i].at = note[q.shown[i].note].at
  PROVE  InboxInv'
<1>1. listing'[l] = q /\ \A k \in Listings \ {l} : listing'[k] = listing[k]
  BY DEF InboxInv, InboxTyped
<1>2. /\ InboxTyped' /\ RowsOK' /\ MarksOK' /\ RemovedStaysAway'
  BY DEF InboxInv, InboxTyped, RowsOK, MarksOK, RemovedStaysAway, Used, Exists
<1>3. ListingsOK'
  <2> SUFFICES ASSUME NEW k \in Listings PROVE InOrder(listing[k])' /\ Covers(listing[k])'
    BY DEF ListingsOK
  <2>1. CASE k = l
    <3>1. InOrder(listing[k])'
      BY <1>1, <2>1 DEF InOrder
    <3>2. Covers(listing[k])'
      BY <1>1, <2>1 DEF Covers, Shows, Skips, Used, Exists
    <3> QED
      BY <3>1, <3>2
  <2>2. CASE k # l
    <3>1. InOrder(listing[k]) /\ Covers(listing[k]) /\ listing'[k] = listing[k]
      BY <1>1, <2>2 DEF InboxInv, ListingsOK
    <3>2. InOrder(listing[k])'
      BY <3>1 DEF InOrder
    <3>3. Covers(listing[k])'
      BY <3>1 DEF Covers, Shows, Skips, Used, Exists
    <3> QED
      BY <3>2, <3>3
  <2> QED
    BY <2>1, <2>2
<1>4. PICK d \in [Notes -> Nat] : Dated(d)
  BY DEF InboxInv
<1>5. \A i \in 1..Len(q.shown) :
        Used(q.shown[i].note) /\ ToDate(q.shown[i].at) = d[q.shown[i].note]
  <2> SUFFICES ASSUME NEW i \in 1..Len(q.shown)
               PROVE  Used(q.shown[i].note) /\ ToDate(q.shown[i].at) = d[q.shown[i].note]
    OBVIOUS
  <2>1. CASE \E j \in 1..Len(listing[l].shown) : q.shown[i] = listing[l].shown[j]
    BY <1>4, <2>1 DEF Dated
  <2>2. CASE /\ q.shown[i].note \in Notes /\ Exists(q.shown[i].note)
             /\ q.shown[i].at = note[q.shown[i].note].at
    BY <1>4, <2>2 DEF Dated, Used
  <2> QED
    BY <2>1, <2>2
<1>6. Dated(d)'
  <2>1. \A n \in Notes : Exists(n)' => ToDate(note'[n].at) = d[n]
    BY <1>4 DEF Dated, Exists
  <2>2. \A m \in Marks : mark'[m].pc # "idle" => ToDate(mark'[m].seen.at) = d[mark'[m].note]
    BY <1>4 DEF Dated
  <2>3. ASSUME NEW k \in Listings, NEW i \in 1..Len(listing'[k].shown)
        PROVE  /\ Used(listing[k].shown[i].note)'
               /\ ToDate(listing'[k].shown[i].at) = d[listing'[k].shown[i].note]
    <3>1. CASE k = l
      BY <1>1, <1>5, <2>3, <3>1 DEF Used, Exists
    <3>2. CASE k # l
      BY <1>1, <1>4, <2>3, <3>2 DEF Dated, Used, Exists
    <3> QED
      BY <3>1, <3>2
  <2> QED
    BY <2>1, <2>2, <2>3 DEF Dated
<1> QED
  BY <1>2, <1>3, <1>6 DEF InboxInv

LEMMA StartListingOK ==
  ASSUME InboxInv, NEW l \in Listings, NEW u \in Readers, StartListing(l, u)
  PROVE  InboxInv'
<1> DEFINE q == [NoListing EXCEPT !.pc = "page", !.user = u, !.cursor = MaxClock + 1,
                                  !.there = NotesOf(u)]
<1>1. /\ listing' = [listing EXCEPT ![l] = q]
      /\ UNCHANGED <<note, now, mark, asks, removed, held>>
  BY DEF StartListing
<1>2. /\ q \in ListingRecord /\ q.pc = "page" /\ q.user = u /\ q.cursor = MaxClock + 1
      /\ q.shown = <<>> /\ q.there = NotesOf(u) /\ q.ends = {}
  <2> DEFINE C == 0..MaxClock + 1
             S == Seq(ShownItem)
             E == SUBSET (0..MaxClock)
             end == MaxClock + 1
             there == NotesOf(u)
             Record == [pc : {"idle", "page", "done"}, user : Readers \cup {NoReader}, cursor : C,
                        shown : S, there : SUBSET Notes, ends : E]
  <2>1. NoListing \in Record /\ NoListing.shown = <<>> /\ NoListing.ends = {}
    BY InboxAssumption, EmptySeq DEF NoListing
  <2>2. there \in SUBSET Notes /\ end \in C
    BY InboxAssumption DEF NotesOf
  <2>3. q = [NoListing EXCEPT !.pc = "page", !.user = u, !.cursor = end, !.there = there]
    OBVIOUS
  <2> HIDE DEF q, C, S, E, end, there
  <2>4. /\ q \in Record /\ q.pc = "page" /\ q.user = u /\ q.cursor = end
        /\ q.shown = NoListing.shown /\ q.there = there /\ q.ends = NoListing.ends
    BY <2>1, <2>2, <2>3
  <2> QED
    BY <2>1, <2>4 DEF C, S, E, end, there, ListingRecord
<1> HIDE DEF q
<1>3. 1..Len(q.shown) = {}
  BY <1>2
<1>4. InOrder(q)
  BY <1>2, <1>3 DEF InOrder
<1>5. \A n \in NotesOf(u) : n \in Notes /\ note[n].user = u /\ Used(n) /\ note[n].at < MaxClock + 1
  BY KnownExists, InboxAssumption DEF NotesOf, Used, InboxInv, InboxTyped, NoteRow
<1>6. Covers(q)
  BY <1>2, <1>5 DEF Covers
<1> QED
  BY <1>1, <1>2, <1>3, <1>4, <1>6, ListingGoesOn

\* The rows that a page reads come in any order, each of them once.
LEMMA Orders ==
  ASSUME NEW S, IsFiniteSet(S), NEW order \in SetToSeqs(S)
  PROVE  /\ order \in Seq(S) /\ Len(order) \in Nat
         /\ \A i, j \in 1..Len(order) : i # j => order[i] # order[j]
         /\ \A x \in S : \E i \in 1..Len(order) : order[i] = x
<1> DEFINE N == Cardinality(S)
<1>1. N \in Nat
  BY FS_CardinalityType
<1>2. order \in [1..N -> S] /\ \A i, j \in 1..N : i # j => order[i] # order[j]
  BY DEF SetToSeqs
<1>3. IsFiniteSet(1..N) /\ Cardinality(1..N) = N
  BY <1>1, FS_Interval
<1> HIDE DEF N
<1>4. order \in Seq(S) /\ Len(order) = N
  BY <1>1, <1>2
<1>5. order \in Injection(1..N, S)
  BY <1>2, Zenon DEF Injection, IsInjective
<1>6. order \in Surjection(1..N, S)
  BY <1>3, <1>5, FS_Injection DEF N
<1> QED
  BY <1>1, <1>2, <1>4, <1>6 DEF Surjection

\* The rows order[1..len] are those of the user of r before its cursor, newest first.
Reads(r, order, len) ==
  /\ \A i \in 1..len : /\ order[i] \in Notes /\ note[order[i]].user = r.user
                        /\ note[order[i]].at < r.cursor
  /\ \A i, j \in 1..len : i < j =>
       order[i] # order[j] /\ note[order[i]].at >= note[order[j]].at
  /\ \A n \in NotesOf(r.user) : note[n].at < r.cursor => \E i \in 1..len : order[i] = n

\* From r to q a page shows the first k of len rows, and goes on behind the last of them.
Pages(r, q, order, len, k) ==
  /\ Len(q.shown) = Len(r.shown) + k
  /\ \A i \in 1..Len(r.shown) : q.shown[i] = r.shown[i]
  /\ \A i \in 1..k : /\ q.shown[Len(r.shown) + i].note = order[i]
                      /\ q.shown[Len(r.shown) + i].at = note[order[i]].at
  /\ q.user = r.user /\ q.there = r.there
  /\ \/ q.pc = "done" /\ k = len /\ q.ends = r.ends
     \/ /\ q.pc = "page" /\ k > 0 /\ q.cursor = ToDate(note[order[k]].at)
        /\ q.ends = r.ends \cup {note[order[k]].at}

LEMMA PageGoesOn ==
  ASSUME InboxInv, NEW l \in Listings, NEW q \in ListingRecord, listing[l].pc = "page",
         listing' = [listing EXCEPT ![l] = q],
         UNCHANGED <<note, now, mark, asks, removed, held>>,
         NEW order, NEW len \in Nat, NEW k \in 0..len,
         Reads(listing[l], order, len), Pages(listing[l], q, order, len, k)
  PROVE  InboxInv'
<1> DEFINE r == listing[l]
           h == Len(r.shown)
<1>a. /\ \A i \in 1..len : /\ order[i] \in Notes /\ note[order[i]].user = r.user
                           /\ note[order[i]].at < r.cursor
      /\ \A i, j \in 1..len : i < j =>
           order[i] # order[j] /\ note[order[i]].at >= note[order[j]].at
  BY DEF Reads
<1>b. \A n \in NotesOf(r.user) : note[n].at < r.cursor => \E i \in 1..len : order[i] = n
  BY DEF Reads
<1>c. /\ Len(q.shown) = h + k /\ \A i \in 1..h : q.shown[i] = r.shown[i]
      /\ \A i \in 1..k : q.shown[h + i].note = order[i] /\ q.shown[h + i].at = note[order[i]].at
  BY DEF Pages
<1>d. /\ q.user = r.user /\ q.there = r.there
      /\ \/ q.pc = "done" /\ k = len /\ q.ends = r.ends
         \/ /\ q.pc = "page" /\ k \in 1..len /\ q.cursor = ToDate(note[order[k]].at)
            /\ q.ends = r.ends \cup {note[order[k]].at}
  BY DEF Pages
<1>e. r.pc = "page" /\ len \in Nat /\ k \in Nat /\ 1..k \subseteq 1..len
  OBVIOUS
<1>1. /\ r \in ListingRecord /\ InOrder(r) /\ Covers(r) /\ r.pc = "page" /\ r.user \in Readers
      /\ r.cursor \in Nat /\ r.shown \in Seq(ShownItem) /\ h \in Nat
  <2>1. r \in ListingRecord /\ InOrder(r) /\ Covers(r)
    BY DEF InboxInv, InboxTyped, ListingsOK
  <2>2. r.cursor \in Nat /\ r.shown \in Seq(ShownItem)
    BY <2>1 DEF ListingRecord
  <2>3. h \in Nat
    BY <2>2, LenProperties
  <2> QED
    BY <1>e, <2>1, <2>2, <2>3 DEF InOrder
<1>2. \A n \in Notes : note[n].at \in Nat
  BY InboxAssumption DEF InboxInv, InboxTyped, NoteRow
<1>3. \A i \in 1..h : r.shown[i].at \in Nat
  <2> SUFFICES ASSUME NEW i \in 1..h PROVE r.shown[i].at \in Nat
    OBVIOUS
  <2>1. r.shown[i] \in ShownItem
    BY <1>1, ElementOfSeq
  <2> QED
    BY <2>1, InboxAssumption DEF ShownItem
<1>4. PICK d \in [Notes -> Nat] : Dated(d)
  BY DEF InboxInv
<1>f. \A i, j \in 1..h : i < j =>
        r.shown[i].note # r.shown[j].note /\ r.shown[i].at >= r.shown[j].at
  BY <1>1 DEF InOrder
<1>g. \A i \in 1..h : /\ ToDate(r.shown[i].at) >= r.cursor
                      /\ ToDate(r.shown[i].at) = d[r.shown[i].note]
  BY <1>1, <1>4 DEF InOrder, Dated
<1>h. \A n \in Notes : Exists(n) => ToDate(note[n].at) = d[n]
  BY <1>4 DEF Dated
<1>5. \A i \in 1..len : Exists(order[i])
  BY <1>1, <1>a, KnownExists
<1>6. ASSUME NEW i \in 1..h, NEW j \in 1..len
      PROVE  r.shown[i].note # order[j] /\ r.shown[i].at >= note[order[j]].at
  <2>1. ToDate(r.shown[i].at) >= r.cursor /\ ToDate(r.shown[i].at) = d[r.shown[i].note]
    BY <1>g
  <2>2. ToDate(note[order[j]].at) = d[order[j]]
    BY <1>5, <1>a, <1>h
  <2>3. /\ note[order[j]].at \in Nat /\ r.shown[i].at \in Nat /\ note[order[j]].at < r.cursor
        /\ ToDate(r.shown[i].at) \in Nat /\ ToDate(r.shown[i].at) <= r.shown[i].at
        /\ ToDate(note[order[j]].at) \in Nat /\ ToDate(note[order[j]].at) <= note[order[j]].at
    BY <1>2, <1>3, <1>a, Dates
  <2> DEFINE x == r.shown[i].at
             y == note[order[j]].at
             dx == ToDate(x)
             dy == ToDate(y)
             c == r.cursor
  <2>4. c \in Nat /\ x \in Nat /\ y \in Nat /\ dx \in Nat /\ dy \in Nat
        /\ dx >= c /\ y < c /\ dx <= x /\ dy <= y
    BY <1>1, <2>1, <2>3
  <2>5. dx = d[r.shown[i].note] /\ dy = d[order[j]]
    BY <2>1, <2>2
  <2> HIDE DEF x, y, dx, dy, c
  <2>6. dx # dy /\ x >= y
    BY <2>4
  <2>7. r.shown[i].note # order[j]
    BY <2>5, <2>6
  <2> QED
    BY <2>6, <2>7 DEF x, y
<1> HIDE DEF r, h
<1>7. \A i \in 1..Len(q.shown) :
        \/ i \in 1..h /\ q.shown[i] = r.shown[i]
        \/ \E j \in 1..k : i = h + j /\ q.shown[i].note = order[j] /\ q.shown[i].at = note[order[j]].at
  <2> SUFFICES ASSUME NEW i \in 1..Len(q.shown), i \notin 1..h
               PROVE  \E j \in 1..k : i = h + j /\ q.shown[i].note = order[j]
                                      /\ q.shown[i].at = note[order[j]].at
    BY <1>c
  <2>1. PICK j \in 1..k : i = h + j
    <3>1. Len(q.shown) = h + k /\ h \in Nat /\ k \in Nat
      BY <1>1, <1>c, <1>e
    <3>2. i - h \in 1..k /\ i = h + (i - h)
      BY <3>1
    <3> QED
      BY <3>2
  <2>2. q.shown[i].note = order[j] /\ q.shown[i].at = note[order[j]].at
    BY <1>c, <2>1
  <2> QED
    BY <2>1, <2>2
<1>8. \A i, j \in 1..Len(q.shown) : i < j =>
        q.shown[i].note # q.shown[j].note /\ q.shown[i].at >= q.shown[j].at
  <2> SUFFICES ASSUME NEW i \in 1..Len(q.shown), NEW j \in 1..Len(q.shown), i < j
               PROVE  q.shown[i].note # q.shown[j].note /\ q.shown[i].at >= q.shown[j].at
    OBVIOUS
  <2>1. CASE j \in 1..h
    <3>1. i \in 1..h /\ q.shown[i] = r.shown[i] /\ q.shown[j] = r.shown[j]
      BY <1>1, <1>c, <2>1
    <3> QED
      BY <1>f, <2>1, <3>1
  <2>2. CASE j \notin 1..h
    <3>1. PICK y \in 1..k : j = h + y /\ q.shown[j].note = order[y] /\ q.shown[j].at = note[order[y]].at
      BY <1>7, <2>2
    <3>2. CASE i \in 1..h
      <4>1. q.shown[i] = r.shown[i] /\ y \in 1..len
        BY <1>c, <1>e, <3>2
      <4>2. r.shown[i].note # order[y] /\ r.shown[i].at >= note[order[y]].at
        BY <1>6, <3>2, <4>1
      <4> QED
        BY <3>1, <4>1, <4>2
    <3>3. CASE i \notin 1..h
      <4>1. PICK x \in 1..k : i = h + x /\ q.shown[i].note = order[x] /\ q.shown[i].at = note[order[x]].at
        BY <1>7, <3>3
      <4>2. x < y /\ x \in 1..len /\ y \in 1..len
        BY <1>1, <1>e, <3>1, <4>1
      <4> QED
        BY <1>a, <3>1, <4>1, <4>2
    <3> QED
      BY <3>2, <3>3
  <2> QED
    BY <2>1, <2>2
<1>9. ASSUME q.pc = "page", NEW i \in 1..Len(q.shown)
      PROVE  ToDate(q.shown[i].at) >= q.cursor
  <2>1. /\ k \in 1..len /\ q.cursor = ToDate(note[order[k]].at) /\ note[order[k]].at \in Nat
        /\ q.cursor \in Nat /\ q.cursor <= note[order[k]].at /\ note[order[k]].at < r.cursor
    <3>1. k \in 1..len /\ q.cursor = ToDate(note[order[k]].at)
      BY <1>9, <1>d
    <3>2. note[order[k]].at \in Nat /\ note[order[k]].at < r.cursor
      BY <1>2, <1>a, <3>1
    <3> QED
      BY <3>1, <3>2, Dates
  <2>2. CASE i \in 1..h
    <3>1. ToDate(r.shown[i].at) >= r.cursor /\ q.shown[i] = r.shown[i]
          /\ ToDate(r.shown[i].at) \in Nat
      BY <1>3, <1>c, <1>g, <2>2, Dates
    <3> QED
      BY <1>1, <2>1, <3>1
  <2>3. CASE i \notin 1..h
    <3>1. PICK j \in 1..k : q.shown[i].at = note[order[j]].at
      BY <1>7, <2>3
    <3>2. j \in 1..len /\ note[order[j]].at \in Nat /\ note[order[k]].at <= note[order[j]].at
      <4>1. j \in 1..len /\ k \in 1..len /\ (j < k \/ j = k)
        BY <1>e, <2>1
      <4> QED
        BY <1>2, <1>a, <4>1
    <3>3. ToDate(note[order[k]].at) <= ToDate(note[order[j]].at)
      BY <2>1, <3>2, Dates
    <3>4. ToDate(note[order[j]].at) \in Nat
      BY <3>2, Dates
    <3> QED
      BY <2>1, <3>1, <3>3, <3>4
  <2> QED
    BY <2>2, <2>3
<1>10. InOrder(q)
  BY <1>1, <1>d, <1>8, <1>9 DEF InOrder
<1>11. ASSUME NEW n \in q.there \ removed
       PROVE  /\ note[n].user = q.user
              /\ Shows(q, n) \/ Skips(q, n) \/ (q.pc = "page" /\ note[n].at < q.cursor)
  <2>1. /\ n \in Notes /\ note[n].user = r.user
        /\ Shows(r, n) \/ Skips(r, n) \/ note[n].at < r.cursor
    BY <1>1, <1>d DEF Covers, ListingRecord
  <2>2. CASE Shows(r, n)
    <3>1. PICK i \in 1..h : r.shown[i].note = n
      BY <2>2 DEF Shows, h
    <3>2. i \in 1..Len(q.shown) /\ q.shown[i].note = n
      BY <1>1, <1>c, <1>e, <3>1
    <3> QED
      BY <1>d, <2>1, <3>2 DEF Shows
  <2>3. CASE Skips(r, n)
    BY <1>d, <2>1, <2>3 DEF Skips
  <2>4. CASE note[n].at < r.cursor
    <3>1. PICK i \in 1..len : order[i] = n
      BY <1>b, <2>1, <2>4 DEF NotesOf
    <3>2. CASE i <= k
      <4>1. i \in 1..k /\ h + i \in 1..Len(q.shown)
        BY <1>1, <1>c, <1>e, <3>2
      <4>2. q.shown[h + i].note = n
        BY <1>c, <3>1, <4>1
      <4> QED
        BY <1>d, <2>1, <4>1, <4>2 DEF Shows
    <3>3. CASE i > k
      <4>1. q.pc = "page" /\ k \in 1..len /\ q.cursor = ToDate(note[order[k]].at)
            /\ note[order[k]].at \in q.ends
        BY <1>d, <1>e, <3>3
      <4>2. note[order[k]].at \in Nat /\ note[n].at \in Nat /\ note[n].at <= note[order[k]].at
        BY <1>2, <1>a, <2>1, <3>1, <3>3, <4>1
      <4>3. q.cursor \in Nat
        BY <4>1, <4>2, Dates
      <4>4. CASE note[n].at < q.cursor
        BY <1>d, <2>1, <4>1, <4>4
      <4>5. CASE q.cursor <= note[n].at
        <5>1. ToDate(note[n].at) = ToDate(note[order[k]].at)
          BY <4>1, <4>2, <4>5, Dates
        <5> QED
          BY <1>d, <2>1, <4>1, <5>1 DEF Skips
      <4> QED
        BY <4>2, <4>3, <4>4, <4>5
    <3> QED
      BY <3>2, <3>3
  <2> QED
    BY <2>1, <2>2, <2>3, <2>4
<1>12. Covers(q)
  BY <1>1, <1>d, <1>11 DEF Covers
<1>13. \A i \in 1..Len(q.shown) :
         \/ \E j \in 1..Len(listing[l].shown) : q.shown[i] = listing[l].shown[j]
         \/ /\ q.shown[i].note \in Notes /\ Exists(q.shown[i].note)
            /\ q.shown[i].at = note[q.shown[i].note].at
  <2> SUFFICES ASSUME NEW i \in 1..Len(q.shown), i \notin 1..h
               PROVE  /\ q.shown[i].note \in Notes /\ Exists(q.shown[i].note)
                      /\ q.shown[i].at = note[q.shown[i].note].at
    BY <1>7, <1>c DEF r, h
  <2>1. PICK j \in 1..k : q.shown[i].note = order[j] /\ q.shown[i].at = note[order[j]].at
    BY <1>7
  <2>2. j \in 1..len
    BY <1>e
  <2> QED
    BY <1>5, <1>a, <2>1, <2>2
<1> QED
  BY <1>10, <1>12, <1>13, ListingGoesOn

LEMMA FindByUserOK ==
  ASSUME InboxInv, NEW l \in Listings, FindByUser(l)
  PROVE  InboxInv'
<1> DEFINE r == listing[l]
           S == {n \in NotesOf(r.user) : note[n].at < r.cursor}
<1>1. r.pc = "page" /\ UNCHANGED <<note, now, mark, asks, removed, held>>
  BY DEF FindByUser
<1>2. PICK order \in SetToSeqs(S) :
        /\ \A i, j \in 1..Len(order) : i < j => note[order[i]].at >= note[order[j]].at
        /\ Page(l, order)
  BY DEF FindByUser
<1>3. /\ r \in ListingRecord /\ r.user \in Readers /\ r.shown \in Seq(ShownItem)
      /\ r.there \in SUBSET Notes /\ r.cursor \in 0..MaxClock + 1 /\ r.ends \in SUBSET (0..MaxClock)
  <2>1. r \in ListingRecord /\ InOrder(r)
    BY DEF InboxInv, InboxTyped, ListingsOK
  <2> QED
    BY <1>1, <2>1 DEF InOrder, ListingRecord
<1>4. \A n \in S : n \in Notes /\ note[n].user = r.user /\ note[n].at < r.cursor /\ Exists(n)
  BY <1>3, KnownExists DEF NotesOf
<1>5. IsFiniteSet(S)
  <2>1. S \subseteq {n \in Notes : Exists(n)}
    BY <1>4
  <2> QED
    BY <2>1, FS_Subset DEF InboxInv, RowsOK
<1>6. /\ order \in Seq(S) /\ Len(order) \in Nat
      /\ \A i, j \in 1..Len(order) : i # j => order[i] # order[j]
      /\ \A x \in S : \E i \in 1..Len(order) : order[i] = x
  <2>1. order \in SetToSeqs(S)
    BY <1>2
  <2> HIDE DEF S
  <2> QED
    BY ONLY <1>5, <2>1, Orders
<1> DEFINE len == Len(order)
           more == len > Limit
           k == IF more THEN Limit ELSE len
           items == SubSeq(order, 1, k)
           recs == [i \in DOMAIN items |-> [note |-> items[i], at |-> note[items[i]].at]]
           last == note[items[Limit]].at
           pc == IF more THEN "page" ELSE "done"
           shown == r.shown \o recs
           cursor == IF more THEN ToDate(last) ELSE r.cursor
           ends == IF more THEN r.ends \cup {last} ELSE r.ends
           q == [r EXCEPT !.pc = pc, !.shown = shown, !.cursor = cursor, !.ends = ends]
<1>7. \A i \in 1..len : order[i] \in S
  BY <1>6, ElementOfSeq
<1>8. k \in 0..len /\ (more => k = Limit /\ Limit \in 1..len) /\ (~ more => k = len)
  BY <1>6, InboxAssumption
<1>9. items \in Seq(S) /\ Len(items) = k /\ \A i \in 1..k : items[i] = order[i]
  <2> HIDE DEF k, S
  <2>1. \A i \in 1..k : order[i] \in S
    BY <1>6, <1>7, <1>8
  <2>2. /\ items \in Seq(S) /\ Len(items) = IF 1 <= k THEN k - 1 + 1 ELSE 0
        /\ \A i \in 1..k - 1 + 1 : items[i] = order[1 + i - 1]
    BY <1>6, <1>8, <2>1, SubSeqProperties
  <2>3. k \in Nat /\ k - 1 + 1 = k /\ \A i \in 1..k : 1 + i - 1 = i
    BY <1>6, <1>8
  <2> QED
    BY <2>2, <2>3
<1>10. DOMAIN items = 1..k
  BY <1>9, LenProperties
<1>11. \A i \in 1..k : /\ order[i] \in Notes /\ note[order[i]].at \in 0..MaxClock
                       /\ recs[i] = [note |-> order[i], at |-> note[order[i]].at]
  <2>1. \A n \in Notes : note[n].at \in 0..MaxClock
    BY DEF InboxInv, InboxTyped, NoteRow
  <2>2. \A i \in 1..k : i \in 1..len
    BY <1>6, <1>8
  <2>3. \A i \in 1..k : order[i] \in Notes
    BY <1>4, <1>7, <2>2
  <2> HIDE DEF items, k, S
  <2> QED
    BY <1>9, <1>10, <2>1, <2>3
<1>12. recs \in Seq(ShownItem) /\ Len(recs) = k
  <2>1. ASSUME NEW i \in 1..k PROVE recs[i] \in ShownItem
    <3> DEFINE n == order[i]
               at == note[n].at
               times == 0..MaxClock
    <3>1. n \in Notes /\ at \in times /\ recs[i] = [note |-> n, at |-> at]
      <4> HIDE DEF recs, k
      <4> QED
        BY <1>11
    <3> HIDE DEF recs, n, at, times
    <3>2. recs[i] \in [note : Notes, at : times]
      BY <3>1
    <3> QED
      BY <3>2 DEF times, ShownItem
  <2>2. k \in Nat
    BY <1>6, <1>8
  <2>3. recs = [i \in 1..k |-> recs[i]]
    <3> HIDE DEF items, k
    <3> QED
      BY <1>10
  <2> HIDE DEF recs, k
  <2> QED
    BY <2>1, <2>2, <2>3
<1> DEFINE h == Len(r.shown)
<1>13. /\ h \in Nat /\ shown \in Seq(ShownItem) /\ Len(shown) = h + k
       /\ \A i \in 1..h : shown[i] = r.shown[i]
       /\ \A i \in 1..k : shown[h + i].note = order[i] /\ shown[h + i].at = note[order[i]].at
  <2>5. ASSUME NEW i \in 1..k PROVE recs[i].note = order[i] /\ recs[i].at = note[order[i]].at
    <3> DEFINE n == order[i]
               at == note[n].at
    <3>1. recs[i] = [note |-> n, at |-> at]
      BY <1>11
    <3> HIDE DEF recs, n, at
    <3>2. recs[i].note = n /\ recs[i].at = at
      BY <3>1
    <3> QED
      BY <3>2 DEF n, at
  <2> HIDE DEF recs, k, r
  <2>1. /\ shown \in Seq(ShownItem) /\ Len(shown) = h + k
        /\ \A i \in 1..h + k : shown[i] = IF i <= h THEN r.shown[i] ELSE recs[i - h]
    BY <1>3, <1>12, ConcatProperties
  <2>2. h \in Nat /\ k \in Nat
    BY <1>3, <1>6, <1>8, LenProperties
  <2> HIDE DEF h, shown
  <2>3. \A i \in 1..h : i \in 1..h + k /\ i <= h
    BY <2>2
  <2>4. \A i \in 1..k : h + i \in 1..h + k /\ ~ (h + i <= h) /\ (h + i) - h = i
    BY <2>2
  <2>6. \A i \in 1..h : shown[i] = r.shown[i]
    BY <2>1, <2>3
  <2>7. \A i \in 1..k : shown[h + i] = recs[i]
    BY <2>1, <2>4
  <2>8. \A i \in 1..k : shown[h + i].note = order[i] /\ shown[h + i].at = note[order[i]].at
    BY <2>5, <2>7
  <2> QED
    BY <2>1, <2>2, <2>6, <2>8
<1>14. more => /\ last = note[order[k]].at /\ k \in 1..len /\ last \in 0..MaxClock
               /\ ToDate(last) \in 0..MaxClock + 1
  <2> SUFFICES ASSUME more
               PROVE  /\ last = note[order[k]].at /\ k \in 1..len /\ last \in 0..MaxClock
                      /\ ToDate(last) \in 0..MaxClock + 1
    OBVIOUS
  <2>1. k = Limit /\ k \in 1..len /\ k \in 1..k
    BY <1>6, <1>8
  <2>2. last = note[order[k]].at /\ last \in 0..MaxClock
    BY <1>9, <1>11, <2>1
  <2> HIDE DEF last
  <2> QED
    BY <2>1, <2>2, Dates, InboxAssumption
<1>15. cursor \in 0..MaxClock + 1 /\ ends \in SUBSET (0..MaxClock) /\ pc \in {"page", "done"}
  <2> HIDE DEF last, r, more
  <2> QED
    BY <1>3, <1>14
<1>17. listing' = [listing EXCEPT ![l] = q]
  <2>1. listing' = [listing EXCEPT
          ![l].pc = pc, ![l].shown = @ \o recs, ![l].cursor = IF more THEN ToDate(last) ELSE @,
          ![l].ends = IF more THEN @ \cup {last} ELSE @]
    BY <1>2 DEF Page
  <2>2. listing \in [Listings -> ListingRecord]
    BY DEF InboxInv, InboxTyped
  <2> HIDE DEF recs, last, more, pc
  <2>3. listing' = [listing EXCEPT ![l] =
          [listing[l] EXCEPT !.pc = pc, !.shown = @ \o recs,
             !.cursor = IF more THEN ToDate(last) ELSE @, !.ends = IF more THEN @ \cup {last} ELSE @]]
    BY <2>1, <2>2
  <2> QED
    BY <2>3
<1>18. /\ q \in ListingRecord /\ q.pc = pc /\ q.shown = shown /\ q.cursor = cursor
       /\ q.ends = ends /\ q.user = r.user /\ q.there = r.there
  <2> DEFINE C == 0..MaxClock + 1
             S0 == Seq(ShownItem)
             E == SUBSET (0..MaxClock)
             Record == [pc : {"idle", "page", "done"}, user : Readers \cup {NoReader}, cursor : C,
                        shown : S0, there : SUBSET Notes, ends : E]
  <2>1. /\ r \in Record /\ pc \in {"page", "done"} /\ shown \in S0 /\ cursor \in C /\ ends \in E
    BY <1>3, <1>13, <1>15 DEF ListingRecord
  <2>2. q = [r EXCEPT !.pc = pc, !.shown = shown, !.cursor = cursor, !.ends = ends]
    OBVIOUS
  <2> HIDE DEF r, shown, cursor, pc, ends, q, C, S0, E
  <2>3. /\ q \in Record /\ q.pc = pc /\ q.shown = shown /\ q.cursor = cursor
        /\ q.ends = ends /\ q.user = r.user /\ q.there = r.there
    BY <2>1, <2>2
  <2> QED
    BY <2>3 DEF C, S0, E, ListingRecord
<1>19. \/ q.pc = "done" /\ k = len /\ q.ends = r.ends
       \/ /\ q.pc = "page" /\ k > 0 /\ q.cursor = ToDate(note[order[k]].at)
          /\ q.ends = r.ends \cup {note[order[k]].at}
  <2> HIDE DEF q, last
  <2>1. CASE more
    <3>1. q.pc = "page" /\ q.cursor = ToDate(last) /\ q.ends = r.ends \cup {last}
      BY <1>18, <2>1
    <3>2. k > 0
      BY <1>14, <2>1
    <3> QED
      BY <1>14, <2>1, <3>1, <3>2
  <2>2. CASE ~ more
    BY <1>8, <1>18, <2>2
  <2> QED
    BY <2>1, <2>2
<1>20. \A i \in 1..len : /\ order[i] \in Notes /\ note[order[i]].user = r.user
                         /\ note[order[i]].at < r.cursor
  BY <1>4, <1>7
<1>21. \A i, j \in 1..len : i < j => order[i] # order[j] /\ note[order[i]].at >= note[order[j]].at
  BY <1>2, <1>6
<1>22. \A n \in NotesOf(r.user) : note[n].at < r.cursor => \E i \in 1..len : order[i] = n
  BY <1>6
<1>23. /\ h = Len(r.shown) /\ Len(q.shown) = h + k /\ \A i \in 1..h : q.shown[i] = r.shown[i]
       /\ \A i \in 1..k : q.shown[h + i].note = order[i] /\ q.shown[h + i].at = note[order[i]].at
  <2> HIDE DEF q, shown, k, r
  <2> QED
    BY <1>13, <1>18
<1> HIDE DEF q, k, S, h, last, pc, shown, cursor, ends, more, recs, items
<1>24. Reads(listing[l], order, len) /\ Pages(listing[l], q, order, len, k)
  BY <1>18, <1>19, <1>20, <1>21, <1>22, <1>23 DEF Reads, Pages
<1> HIDE DEF len
<1> QED
  BY <1>1, <1>6, <1>8, <1>17, <1>18, <1>24, PageGoesOn DEF len

LEMMA InboxSteps == InboxInv /\ [InboxNext]_inboxVars => InboxInv'
<1> SUFFICES ASSUME InboxInv, [InboxNext]_inboxVars PROVE InboxInv'
  OBVIOUS
<1>1. CASE UNCHANGED inboxVars
  <2>1. UNCHANGED <<note, now, listing, mark, asks, removed, held>>
    BY <1>1 DEF inboxVars
  <2>2. \A d : Dated(d) => Dated(d)'
    BY <2>1 DEF Dated, Used, Exists
  <2>3. ListingsOK'
    BY <2>1 DEF InboxInv, ListingsOK, InOrder, Covers, Shows, Skips, Used, Exists
  <2>4. InboxTyped' /\ RowsOK' /\ MarksOK' /\ RemovedStaysAway'
    BY <2>1 DEF InboxInv, InboxTyped, RowsOK, MarksOK, RemovedStaysAway, Used, Exists
  <2> QED
    BY <2>2, <2>3, <2>4 DEF InboxInv
<1>2. CASE InboxNext
  BY <1>2, CreateOK, MarkAllOK, RemoveOK, MarkOK, ClockOK, FindByUserOK, StartListingOK,
     ReloadOK, UpdateOK, InsertOK DEF InboxNext
<1> QED
  BY <1>1, <1>2

\* InboxWhole: a listing of any user, whatever is created, marked and removed between its
\* pages, shows no notification twice, shows them newest first and, when it ends, has shown
\* all that were there at its start except those that share the millisecond of a page's last
\* item; and a removed notification comes back only by a mark that held it.
THEOREM InboxIsWhole == InboxSpec => []InboxWhole
<1>1. InboxInit => InboxInv
  BY InboxStart
<1>2. InboxInv /\ [InboxNext]_inboxVars => InboxInv'
  BY InboxSteps
<1>3. InboxInv => InboxWhole
  BY InboxInvMeans
<1> QED
  BY <1>1, <1>2, <1>3, PTL DEF InboxSpec

-----------------------------------------------------------------------------
(* Stores.  What the script has read is in the table, in its buffer, or    *)
(* named abroad; a place has no two rows, as the insert skips one that is  *)
(* there, and the reviews of a row go with it.                             *)

RowType ==
  [place : Places \cup {NoPlace}, inKorea : BOOLEAN, named : BOOLEAN, typed : BOOLEAN]

IngestType ==
  [pc : {"off", "read", "flush", "done"}, file : 1..Len(Files) + 1, row : Nat \ {0},
   buffer : Seq(Places)]

VisitType ==
  [pc : {"idle", "reload", "update", "reinsert", "review"}, store : StoreIds \cup {NoStore},
   row : StoreRow \cup {NoStoreRow}, by : Reviewers \cup {NoClient}]

\* What a request has loaded.
VisitsTyped ==
  /\ visit \in [Clients -> VisitType]
  /\ \A c \in Clients : visit[c].pc # "idle" => visit[c].store \in StoreIds
  /\ \A c \in Clients : visit[c].pc \in {"reload", "update", "reinsert"} => visit[c].row \in StoreRow
  /\ \A c \in Clients : visit[c].pc = "review" => visit[c].by \in Reviewers

StoresTyped ==
  /\ store \in [StoreIds -> StoreRow \cup {NoStoreRow}]
  /\ review \subseteq StoreIds \X Reviewers
  /\ visits \in 0..MaxVisits /\ runs \in 0..MaxRuns
  /\ moved \subseteq Places

PlacesApart ==
  \A s, t \in Opened : s # t /\ store[s].place # NoPlace => store[s].place # store[t].place

ReviewsOfOpened == \A r \in review : r[1] \in Opened

\* The script has not lost a place on its way from a row to a store: that of a row it
\* has read is in its buffer, or has a store, or has been moved by a user.
Kept(p) == p \in moved \cup PlacesOf(Opened) \cup Range(ingest.buffer)

WasRead(k, j) == k < ingest.file \/ (k = ingest.file /\ j < ingest.row)

NothingLost ==
  \A k \in 1..Len(Files) : \A j \in 1..Len(Files[k]) :
    WasRead(k, j) /\ Admitted(Files[k][j]) => Kept(Files[k][j].place)

IngestGoesOn ==
  /\ ingest \in IngestType
  /\ Len(ingest.buffer) <= Chunk
  /\ ingest.pc = "read" => Len(ingest.buffer) < Chunk
  /\ ingest.file > Len(Files) => ingest.buffer = <<>>
  /\ ingest.pc = "done" => ingest.file > Len(Files)
  /\ NothingLost

StoresInv == StoresTyped /\ VisitsTyped /\ PlacesApart /\ ReviewsOfOpened /\ IngestGoesOn

-----------------------------------------------------------------------------
\* Some of a set that has at least as many members, or infinitely many, can be given to
\* the members of a finite one, to each another.
LEMMA InjectionExists ==
  ASSUME NEW S, IsFiniteSet(S), NEW T, Cardinality(S) <= Cardinality(T)
  PROVE  \E f \in [S -> T] : \A x, y \in S : f[x] = f[y] => x = y
<1> DEFINE Injects(X, f) == f \in [X -> T] /\ \A x, y \in X : f[x] = f[y] => x = y
<1>1. CASE IsFiniteSet(T)
  <2>1. PICK m \in Nat : ExistsBijection(1..m, S) /\ m = Cardinality(S)
    BY FS_CardinalityType
  <2>2. PICK n \in Nat : ExistsBijection(1..n, T) /\ n = Cardinality(T)
    BY <1>1, FS_CardinalityType
  <2>3. PICK g \in Bijection(S, 1..m) : TRUE
    <3>a. \A A, B : ExistsBijection(A, B) => ExistsBijection(B, A)
      BY Fun_ExistsBijSymmetric
    <3>1. ExistsBijection(S, 1..m)
      BY <2>1, <3>a
    <3> QED
      BY <3>1 DEF ExistsBijection
  <2>4. PICK h \in Bijection(1..n, T) : TRUE
    BY <2>2 DEF ExistsBijection
  <2>5. m <= n
    BY <2>1, <2>2
  <2>6. /\ g \in [S -> 1..m] /\ \A x, y \in S : g[x] = g[y] => x = y
        /\ h \in [1..n -> T] /\ \A x, y \in 1..n : h[x] = h[y] => x = y
    BY <2>3, <2>4 DEF Bijection, Injection, IsInjective
  <2>7. \A x \in S : g[x] \in 1..n
    BY <2>5, <2>6
  <2> DEFINE f == [x \in S |-> h[g[x]]]
  <2>8. f \in [S -> T]
    BY <2>6, <2>7
  <2>9. \A x, y \in S : f[x] = f[y] => x = y
    BY <2>6, <2>7
  <2> QED
    BY <2>8, <2>9
<1>2. CASE ~ IsFiniteSet(T)
  <2> DEFINE Bad == {X \in SUBSET S : ~ \E f : Injects(X, f)}
  <2>1. SUFFICES ASSUME Bad # {} PROVE FALSE
    <3>1. \E f : Injects(S, f)
      BY <2>1
    <3> QED
      BY <3>1
  <2>2. Bad \in SUBSET (SUBSET S)
    OBVIOUS
  <2> HIDE DEF Bad
  <2>3. PICK X \in Bad : \A Y \in SUBSET X : Y # X => Y \notin Bad
    BY <2>1, <2>2, SmallestSet
  <2> USE DEF Bad
  <2>4. X # {}
    <3>1. Injects({}, <<>>) \/ \E f : Injects({}, f)
      <4>1. [x \in {} |-> x] \in [{} -> T]
        OBVIOUS
      <4> QED
        BY <4>1
    <3> QED
      BY <2>3, <3>1
  <2>5. First(X) \in X /\ Rest(X) \in SUBSET X /\ Rest(X) # X
    BY <2>4, RestIsSmaller
  <2>6. PICK f : Injects(Rest(X), f)
    BY <2>3, <2>5
  <2>7. IsFiniteSet(Rest(X))
    BY <2>3, <2>5, FS_Subset
  <2>8. IsFiniteSet({f[x] : x \in Rest(X)})
    <3> DEFINE R == {f[x] : x \in Rest(X)}
    <3>1. f \in Surjection(Rest(X), R)
      BY <2>6 DEF Surjection
    <3> HIDE DEF R
    <3>2. IsFiniteSet(R)
      BY <2>7, <3>1, FS_Surjection
    <3> QED
      BY <3>2 DEF R
  <2>9. PICK t \in T : t \notin {f[x] : x \in Rest(X)}
    BY <1>2, <2>8, FS_Subset
  <2> DEFINE g == [x \in X |-> IF x = First(X) THEN t ELSE f[x]]
  <2>10. \A x \in X : x # First(X) => x \in Rest(X)
    BY DEF Rest
  <2>11. g \in [X -> T]
    BY <2>6, <2>9, <2>10
  <2>12. \A x, y \in X : g[x] = g[y] => x = y
    BY <2>6, <2>9, <2>10
  <2>13. Injects(X, g)
    BY <2>11, <2>12
  <2> QED
    BY <2>3, <2>13
<1> QED
  BY <1>1, <1>2

-----------------------------------------------------------------------------
LEMMA RangeOfAppend ==
  ASSUME NEW S, NEW s \in Seq(S), NEW e \in S
  PROVE  Range(Append(s, e)) = Range(s) \cup {e}
<1> DEFINE t == Append(s, e)
<1>1. /\ Len(s) \in Nat /\ DOMAIN s = 1..Len(s)
      /\ DOMAIN t = 1..Len(s) + 1
      /\ t[Len(s) + 1] = e /\ \A n \in 1..Len(s) : t[n] = s[n]
  OBVIOUS
<1> HIDE DEF t
<1> QED
  BY <1>1 DEF Range

\* What it is for a place to be taken.
LEMMA IsPlaced ==
  ASSUME NEW stores, NEW p
  PROVE  p \in PlacesOf(stores) <=> p # NoPlace /\ \E s \in stores : store[s].place = p
BY DEF PlacesOf

LEMMA NoStoreRowIsNone == NoStoreRow \notin StoreRow /\ NoStoreRow.place = NoPlace
BY DEF NoStoreRow, StoreRow

LEMMA StoresStart == StoresInit => StoresInv
<1> USE StoresAssumption
<1> SUFFICES ASSUME StoresInit PROVE StoresInv
  OBVIOUS
<1>1. Opened = {}
  BY DEF StoresInit, Opened
<1>2. StoresTyped
  BY DEF StoresInit, StoresTyped
<1>3. VisitsTyped
  BY DEF StoresInit, VisitsTyped, VisitType, NoVisit
<1>4. PlacesApart /\ ReviewsOfOpened
  BY <1>1 DEF StoresInit, PlacesApart, ReviewsOfOpened
<1>5. IngestGoesOn
  <2>1. ingest = [pc |-> "off", file |-> 1, row |-> 1, buffer |-> <<>>]
    BY DEF StoresInit, NoIngest
  <2>2. Len(Files) \in Nat
    OBVIOUS
  <2>3. ingest \in IngestType
    BY <2>1, <2>2 DEF IngestType
  <2>4. NothingLost
    BY <2>1 DEF NothingLost, WasRead
  <2> QED
    BY <2>1, <2>2, <2>3, <2>4 DEF IngestGoesOn
<1> QED
  BY <1>2, <1>3, <1>4, <1>5 DEF StoresInv

\* What keeps the stores and the script keeps that nothing is lost.
LEMMA StillKept ==
  ASSUME NEW p, p # NoPlace, Kept(p), store' = store, moved' = moved,
         Range(ingest.buffer) \subseteq Range(ingest'.buffer)
  PROVE  Kept(p)'
BY DEF Kept, PlacesOf, Opened

LEMMA RowsTyped ==
  ASSUME NEW k \in 1..Len(Files), NEW j \in 1..Len(Files[k])
  PROVE  /\ Files[k][j] \in RowType
         /\ Admitted(Files[k][j]) => Files[k][j].place \in Places
<1> USE StoresAssumption
<1>1. Files[k] \in Seq(RowType)
  BY DEF RowType
<1>2. Files[k][j] \in RowType
  BY <1>1
<1> QED
  BY <1>2 DEF RowType, Admitted

\* A step of the script alone.
LEMMA ScriptStep ==
  ASSUME StoresInv, IngestGoesOn', UNCHANGED <<store, review, visit, visits>>,
         runs' \in 0..MaxRuns, moved' \subseteq Places
  PROVE  StoresInv'
BY DEF StoresInv, StoresTyped, VisitsTyped, PlacesApart, ReviewsOfOpened, Opened

LEMMA StartIngestOK == StoresInv /\ StartIngest => StoresInv'
<1> USE StoresAssumption
<1> SUFFICES ASSUME StoresInv, StartIngest PROVE StoresInv'
  OBVIOUS
<1>1. ingest' = [pc |-> "read", file |-> 1, row |-> 1, buffer |-> <<>>]
  BY DEF StartIngest, NoIngest
<1>2. Len(Files) \in Nat
  OBVIOUS
<1>3. ingest' \in IngestType
  BY <1>1, <1>2 DEF IngestType
<1>4. NothingLost'
  BY <1>1 DEF NothingLost, WasRead
<1>5. IngestGoesOn'
  BY <1>1, <1>2, <1>3, <1>4 DEF IngestGoesOn
<1>6. runs' \in 0..MaxRuns
  BY DEF StartIngest, StoresInv, StoresTyped
<1> QED
  BY <1>5, <1>6, ScriptStep DEF StartIngest

LEMMA CrashIngestOK == StoresInv /\ CrashIngest => StoresInv'
<1> USE StoresAssumption
<1> SUFFICES ASSUME StoresInv, CrashIngest PROVE StoresInv'
  OBVIOUS
<1>1. ingest' = [pc |-> "off", file |-> 1, row |-> 1, buffer |-> <<>>]
  BY DEF CrashIngest, Step, NoIngest
<1>2. Len(Files) \in Nat
  OBVIOUS
<1>3. ingest' \in IngestType
  BY <1>1, <1>2 DEF IngestType
<1>4. NothingLost'
  BY <1>1 DEF NothingLost, WasRead
<1>5. IngestGoesOn'
  BY <1>1, <1>2, <1>3, <1>4 DEF IngestGoesOn
<1> QED
  BY <1>5, ScriptStep DEF CrashIngest, Step, StoresInv, StoresTyped

LEMMA ReadRowOK == StoresInv /\ ReadRow => StoresInv'
<1> USE StoresAssumption
<1> SUFFICES ASSUME StoresInv, ReadRow PROVE StoresInv'
  OBVIOUS
<1> DEFINE i == ingest
<1> DEFINE row == Files[i.file][i.row]
<1> DEFINE buffer == IF Admitted(row) THEN Append(i.buffer, row.place) ELSE i.buffer
<1> DEFINE pc == IF Len(buffer) >= Chunk THEN "flush" ELSE "read"
<1>1. /\ i \in IngestType /\ Len(i.buffer) < Chunk /\ NothingLost
      /\ i.file \in 1..Len(Files) /\ i.row \in 1..Len(Files[i.file])
  <2>1. i \in IngestType /\ i.pc = "read" /\ InFile
    BY DEF StoresInv, IngestGoesOn, ReadRow
  <2>2. i.file \in 1..Len(Files)
    BY <2>1 DEF InFile, IngestType
  <2>3. i.row \in 1..Len(Files[i.file])
    BY <2>1, <2>2 DEF InFile, IngestType
  <2> QED
    BY <2>1, <2>2, <2>3 DEF StoresInv, IngestGoesOn
<1>2. /\ ingest' = [i EXCEPT !.row = @ + 1, !.buffer = buffer, !.pc = pc]
      /\ UNCHANGED <<store, review, visit, visits, runs, moved>>
  BY DEF ReadRow, Step
<1>3. Admitted(row) => row.place \in Places
  BY <1>1, RowsTyped
<1>4. /\ buffer \in Seq(Places) /\ Len(buffer) <= Chunk
      /\ pc \in {"read", "flush"} /\ (pc = "read" => Len(buffer) < Chunk)
      /\ Range(i.buffer) \subseteq Range(buffer)
      /\ Admitted(row) => row.place \in Range(buffer)
  <2>1. i.buffer \in Seq(Places) /\ Len(i.buffer) \in Nat /\ Len(i.buffer) < Chunk
    BY <1>1 DEF IngestType
  <2> DEFINE old == i.buffer
             place == row.place
  <2>2. CASE Admitted(row)
    <3>1. place \in Places /\ buffer = Append(old, place)
      BY <1>3, <2>2
    <3> HIDE DEF old, place
    <3>2. /\ Append(old, place) \in Seq(Places) /\ Len(Append(old, place)) = Len(old) + 1
          /\ Range(old) \subseteq Range(Append(old, place))
          /\ place \in Range(Append(old, place))
      BY <2>1, <3>1, RangeOfAppend DEF old
    <3>3. Len(old) + 1 <= Chunk /\ Len(old) \in Nat
      BY <2>1 DEF old
    <3> HIDE DEF buffer, pc
    <3>4. /\ buffer \in Seq(Places) /\ Len(buffer) <= Chunk /\ Len(buffer) \in Nat
          /\ Range(old) \subseteq Range(buffer) /\ place \in Range(buffer)
      BY <3>1, <3>2, <3>3
    <3>5. pc \in {"read", "flush"} /\ (pc = "read" => Len(buffer) < Chunk)
      BY <3>4 DEF pc
    <3> QED
      BY <3>4, <3>5 DEF old, place
  <2>3. CASE ~ Admitted(row)
    BY <2>1, <2>3
  <2> QED
    BY <2>2, <2>3
<1> HIDE DEF buffer, pc
<1>5. /\ ingest'.pc = pc /\ ingest'.file = i.file /\ ingest'.row = i.row + 1
      /\ ingest'.buffer = buffer
  BY <1>1, <1>2 DEF IngestType
<1>6. ingest' \in IngestType
  <2>1. i.row + 1 \in Nat \ {0} /\ i.file \in 1..Len(Files) + 1
    BY <1>1 DEF IngestType
  <2> DEFINE F == 1..Len(Files) + 1
             N == Nat \ {0}
             B == Seq(Places)
  <2>2. /\ IngestType = [pc : {"off", "read", "flush", "done"}, file : F, row : N, buffer : B]
        /\ i.row + 1 \in N /\ buffer \in B
    BY <1>4, <2>1 DEF IngestType
  <2> HIDE DEF F, N, B
  <2> QED
    BY <1>1, <1>2, <1>4, <2>2
<1>7. NothingLost'
  <2> SUFFICES ASSUME NEW k \in 1..Len(Files), NEW j \in 1..Len(Files[k]),
                      WasRead(k, j)', Admitted(Files[k][j])
               PROVE  Kept(Files[k][j].place)'
    BY DEF NothingLost
  <2>1. CASE WasRead(k, j)
    <3>1. Kept(Files[k][j].place)
      BY <1>1, <2>1 DEF NothingLost
    <3>2. Files[k][j].place # NoPlace
      BY RowsTyped
    <3> QED
      BY <1>2, <1>4, <1>5, <3>1, <3>2, StillKept
  <2>2. CASE ~ WasRead(k, j)
    <3>1. k = i.file /\ j = i.row
      BY <1>1, <1>5, <2>2 DEF WasRead, IngestType
    <3> QED
      BY <1>4, <1>5, <3>1 DEF Kept
  <2> QED
    BY <2>1, <2>2
<1>8. IngestGoesOn'
  BY <1>1, <1>4, <1>5, <1>6, <1>7 DEF IngestGoesOn
<1> QED
  BY <1>2, <1>8, ScriptStep DEF StoresInv, StoresTyped

LEMMA EndFileOK == StoresInv /\ EndFile => StoresInv'
<1> USE StoresAssumption
<1> SUFFICES ASSUME StoresInv, EndFile PROVE StoresInv'
  OBVIOUS
<1> DEFINE i == ingest
<1>1. /\ i \in IngestType /\ i.pc = "read" /\ NothingLost
      /\ i.file \in 1..Len(Files) /\ i.row > Len(Files[i.file])
      /\ Len(i.buffer) <= Chunk
      /\ UNCHANGED <<store, review, visit, visits, runs, moved>>
  <2>1. /\ i \in IngestType /\ i.pc = "read" /\ NothingLost /\ ~ InFile
        /\ i.file <= Len(Files) /\ Len(i.buffer) <= Chunk
        /\ UNCHANGED <<store, review, visit, visits, runs, moved>>
    BY DEF StoresInv, IngestGoesOn, EndFile, Step
  <2>2. i.file \in 1..Len(Files)
    BY <2>1 DEF IngestType
  <2>3. Len(Files[i.file]) \in Nat
    BY <2>2
  <2> QED
    BY <2>1, <2>2, <2>3 DEF InFile, IngestType
<1>2. \A k \in 1..Len(Files) : \A j \in 1..Len(Files[k]) : Files[k][j].place # NoPlace \/ ~ Admitted(Files[k][j])
  BY DEF Admitted
<1>3. CASE i.buffer = <<>>
  <2>1. ingest' = [[i EXCEPT !.file = @ + 1, !.row = 1] EXCEPT !.pc = "read"]
    BY <1>3 DEF EndFile, Step, NextFile
  <2>2. /\ ingest'.pc = "read" /\ ingest'.file = i.file + 1 /\ ingest'.row = 1
        /\ ingest'.buffer = i.buffer
    BY <1>1, <2>1 DEF IngestType
  <2>3. ingest' \in IngestType
    <3> DEFINE F == 1..Len(Files) + 1
               N == Nat \ {0}
               B == Seq(Places)
    <3>1. IngestType = [pc : {"off", "read", "flush", "done"}, file : F, row : N, buffer : B]
      BY DEF IngestType
    <3>2. i.file + 1 \in F /\ 1 \in N
      BY <1>1
    <3> HIDE DEF F, N, B
    <3> QED
      BY <1>1, <2>1, <3>1, <3>2
  <2>4. NothingLost'
    <3> SUFFICES ASSUME NEW k \in 1..Len(Files), NEW j \in 1..Len(Files[k]),
                        WasRead(k, j)', Admitted(Files[k][j])
                 PROVE  Kept(Files[k][j].place)'
      BY DEF NothingLost
    <3>1. WasRead(k, j)
      <4>1. i.file \in Nat /\ k \in Nat /\ i.row \in Nat /\ j \in Nat
        <5>1. i.file \in 1..Len(Files) + 1 /\ i.row \in Nat \ {0} /\ Len(Files) \in Nat
          BY <1>1 DEF IngestType
        <5> QED
          BY <5>1
      <4>2. k <= i.file
        BY <2>2, <4>1 DEF WasRead
      <4>3. CASE k = i.file
        <5>1. Len(Files[i.file]) \in Nat
          BY <1>1
        <5> QED
          BY <1>1, <4>1, <4>3, <5>1 DEF WasRead
      <4> QED
        BY <4>1, <4>2, <4>3 DEF WasRead
    <3> QED
      BY <1>1, <1>2, <2>2, <3>1, StillKept DEF NothingLost
  <2>5. IngestGoesOn'
    <3>1. Len(i.buffer) = 0
      BY <1>3
    <3> QED
      BY <1>1, <1>3, <2>2, <2>3, <2>4, <3>1 DEF IngestGoesOn
  <2> QED
    BY <1>1, <2>5, ScriptStep DEF StoresInv, StoresTyped
<1>4. CASE i.buffer # <<>>
  <2>1. ingest' = [i EXCEPT !.pc = "flush"]
    BY <1>4 DEF EndFile, Step
  <2>2. /\ ingest'.pc = "flush" /\ ingest'.file = i.file /\ ingest'.row = i.row
        /\ ingest'.buffer = i.buffer /\ ingest' \in IngestType
    BY <1>1, <2>1 DEF IngestType
  <2>3. NothingLost'
    BY <1>1, <1>2, <2>2, StillKept DEF NothingLost, WasRead
  <2>4. IngestGoesOn'
    BY <1>1, <2>2, <2>3 DEF IngestGoesOn, IngestType
  <2> QED
    BY <1>1, <2>4, ScriptStep DEF StoresInv, StoresTyped
<1> QED
  BY <1>3, <1>4

LEMMA EndIngestOK == StoresInv /\ EndIngest => StoresInv'
<1> USE StoresAssumption
<1> SUFFICES ASSUME StoresInv, EndIngest PROVE StoresInv'
  OBVIOUS
<1>1. /\ ingest \in IngestType /\ NothingLost /\ ingest.file > Len(Files)
      /\ Len(ingest.buffer) <= Chunk /\ ingest.buffer = <<>>
      /\ ingest' = [ingest EXCEPT !.pc = "done"]
      /\ UNCHANGED <<store, review, visit, visits, runs, moved>>
  BY DEF StoresInv, IngestGoesOn, EndIngest, Step
<1>2. /\ ingest'.pc = "done" /\ ingest'.file = ingest.file /\ ingest'.row = ingest.row
      /\ ingest'.buffer = ingest.buffer /\ ingest' \in IngestType
  BY <1>1 DEF IngestType
<1>3. NothingLost'
  BY <1>1, <1>2, StillKept DEF NothingLost, WasRead, Admitted
<1>4. IngestGoesOn'
  BY <1>1, <1>2, <1>3 DEF IngestGoesOn
<1> QED
  BY <1>1, <1>4, ScriptStep DEF StoresInv, StoresTyped

LEMMA FlushBufferOK == StoresInv /\ FlushBuffer => StoresInv'
<1> USE StoresAssumption
<1> SUFFICES ASSUME StoresInv, FlushBuffer PROVE StoresInv'
  OBVIOUS
<1> DEFINE i == ingest
           new == Range(i.buffer) \ PlacesOf(Opened)
           ids == FreshFor(new)
           Owner(s) == CHOOSE p \in new : ids[p] = s
<1>1. /\ i \in IngestType /\ i.pc = "flush" /\ Len(i.buffer) <= Chunk /\ NothingLost
      /\ i.file > Len(Files) => i.buffer = <<>>
      /\ ingest' = [i EXCEPT !.pc = "read", !.buffer = <<>>]
      /\ UNCHANGED <<review, visit, visits, runs, moved>>
      /\ Cardinality(new) <= Cardinality(Fresh)
      /\ store' = [s \in StoreIds |->
           IF s \in Range(ids) THEN [place |-> Owner(s), name |-> "public"] ELSE store[s]]
  BY DEF StoresInv, IngestGoesOn, FlushBuffer
<1>2. i.buffer \in Seq(Places) /\ Range(i.buffer) \subseteq Places
  BY <1>1 DEF IngestType, Range
<1>3. IsFiniteSet(new)
  <2>1. Len(i.buffer) \in Nat /\ DOMAIN i.buffer = 1..Len(i.buffer)
    BY <1>2
  <2>2. IsFiniteSet(DOMAIN i.buffer)
    BY <2>1, FS_Interval
  <2>3. i.buffer \in Surjection(DOMAIN i.buffer, Range(i.buffer))
    BY <1>2 DEF Surjection, Range
  <2>4. IsFiniteSet(Range(i.buffer))
    BY <2>2, <2>3, FS_Surjection
  <2> QED
    BY <2>4, FS_Subset
<1>4. \E f \in [new -> Fresh] : \A p, q \in new : f[p] = f[q] => p = q
  <2>1. Cardinality(new) <= Cardinality(Fresh)
    BY <1>1
  <2> HIDE DEF ids, new, Owner
  <2> QED
    BY <1>3, <2>1, InjectionExists
<1>5. ids \in [new -> Fresh] /\ \A p, q \in new : ids[p] = ids[q] => p = q
  BY <1>4 DEF FreshFor
<1>6. \A p \in new : /\ p \in Places /\ p # NoPlace /\ p \notin PlacesOf(Opened)
                     /\ ids[p] \in StoreIds /\ store[ids[p]] = NoStoreRow
                     /\ ids[p] \in Range(ids) /\ Owner(ids[p]) = p
  BY <1>2, <1>5 DEF Fresh, Opened, Range
<1>7. \A s \in Range(ids) : Owner(s) \in new /\ ids[Owner(s)] = s
  BY <1>5 DEF Range
<1> HIDE DEF ids, new, Owner
<1>8. \A s \in Range(ids) : s \in StoreIds /\ store[s] = NoStoreRow
  BY <1>6, <1>7
<1>9. store \in [StoreIds -> StoreRow \cup {NoStoreRow}]
  BY DEF StoresInv, StoresTyped
<1>10. \A s \in Range(ids) : [place |-> Owner(s), name |-> "public"] \in StoreRow
  BY <1>6, <1>7 DEF StoreRow
<1>11. store' \in [StoreIds -> StoreRow \cup {NoStoreRow}]
  BY <1>1, <1>9, <1>10
<1>12. \A s \in StoreIds : /\ s \in Range(ids) => store'[s].place = Owner(s) /\ store'[s] # NoStoreRow
                           /\ s \notin Range(ids) => store'[s] = store[s]
  BY <1>1, <1>10, NoStoreRowIsNone
<1>13. Opened' = Opened \cup Range(ids)
  BY <1>8, <1>12 DEF Opened
<1>14. \A p : p \in PlacesOf(Opened)' <=> p \in PlacesOf(Opened) \cup new
  <2> TAKE p
  <2>1. p \in PlacesOf(Opened)' <=> p # NoPlace /\ \E s \in Opened' : store'[s].place = p
    BY DEF PlacesOf
  <2>2. p \in PlacesOf(Opened) <=> p # NoPlace /\ \E s \in Opened : store[s].place = p
    BY DEF PlacesOf
  <2>3. ASSUME NEW s \in Opened PROVE s \in StoreIds /\ s \notin Range(ids) /\ store'[s] = store[s]
    BY <1>8, <1>12 DEF Opened
  <2> QED
    BY <1>6, <1>7, <1>8, <1>12, <1>13, <2>1, <2>2, <2>3
<1>15. PlacesApart'
  <2> SUFFICES ASSUME NEW s \in Opened', NEW t \in Opened', s # t, store'[s].place # NoPlace,
                      store'[s].place = store'[t].place
               PROVE  FALSE
    BY DEF PlacesApart
  <2>1. \A r \in Opened : r \in StoreIds /\ r \notin Range(ids) /\ store'[r] = store[r]
    BY <1>8, <1>12 DEF Opened
  <2>2. \A r \in Opened : store'[r].place # NoPlace => store'[r].place \in PlacesOf(Opened)
    BY <2>1, IsPlaced
  <2>3. \A r \in Range(ids) : r \in StoreIds /\ store'[r].place \in new /\ ids[store'[r].place] = r
    BY <1>7, <1>8, <1>12
  <2> QED
    BY <1>6, <1>13, <2>1, <2>2, <2>3 DEF PlacesApart, StoresInv
<1>16. /\ ingest'.pc = "read" /\ ingest'.file = i.file /\ ingest'.row = i.row
       /\ ingest'.buffer = <<>> /\ ingest' \in IngestType
  <2> DEFINE B == Seq(Places)
             F == 1..Len(Files) + 1
  <2>1. <<>> \in B /\ IngestType = [pc : {"off", "read", "flush", "done"}, file : F,
                                    row : Nat \ {0}, buffer : B]
    BY DEF IngestType
  <2> HIDE DEF B, F
  <2> QED
    BY <1>1, <2>1
<1>17. NothingLost'
  <2> SUFFICES ASSUME NEW k \in 1..Len(Files), NEW j \in 1..Len(Files[k]),
                      WasRead(k, j)', Admitted(Files[k][j])
               PROVE  Kept(Files[k][j].place)'
    BY DEF NothingLost
  <2>1. Kept(Files[k][j].place)
    BY <1>1, <1>16 DEF NothingLost, WasRead
  <2>2. \A p \in Range(i.buffer) : p \in PlacesOf(Opened)'
    BY <1>14 DEF new
  <2> QED
    BY <1>1, <1>14, <2>1, <2>2 DEF Kept
<1>18. IngestGoesOn'
  BY <1>16, <1>17 DEF IngestGoesOn
<1>19. StoresTyped' /\ VisitsTyped' /\ ReviewsOfOpened'
  BY <1>1, <1>11, <1>13 DEF StoresInv, StoresTyped, VisitsTyped, ReviewsOfOpened
<1> QED
  BY <1>15, <1>18, <1>19 DEF StoresInv

\* What a request writes to a store.
LEMMA WriteOK ==
  ASSUME StoresInv, NEW s \in StoreIds, NEW row \in StoreRow \cup {NoStoreRow}, Write(s, row),
         row.place \notin PlacesOf(Opened \ {s}), ingest' = ingest,
         review' \subseteq review, row = NoStoreRow => \A r \in review' : r[1] # s,
         VisitsTyped', visits' \in 0..MaxVisits, runs' = runs
  PROVE  StoresInv'
<1> USE StoresAssumption
<1>1. /\ store \in [StoreIds -> StoreRow \cup {NoStoreRow}]
      /\ store' = [store EXCEPT ![s] = row]
      /\ moved' = moved \cup ({store[s].place, row.place} \ {NoPlace})
  BY DEF Write, StoresInv, StoresTyped
<1>2. /\ store' \in [StoreIds -> StoreRow \cup {NoStoreRow}]
      /\ store'[s] = row /\ \A t \in StoreIds : t # s => store'[t] = store[t]
  BY <1>1
<1>3. \A r \in StoreRow \cup {NoStoreRow} : r.place \in Places \cup {NoPlace}
  BY DEF StoreRow, NoStoreRow
<1>4. moved' \subseteq Places /\ moved \subseteq moved'
  BY <1>1, <1>3 DEF StoresInv, StoresTyped
<1>5. Opened' = (Opened \ {s}) \cup (IF row = NoStoreRow THEN {} ELSE {s})
  BY <1>2 DEF Opened
<1>6. StoresTyped'
  BY <1>2, <1>4 DEF StoresInv, StoresTyped
<1>7. PlacesApart'
  <2> SUFFICES ASSUME NEW t \in Opened', NEW u \in Opened', t # u, store'[t].place # NoPlace,
                      store'[t].place = store'[u].place
               PROVE  FALSE
    BY DEF PlacesApart
  <2>1. \A v \in Opened \ {s} : v \in StoreIds /\ store'[v] = store[v]
    BY <1>2 DEF Opened
  <2>2. CASE t # s /\ u # s
    BY <1>5, <2>1, <2>2 DEF StoresInv, PlacesApart
  <2>3. CASE t = s
    <3>1. u \in Opened \ {s} /\ store[u].place = row.place /\ row.place # NoPlace
      BY <1>2, <1>5, <2>1, <2>3
    <3> QED
      BY <3>1, IsPlaced
  <2>4. CASE u = s
    <3>1. t \in Opened \ {s} /\ store[t].place = row.place /\ row.place # NoPlace
      BY <1>2, <1>5, <2>1, <2>4
    <3> QED
      BY <3>1, IsPlaced
  <2> QED
    BY <2>2, <2>3, <2>4
<1>8. ReviewsOfOpened'
  BY <1>5 DEF StoresInv, ReviewsOfOpened
<1>9. ASSUME NEW p, p # NoPlace, Kept(p) PROVE Kept(p)'
  <2>1. CASE p \in PlacesOf(Opened)
    <3>1. PICK t \in Opened : store[t].place = p
      BY <2>1, IsPlaced
    <3>2. CASE t = s
      <4>1. p \in moved'
        BY <1>1, <1>9, <3>1, <3>2
      <4> QED
        BY <4>1 DEF Kept
    <3>3. CASE t # s
      <4>1. t \in Opened' /\ store'[t].place = p
        BY <1>2, <1>5, <3>1, <3>3 DEF Opened
      <4> QED
        BY <1>9, <4>1 DEF Kept, PlacesOf
    <3> QED
      BY <3>2, <3>3
  <2>2. CASE p \notin PlacesOf(Opened)
    BY <1>4, <1>9, <2>2 DEF Kept
  <2> QED
    BY <2>1, <2>2
<1>10. IngestGoesOn'
  <2>1. NothingLost'
    BY <1>9 DEF StoresInv, IngestGoesOn, NothingLost, WasRead, Admitted
  <2> QED
    BY <2>1 DEF StoresInv, IngestGoesOn
<1> QED
  BY <1>6, <1>7, <1>8, <1>10 DEF StoresInv

LEMMA CreateStoreOK ==
  ASSUME StoresInv, NEW place \in Places \cup {NoPlace}, CreateStore(place)
  PROVE  StoresInv'
<1> USE StoresAssumption
<1> DEFINE ids == FreshFor({place})
           s == ids[place]
           row == [place |-> place, name |-> "own"]
<1>1. PICK t \in Fresh : TRUE
  BY DEF CreateStore
<1>2. \E f \in [{place} -> Fresh] : \A p, q \in {place} : f[p] = f[q] => p = q
  <2>1. [p \in {place} |-> t] \in [{place} -> Fresh]
    BY <1>1
  <2> QED
    BY <2>1
<1>3. ids \in [{place} -> Fresh]
  BY <1>2 DEF FreshFor
<1>4. s \in StoreIds /\ s \notin Opened
  BY <1>3 DEF Fresh
<1>5. row \in StoreRow /\ row.place = place /\ row # NoStoreRow
  BY NoStoreRowIsNone DEF StoreRow
<1>6. /\ Write(s, row) /\ place \notin PlacesOf(Opened)
      /\ UNCHANGED <<review, visit, ingest, runs>> /\ visits' \in 0..MaxVisits
  BY DEF CreateStore, Visits, StoresInv, StoresTyped
<1> HIDE DEF ids, row, s
<1>7. row.place \notin PlacesOf(Opened \ {s})
  BY <1>5, <1>6, IsPlaced
<1>8. VisitsTyped'
  BY <1>6 DEF StoresInv, VisitsTyped
<1> QED
  BY <1>4, <1>5, <1>6, <1>7, <1>8, WriteOK

\* A step of one request that touches no table but, perhaps, the reviews.
LEMMA VisitStep ==
  ASSUME StoresInv, VisitsTyped', UNCHANGED <<store, ingest, runs, moved>>,
         visits' \in 0..MaxVisits,
         review' \subseteq StoreIds \X Reviewers, \A r \in review' : r[1] \in Opened
  PROVE  StoresInv'
<1>1. PlacesApart' /\ ReviewsOfOpened' /\ StoresTyped'
  BY DEF StoresInv, StoresTyped, PlacesApart, ReviewsOfOpened, Opened
<1>2. NothingLost'
  BY StillKept DEF StoresInv, IngestGoesOn, NothingLost, WasRead, Admitted
<1> QED
  BY <1>1, <1>2 DEF StoresInv, IngestGoesOn

\* One request changes.
LEMMA VisitTyped ==
  ASSUME VisitsTyped, NEW c \in Clients, NEW v \in VisitType, visit' = [visit EXCEPT ![c] = v],
         v.pc # "idle" => v.store \in StoreIds,
         v.pc \in {"reload", "update", "reinsert"} => v.row \in StoreRow,
         v.pc = "review" => v.by \in Reviewers
  PROVE  VisitsTyped'
BY DEF VisitsTyped

LEMMA NoVisitTyped == NoVisit \in VisitType /\ NoVisit.pc = "idle"
BY DEF NoVisit, VisitType

LEMMA LoadStoreOK ==
  ASSUME StoresInv, NEW c \in Clients, NEW s \in StoreIds, NEW place \in Places \cup {NoPlace},
         LoadStore(c, s, place)
  PROVE  StoresInv'
<1> USE StoresAssumption
<1> DEFINE row == [place |-> place, name |-> "own"]
           v == [NoVisit EXCEPT !.pc = "reload", !.store = s, !.row = row]
<1>1. row \in StoreRow
  BY DEF StoreRow
<1>2. visit' = [visit EXCEPT ![c] = v]
  BY DEF LoadStore
<1> HIDE DEF row
<1>3. v \in VisitType /\ v.pc = "reload" /\ v.store = s /\ v.row = row
  BY <1>1 DEF NoVisit, VisitType
<1> HIDE DEF v
<1>4. VisitsTyped'
  BY <1>1, <1>2, <1>3, VisitTyped DEF StoresInv
<1>5. UNCHANGED <<store, review, ingest, runs, moved>> /\ visits' \in 0..MaxVisits
  BY DEF LoadStore, Visits, StoresInv, StoresTyped
<1> QED
  BY <1>4, <1>5, VisitStep DEF StoresInv, StoresTyped, ReviewsOfOpened

LEMMA FindReviewedOK ==
  ASSUME StoresInv, NEW c \in Clients, NEW s \in StoreIds, NEW u \in Reviewers,
         FindReviewed(c, s, u)
  PROVE  StoresInv'
<1> USE StoresAssumption
<1> DEFINE v == [NoVisit EXCEPT !.pc = "review", !.store = s, !.by = u]
<1>1. visit' = [visit EXCEPT ![c] = v]
  BY DEF FindReviewed
<1>2. v \in VisitType /\ v.pc = "review" /\ v.store = s /\ v.by = u
  BY DEF NoVisit, VisitType
<1> HIDE DEF v
<1>3. VisitsTyped'
  BY <1>1, <1>2, VisitTyped DEF StoresInv
<1>4. UNCHANGED <<store, review, ingest, runs, moved>> /\ visits' \in 0..MaxVisits
  BY DEF FindReviewed, Visits, StoresInv, StoresTyped
<1> QED
  BY <1>3, <1>4, VisitStep DEF StoresInv, StoresTyped, ReviewsOfOpened

LEMMA ReloadStoreOK ==
  ASSUME StoresInv, NEW c \in Clients, ReloadStore(c)
  PROVE  StoresInv'
<1> DEFINE pc == IF visit[c].store \in Opened THEN "update" ELSE "reinsert"
           v == [visit[c] EXCEPT !.pc = pc]
<1>1. visit[c] \in VisitType /\ visit[c].pc = "reload"
  BY DEF StoresInv, VisitsTyped, ReloadStore
<1>2. visit' = [visit EXCEPT ![c] = v]
  BY <1>1 DEF ReloadStore, StoresInv, VisitsTyped
<1>3. pc \in {"update", "reinsert"}
  OBVIOUS
<1> HIDE DEF pc
<1>4. v \in VisitType /\ v.pc = pc /\ v.store = visit[c].store /\ v.row = visit[c].row
  BY <1>1, <1>3 DEF VisitType
<1> HIDE DEF v
<1>5. VisitsTyped'
  BY <1>1, <1>2, <1>3, <1>4, VisitTyped DEF StoresInv, VisitsTyped
<1> QED
  BY <1>5, VisitStep DEF ReloadStore, StoresInv, StoresTyped, ReviewsOfOpened

LEMMA SaveStoreOK ==
  ASSUME StoresInv, NEW c \in Clients, SaveStore(c)
  PROVE  StoresInv'
<1> DEFINE s == visit[c].store
           row == visit[c].row
<1>1. s \in StoreIds /\ row \in StoreRow
  BY DEF StoresInv, VisitsTyped, SaveStore
<1>2. VisitsTyped'
  BY NoVisitTyped, VisitTyped DEF StoresInv, SaveStore, Leaves
<1>3. UNCHANGED <<review, visits, ingest, runs>>
  BY DEF SaveStore
<1>4. CASE Write(s, row) /\ ~ PlaceTaken(s, row.place)
  <2>1. row # NoStoreRow
    BY <1>1, NoStoreRowIsNone
  <2> QED
    BY <1>1, <1>2, <1>3, <1>4, <2>1, WriteOK DEF PlaceTaken, StoresInv, StoresTyped
<1>5. CASE UNCHANGED <<store, moved>>
  BY <1>2, <1>3, <1>5, VisitStep DEF StoresInv, StoresTyped, ReviewsOfOpened
<1> QED
  BY <1>4, <1>5 DEF SaveStore

LEMMA RemoveStoreOK ==
  ASSUME StoresInv, NEW s \in StoreIds, RemoveStore(s)
  PROVE  StoresInv'
<1> USE StoresAssumption
<1>1. Write(s, NoStoreRow) /\ UNCHANGED <<visit, ingest, runs>> /\ visits' \in 0..MaxVisits
  BY DEF RemoveStore, Visits, StoresInv, StoresTyped
<1>2. review' \subseteq review /\ \A r \in review' : r[1] # s
  BY DEF RemoveStore
<1>3. VisitsTyped'
  BY <1>1 DEF StoresInv, VisitsTyped
<1>4. NoStoreRow.place \notin PlacesOf(Opened \ {s})
  BY NoStoreRowIsNone, IsPlaced
<1> QED
  BY <1>1, <1>2, <1>3, <1>4, WriteOK

LEMMA AddReviewOK ==
  ASSUME StoresInv, NEW c \in Clients, AddReview(c)
  PROVE  StoresInv'
<1>1. VisitsTyped'
  BY NoVisitTyped, VisitTyped DEF StoresInv, AddReview, Leaves
<1>2. visit[c].by \in Reviewers
  BY DEF StoresInv, VisitsTyped, AddReview
<1>3. review' \subseteq StoreIds \X Reviewers /\ \A r \in review' : r[1] \in Opened
  <2>1. review' = review \cup ({visit[c].store} \cap Opened) \X {visit[c].by}
    BY DEF AddReview
  <2>2. Opened \subseteq StoreIds
    BY DEF Opened
  <2> QED
    BY <1>2, <2>1, <2>2 DEF StoresInv, StoresTyped, ReviewsOfOpened
<1> QED
  BY <1>1, <1>3, VisitStep DEF AddReview, StoresInv, StoresTyped

LEMMA StoresStutter == StoresInv /\ UNCHANGED storeVars => StoresInv'
<1> SUFFICES ASSUME StoresInv, UNCHANGED storeVars PROVE StoresInv'
  OBVIOUS
<1>1. /\ store' = store /\ review' = review /\ visit' = visit /\ visits' = visits
      /\ ingest' = ingest /\ runs' = runs /\ moved' = moved
  BY DEF storeVars
<1>2. VisitsTyped'
  BY <1>1 DEF StoresInv, VisitsTyped
<1> QED
  BY <1>1, <1>2, VisitStep DEF StoresInv, StoresTyped, ReviewsOfOpened

LEMMA StoresStep == StoresInv /\ [StoresNext]_storeVars => StoresInv'
<1> SUFFICES ASSUME StoresInv, [StoresNext]_storeVars PROVE StoresInv'
  OBVIOUS
<1>1. ASSUME NEW place \in Places \cup {NoPlace}, CreateStore(place) PROVE StoresInv'
  BY <1>1, CreateStoreOK
<1>2. ASSUME NEW place \in Places \cup {NoPlace}, NEW c \in Clients, NEW s \in StoreIds,
             LoadStore(c, s, place)
      PROVE  StoresInv'
  BY <1>2, LoadStoreOK
<1>3. ASSUME NEW s \in StoreIds, RemoveStore(s) PROVE StoresInv'
  BY <1>3, RemoveStoreOK
<1>4. ASSUME NEW s \in StoreIds, NEW c \in Clients, NEW u \in Reviewers, FindReviewed(c, s, u)
      PROVE  StoresInv'
  BY <1>4, FindReviewedOK
<1>5. ASSUME NEW c \in Clients, ReloadStore(c) \/ SaveStore(c) \/ AddReview(c)
      PROVE  StoresInv'
  BY <1>5, ReloadStoreOK, SaveStoreOK, AddReviewOK
<1>6. ASSUME \/ StartIngest \/ ReadRow \/ EndFile \/ EndIngest \/ FlushBuffer \/ CrashIngest
      PROVE  StoresInv'
  BY <1>6, StartIngestOK, ReadRowOK, EndFileOK, EndIngestOK, FlushBufferOK, CrashIngestOK
<1>7. ASSUME UNCHANGED storeVars PROVE StoresInv'
  BY <1>7, StoresStutter
<1> QED
  BY <1>1, <1>2, <1>3, <1>4, <1>5, <1>6, <1>7 DEF StoresNext

\* A run that has ended has read every row.
LEMMA StoresInvMeans == StoresInv => StoresTypeOK /\ StoresWhole
<1> USE StoresAssumption
<1> SUFFICES ASSUME StoresInv PROVE StoresTypeOK /\ StoresWhole
  OBVIOUS
<1>1. StoresTypeOK
  <2>1. visit \in [Clients -> VisitType]
    BY DEF StoresInv, VisitsTyped
  <2>2. /\ ingest.pc \in {"off", "read", "flush", "done"}
        /\ ingest.file \in 1..Len(Files) + 1 /\ ingest.row \in Nat
        /\ ingest.buffer \in Seq(Places) /\ Len(ingest.buffer) <= Chunk
    BY DEF StoresInv, IngestGoesOn, IngestType
  <2> QED
    BY <2>1, <2>2 DEF StoresTypeOK, StoresInv, StoresTyped, VisitType
<1>2. ASSUME ingest.pc = "done" PROVE Registered \ moved \subseteq PlacesOf(Opened)
  <2> SUFFICES ASSUME NEW p \in Registered, p \notin moved PROVE p \in PlacesOf(Opened)
    OBVIOUS
  <2>1. PICK file \in Range(Files) : \E row \in Range(file) : Admitted(row) /\ row.place = p
    BY DEF Registered
  <2>2. PICK row \in Range(file) : Admitted(row) /\ row.place = p
    BY <2>1
  <2>3. PICK k \in 1..Len(Files) : Files[k] = file
    BY DEF Range
  <2>4. file \in Seq(RowType)
    BY <2>3 DEF RowType
  <2>5. PICK j \in 1..Len(Files[k]) : Files[k][j] = row
    BY <2>3, <2>4 DEF Range
  <2>6. ingest.file > Len(Files) /\ ingest.file \in Nat /\ ingest.buffer = <<>> /\ NothingLost
    BY <1>2 DEF StoresInv, IngestGoesOn, IngestType
  <2>7. Kept(p)
    <3>1. Len(Files) \in Nat
      OBVIOUS
    <3>2. WasRead(k, j)
      BY <2>6, <3>1 DEF WasRead
    <3>3. Admitted(Files[k][j]) /\ Files[k][j].place = p
      BY <2>2, <2>5
    <3> QED
      BY <2>6, <3>2, <3>3 DEF NothingLost
  <2> QED
    BY <2>6, <2>7 DEF Kept, Range
<1> QED
  BY <1>1, <1>2 DEF StoresWhole, StoresInv, PlacesApart, ReviewsOfOpened

\* Whatever the files and the size of a chunk, and however requests and crashes cut in.
THEOREM StoresAreWhole == StoresSpec => [](StoresTypeOK /\ StoresWhole)
<1>1. StoresInv /\ [StoresNext]_storeVars => StoresInv'
  BY StoresStep
<1> QED
  BY <1>1, StoresStart, StoresInvMeans, PTL DEF StoresSpec

-----------------------------------------------------------------------------
(* Products.  A name is on one product since the migration, so the owner of*)
(* a wish or a price that the migration moved is found by its name; a      *)
(* request that loaded a row before keeps what it needs to put it back.    *)

\* A product with a row, and a price with one.
ProductRow == [name : Names, unit : Units \cup {NoProduct}]

PriceRow == [product : ProductIds, unit : Units \cup {NoProduct}]

CallType ==
  [pc      : {"idle", "create", "reload", "update", "reinsert", "wish", "price"},
   product : ProductIds \cup {NoProduct},
   row     : ProductRow \cup {NoRow},
   wisher  : Wishers \cup {NoWisher},
   price   : PriceIds \cup {NoPriceId},
   crossed : BOOLEAN]

\* What a request knows, by where it is. No price is registered before the migration.
CallOK(l) ==
  /\ l \in CallType
  /\ l.pc \in {"create", "reload", "update", "reinsert"} => l.row \in ProductRow
  /\ l.pc \in {"reload", "update", "reinsert", "wish", "price"} => l.product \in ProductIds
  /\ l.pc = "wish" => l.wisher \in Wishers
  /\ l.pc = "price" => l.price \in PriceIds /\ merge = "merged"

CallsTyped ==
  /\ call \in [Callers -> CallType]
  /\ \A c \in Callers : CallOK(call[c])

CatalogTyped ==
  /\ tables \in Tables /\ draft \in Tables
  /\ merge \in {"due", "backfill", "prices", "forget", "wishes", "products", "commit",
                "merged", "failed"}
  /\ calls \in 0..MaxCalls
  /\ late \subseteq Wishers \X ProductIds
  /\ doubled \subseteq Names

\* Every wish and every price is for a product with a row.
Referring(db) ==
  /\ \A w \in db.wishes : w[2] \in StoredIn(db)
  /\ \A x \in PriceIds : db.prices[x] # NoPriceRow => db.prices[x].product \in StoredIn(db)

\* A creation that nothing crossed has looked, and there is still none of its name; two
\* of one name have crossed.
CreationsSeen ==
  /\ \A c \in Callers :
       call[c].pc = "create" /\ ~ call[c].crossed /\ call[c].row.name \notin doubled =>
         Named(tables, call[c].row.name) = {}
  /\ \A c, d \in Callers :
       /\ c # d /\ call[c].pc = "create" /\ call[d].pc = "create"
       /\ call[c].row.name = call[d].row.name
       => call[c].crossed /\ call[d].crossed

\* The migration sees the products that requests see, until it deletes some.
InStep ==
  /\ merge \in {"backfill", "prices", "forget", "wishes", "products"} =>
       draft.products = tables.products
  /\ merge = "commit" =>
       \A p \in ProductIds : draft.products[p] \in {tables.products[p], NoRow}

Oldest(db, name) == Min(Named(db, name))

\* Where the migration has a price that was of a product of the name.
PriceKept(was, is, name) ==
  /\ merge = "backfill" => is = was
  /\ merge \in {"prices", "forget", "wishes", "products", "commit"} /\ name \notin doubled =>
       is.unit = tables.products[was.product].unit
  /\ merge = "prices" => is.product = was.product
  /\ merge \in {"forget", "wishes", "products"} /\ name \notin doubled =>
       is.product = Oldest(draft, name)
  /\ merge = "commit" /\ name \notin doubled =>
       is # NoPriceRow /\ NameOf(draft, is.product) = name

PricesKept ==
  \A x \in PriceIds : tables.prices[x] # NoPriceRow =>
    PriceKept(tables.prices[x], draft.prices[x], NameOf(tables, tables.prices[x].product))

\* And a wish.
WishKept(w, name) ==
  name \notin doubled =>
    /\ merge = "wishes" =>
         w \in draft.wishes \/ <<w[1], Oldest(draft, name)>> \in draft.wishes
    /\ merge = "products" => <<w[1], Oldest(draft, name)>> \in draft.wishes
    /\ merge = "commit" =>
         \E p \in ProductIds : <<w[1], p>> \in draft.wishes /\ NameOf(draft, p) = name

WishesKept ==
  /\ merge \in {"backfill", "prices", "forget"} => draft.wishes = tables.wishes
  /\ \A w \in tables.wishes \ late : WishKept(w, NameOf(tables, w[2]))

OneOf(db, name) == \A p, q \in Named(db, name) : p = q

NamesApart ==
  /\ merge = "commit" => \A name \in Names \ doubled : OneOf(draft, name)
  /\ merge = "merged" => \A name \in Names \ doubled : OneOf(tables, name)

CatalogInv ==
  /\ CatalogTyped /\ CallsTyped
  /\ Referring(tables) /\ Referring(draft)
  /\ CreationsSeen /\ InStep /\ PricesKept /\ WishesKept /\ NamesApart

-----------------------------------------------------------------------------
\* Of numbers, one is the least.
LEMMA LeastOf ==
  ASSUME NEW S \in SUBSET Nat, S # {}
  PROVE  Min(S) \in S /\ \A x \in S : Min(S) <= x
<1> DEFINE R == OpToRel(<, Nat)
<1>0. \A x, y \in Nat : <<x, y>> \in R <=> x < y
  BY DEF OpToRel
<1>1. \E m \in S : \A x \in S : m <= x
  <2>1. IsWellFoundedOn(R, Nat)
    BY NatLessThanWellFounded
  <2> HIDE DEF R
  <2>2. PICK m \in S : \A x \in S : ~ (<<x, m>> \in R)
    BY <2>1, WFMin
  <2>3. ASSUME NEW x \in S PROVE m <= x
    <3>1. x \in Nat /\ m \in Nat /\ ~ (<<x, m>> \in R)
      BY <2>2
    <3>2. ~ (x < m)
      BY <1>0, <3>1
    <3> QED
      BY <3>1, <3>2
  <2> QED
    BY <2>3
<1> QED
  BY <1>1 DEF Min

LEMMA NoRowIsNone == NoRow \notin ProductRow /\ NoPriceRow \notin PriceRow /\ NoPriceRow.product = NoProduct
BY CatalogAssumption DEF NoRow, ProductRow, NoPriceRow, PriceRow

LEMMA TablesAre ==
  ASSUME NEW db
  PROVE  db \in Tables =>
           /\ db.products \in [ProductIds -> ProductRow \cup {NoRow}]
           /\ db.wishes \subseteq Wishers \X ProductIds
           /\ db.prices \in [PriceIds -> PriceRow \cup {NoPriceRow}]
BY DEF Tables, ProductRow, PriceRow

LEMMA TablesMade ==
  ASSUME NEW products \in [ProductIds -> ProductRow \cup {NoRow}],
         NEW wishes, wishes \subseteq Wishers \X ProductIds,
         NEW prices \in [PriceIds -> PriceRow \cup {NoPriceRow}]
  PROVE  [products |-> products, wishes |-> wishes, prices |-> prices] \in Tables
BY DEF Tables, ProductRow, PriceRow

\* What a write of one product makes of the tables.
LEMMA ProductWritten ==
  ASSUME NEW db \in Tables, NEW p \in ProductIds, NEW row \in ProductRow \cup {NoRow}
  PROVE  /\ WithProduct(db, p, row) \in Tables
         /\ WithProduct(db, p, row).products = [db.products EXCEPT ![p] = row]
         /\ WithProduct(db, p, row).wishes = db.wishes
         /\ WithProduct(db, p, row).prices = db.prices
<1> DEFINE q == [db.products EXCEPT ![p] = row]
           P == [ProductIds -> ProductRow \cup {NoRow}]
           W == SUBSET (Wishers \X ProductIds)
           X == [PriceIds -> PriceRow \cup {NoPriceRow}]
<1>1. WithProduct(db, p, row) = [db EXCEPT !.products = q]
  BY DEF WithProduct
<1>2. db.products \in P /\ Tables = [products : P, wishes : W, prices : X]
  BY TablesAre DEF Tables, ProductRow, PriceRow
<1>3. q \in P
  BY <1>2
<1> HIDE DEF q, P, W, X
<1>4. [db EXCEPT !.products = q] \in Tables /\ [db EXCEPT !.products = q].products = q
  BY <1>2, <1>3
<1>5. [db EXCEPT !.products = q].wishes = db.wishes /\ [db EXCEPT !.products = q].prices = db.prices
  BY <1>2
<1> QED
  BY <1>1, <1>4, <1>5 DEF q

\* And one of the wishes.
LEMMA WishesWritten ==
  ASSUME NEW db \in Tables, NEW wishes, wishes \subseteq Wishers \X ProductIds
  PROVE  /\ [db EXCEPT !.wishes = wishes] \in Tables
         /\ [db EXCEPT !.wishes = wishes].products = db.products
         /\ [db EXCEPT !.wishes = wishes].wishes = wishes
         /\ [db EXCEPT !.wishes = wishes].prices = db.prices
<1> DEFINE P == [ProductIds -> [name : Names, unit : Units \cup {NoProduct}] \cup {NoRow}]
           W == SUBSET (Wishers \X ProductIds)
           X == [PriceIds -> [product : ProductIds, unit : Units \cup {NoProduct}]
                             \cup {NoPriceRow}]
<1>1. wishes \in W /\ Tables = [products : P, wishes : W, prices : X]
  BY DEF Tables
<1> HIDE DEF P, W, X
<1> QED
  BY <1>1

LEMMA PricesWritten ==
  ASSUME NEW db \in Tables, NEW prices \in [PriceIds -> PriceRow \cup {NoPriceRow}]
  PROVE  /\ [db EXCEPT !.prices = prices] \in Tables
         /\ [db EXCEPT !.prices = prices].products = db.products
         /\ [db EXCEPT !.prices = prices].wishes = db.wishes
         /\ [db EXCEPT !.prices = prices].prices = prices
<1> DEFINE P == [ProductIds -> [name : Names, unit : Units \cup {NoProduct}] \cup {NoRow}]
           W == SUBSET (Wishers \X ProductIds)
           X == [PriceIds -> [product : ProductIds, unit : Units \cup {NoProduct}]
                             \cup {NoPriceRow}]
<1>1. prices \in X /\ Tables = [products : P, wishes : W, prices : X]
  BY DEF Tables, PriceRow
<1> HIDE DEF P, W, X
<1> QED
  BY <1>1

LEMMA StoredRow ==
  ASSUME NEW db \in Tables, NEW p \in StoredIn(db)
  PROVE  p \in ProductIds /\ db.products[p] \in ProductRow /\ NameOf(db, p) \in Names
BY TablesAre DEF StoredIn, NameOf, ProductRow

LEMMA EmptyIs ==
  Empty \in Tables /\ Referring(Empty) /\ StoredIn(Empty) = {}
<1>1. Empty \in Tables
  BY TablesMade DEF Empty
<1> QED
  BY <1>1 DEF Empty, Referring, StoredIn

LEMMA OldestOf ==
  ASSUME NEW db, NEW name, Named(db, name) # {}
  PROVE  /\ Oldest(db, name) \in Named(db, name)
         /\ \A p \in Named(db, name) : Oldest(db, name) <= p
<1>1. Named(db, name) \in SUBSET Nat
  BY CatalogAssumption DEF Named, StoredIn
<1> QED
  BY <1>1, LeastOf DEF Oldest

\* The keeper of a product is the oldest of its name, and keeps itself.
LEMMA KeeperIs ==
  ASSUME NEW db, NEW p \in StoredIn(db)
  PROVE  /\ Keeper(db, p) = Oldest(db, NameOf(db, p))
         /\ Keeper(db, p) \in StoredIn(db) /\ NameOf(db, Keeper(db, p)) = NameOf(db, p)
         /\ Keeper(db, p) \notin Dups(db)
         /\ p \notin Dups(db) => Keeper(db, p) = p
<1>1. Keeper(db, p) = Oldest(db, NameOf(db, p)) /\ p \in Named(db, NameOf(db, p))
  BY DEF Keeper, Oldest, NameOf, Named
<1>2. Keeper(db, p) \in Named(db, NameOf(db, p))
  BY <1>1, OldestOf
<1>3. Keeper(db, p) \in StoredIn(db) /\ NameOf(db, Keeper(db, p)) = NameOf(db, p)
  BY <1>2 DEF Named, NameOf
<1>4. Keeper(db, Keeper(db, p)) = Keeper(db, p)
  BY <1>1, <1>3 DEF Keeper, NameOf
<1> QED
  BY <1>1, <1>3, <1>4 DEF Dups

LEMMA CatalogStart == CatalogInit => CatalogInv
<1> USE CatalogAssumption
<1> SUFFICES ASSUME CatalogInit PROVE CatalogInv
  OBVIOUS
<1>1. PICK S \in SUBSET ProductIds :
      \E products \in [ProductIds -> [name : OldNames, unit : Units] \cup {NoRow}] :
      \E wishes \in SUBSET (Wishers \X S), of \in [PriceIds -> S \cup {NoProduct}] :
       /\ S = {p \in ProductIds : products[p] # NoRow}
       /\ \A p, q \in S : products[p] = products[q] => p = q
       /\ tables = [products |-> products, wishes |-> wishes,
                    prices |-> [x \in PriceIds |-> [NoPriceRow EXCEPT !.product = of[x]]]]
  BY DEF CatalogInit
<1>2. PICK products \in [ProductIds -> [name : OldNames, unit : Units] \cup {NoRow}] :
      \E wishes \in SUBSET (Wishers \X S), of \in [PriceIds -> S \cup {NoProduct}] :
       /\ S = {p \in ProductIds : products[p] # NoRow}
       /\ \A p, q \in S : products[p] = products[q] => p = q
       /\ tables = [products |-> products, wishes |-> wishes,
                    prices |-> [x \in PriceIds |-> [NoPriceRow EXCEPT !.product = of[x]]]]
  BY <1>1
<1>3. PICK wishes \in SUBSET (Wishers \X S), of \in [PriceIds -> S \cup {NoProduct}] :
       /\ S = {p \in ProductIds : products[p] # NoRow}
       /\ \A p, q \in S : products[p] = products[q] => p = q
       /\ tables = [products |-> products, wishes |-> wishes,
                    prices |-> [x \in PriceIds |-> [NoPriceRow EXCEPT !.product = of[x]]]]
  BY <1>2
<1> DEFINE prices == [x \in PriceIds |-> [NoPriceRow EXCEPT !.product = of[x]]]
<1>4. \A x \in PriceIds : /\ prices[x].product = of[x]
                          /\ prices[x] \in PriceRow \cup {NoPriceRow}
                          /\ prices[x] # NoPriceRow => of[x] \in S
  BY DEF NoPriceRow, PriceRow
<1>5. products \in [ProductIds -> ProductRow \cup {NoRow}] /\ wishes \subseteq Wishers \X ProductIds
  BY DEF ProductRow
<1>6. prices \in [PriceIds -> PriceRow \cup {NoPriceRow}]
  BY <1>4
<1>7. /\ tables = [products |-> products, wishes |-> wishes, prices |-> prices]
      /\ S = StoredIn(tables)
  BY <1>3 DEF StoredIn
<1> HIDE DEF prices
<1>8. tables \in Tables /\ tables.wishes = wishes /\ tables.prices = prices
  BY <1>5, <1>6, <1>7, TablesMade
<1>9. Referring(tables)
  BY <1>3, <1>4, <1>7, <1>8 DEF Referring
<1>10. /\ draft = Empty /\ merge = "due" /\ call = [c \in Callers |-> NoCall]
       /\ calls = 0 /\ late = {} /\ doubled = {}
  BY DEF CatalogInit
<1>11. CatalogTyped
  BY <1>8, <1>10, EmptyIs DEF CatalogTyped
<1>12. CallsTyped
  BY <1>10 DEF CallsTyped, CallOK, CallType, NoCall
<1>13. CreationsSeen
  BY <1>10 DEF CreationsSeen, NoCall
<1>14. InStep /\ PricesKept /\ WishesKept /\ NamesApart
  BY <1>10 DEF InStep, PricesKept, PriceKept, WishesKept, WishKept, NamesApart
<1> QED
  BY <1>9, <1>10, <1>11, <1>12, <1>13, <1>14, EmptyIs DEF CatalogInv

\* What the migration has of a product is what requests see of it.
LEMMA DraftFollows ==
  ASSUME CatalogInv, Merging, NEW p \in StoredIn(draft)
  PROVE  /\ p \in ProductIds /\ draft.products[p] = tables.products[p] /\ p \in StoredIn(tables)
         /\ NameOf(draft, p) = NameOf(tables, p)
<1>1. p \in ProductIds /\ draft.products[p] # NoRow
  BY DEF StoredIn
<1>2. draft.products[p] = tables.products[p]
  BY <1>1 DEF CatalogInv, CatalogTyped, Merging, InStep
<1> QED
  BY <1>1, <1>2 DEF StoredIn, NameOf

\* A write of one product keeps everything, if a name it takes or gives is doubled or new.
LEMMA ProductChange ==
  ASSUME CatalogInv, NEW p \in ProductIds, NEW row \in ProductRow,
         Commits(WithProduct(tables, p, row), WithProduct(draft, p, row)),
         merge' = merge, late' = late, calls' = calls,
         doubled \subseteq doubled', doubled' \subseteq Names,
         tables.products[p] # NoRow =>
           /\ row.unit = tables.products[p].unit /\ row.name \in doubled'
           /\ Merging => tables.products[p].name \in doubled',
         row.name \in doubled' \/ Named(tables, row.name) = {},
         CallsTyped', CreationsSeen', ~ LocksProduct(p)
  PROVE  CatalogInv'
<1> USE CatalogAssumption
<1>a. tables \in Tables /\ draft \in Tables
  BY DEF CatalogInv, CatalogTyped
<1>b. row # NoRow
  BY NoRowIsNone
<1>c. /\ tables' = WithProduct(tables, p, row)
      /\ draft' = IF Merging THEN WithProduct(draft, p, row) ELSE draft
  BY DEF Commits
<1>1. /\ tables' \in Tables
      /\ tables'.products = [tables.products EXCEPT ![p] = row]
      /\ tables'.wishes = tables.wishes /\ tables'.prices = tables.prices
  BY <1>a, <1>c, ProductWritten
<1>2. /\ draft' \in Tables
      /\ draft'.wishes = draft.wishes /\ draft'.prices = draft.prices
      /\ ~ Merging => draft' = draft
      /\ Merging => draft'.products = [draft.products EXCEPT ![p] = row]
  <2>1. CASE Merging
    BY <1>a, <1>c, <2>1, ProductWritten
  <2>2. CASE ~ Merging
    BY <1>a, <1>c, <2>2
  <2> QED
    BY <2>1, <2>2
<1>3. /\ tables'.products[p] = row
      /\ \A q \in ProductIds : q # p => tables'.products[q] = tables.products[q]
  BY <1>a, <1>1, TablesAre
<1>4. Merging => /\ draft'.products[p] = row
                 /\ \A q \in ProductIds : q # p => draft'.products[q] = draft.products[q]
  BY <1>a, <1>2, TablesAre
<1>5. StoredIn(tables') = StoredIn(tables) \cup {p}
  BY <1>b, <1>3 DEF StoredIn
<1>6. StoredIn(draft) \subseteq StoredIn(draft')
  BY <1>b, <1>2, <1>4 DEF StoredIn
<1>7. Referring(tables') /\ Referring(draft')
  BY <1>1, <1>2, <1>5, <1>6 DEF Referring, CatalogInv
<1>8. CatalogTyped'
  BY <1>1, <1>2 DEF CatalogInv, CatalogTyped
<1>9. InStep'
  <2>1. ASSUME merge \in {"backfill", "prices", "forget", "wishes", "products"}
        PROVE  draft'.products = tables'.products
    BY <1>1, <1>2, <2>1 DEF CatalogInv, InStep, Merging
  <2>2. ASSUME merge = "commit", NEW q \in ProductIds
        PROVE  draft'.products[q] \in {tables'.products[q], NoRow}
    BY <1>3, <1>4, <2>2 DEF CatalogInv, InStep, Merging
  <2> QED
    BY <2>1, <2>2 DEF InStep
<1>10. ASSUME Merging, p \in StoredIn(draft)
       PROVE  tables.products[p] # NoRow /\ NameOf(draft, p) \in doubled'
  BY <1>10, DraftFollows DEF StoredIn, NameOf
<1>11. ASSUME NEW name, name \notin doubled', name # row.name
       PROVE  /\ Named(tables', name) \subseteq Named(tables, name)
              /\ Merging => Named(draft', name) = Named(draft, name)
                            /\ Oldest(draft', name) = Oldest(draft, name)
  <2>1. Named(tables', name) \subseteq Named(tables, name)
    <3>1. \A q \in StoredIn(tables) : q # p => tables'.products[q] = tables.products[q]
      BY <1>3 DEF StoredIn
    <3>2. p \notin Named(tables', name)
      BY <1>3, <1>11 DEF Named
    <3> QED
      BY <1>5, <3>1, <3>2 DEF Named
  <2>2. ASSUME Merging PROVE Named(draft', name) = Named(draft, name)
    <3>1. StoredIn(draft') = StoredIn(draft) \cup {p}
      BY <1>b, <1>4, <2>2 DEF StoredIn
    <3>2. p \notin Named(draft, name)
      BY <1>10, <1>11, <2>2 DEF Named, NameOf
    <3>3. p \notin Named(draft', name)
      BY <1>4, <1>11, <2>2 DEF Named
    <3>4. \A q \in StoredIn(draft) : q # p => draft'.products[q] = draft.products[q]
      BY <1>4, <2>2 DEF StoredIn
    <3> QED
      BY <3>1, <3>2, <3>3, <3>4 DEF Named
  <2> QED
    BY <2>1, <2>2 DEF Oldest
<1>12. ASSUME NEW q \in StoredIn(tables), NameOf(tables', q) \notin doubled'
       PROVE  /\ q \in ProductIds /\ q # p /\ tables'.products[q] = tables.products[q]
              /\ NameOf(tables', q) = NameOf(tables, q)
              /\ NameOf(tables, q) # row.name /\ NameOf(tables, q) \notin doubled
  <2>1. q \in ProductIds /\ tables.products[q] # NoRow
    BY DEF StoredIn
  <2>2. q # p
    BY <1>3, <1>12, <2>1 DEF NameOf
  <2>3. tables'.products[q] = tables.products[q] /\ NameOf(tables', q) = NameOf(tables, q)
    BY <1>3, <2>1, <2>2 DEF NameOf
  <2>4. q \in Named(tables, NameOf(tables, q))
    BY DEF Named, NameOf
  <2> QED
    BY <1>12, <2>1, <2>2, <2>3, <2>4
<1>13. PricesKept'
  <2> SUFFICES ASSUME NEW x \in PriceIds, tables.prices[x] # NoPriceRow
               PROVE  PriceKept(tables.prices[x], draft.prices[x],
                                NameOf(tables, tables.prices[x].product))'
    BY <1>1, <1>2 DEF PricesKept
  <2> DEFINE was == tables.prices[x]
             is == draft.prices[x]
             q == was.product
             name == NameOf(tables, q)
  <2>1. tables'.prices[x] = was /\ draft'.prices[x] = is
    BY <1>1, <1>2
  <2>2. q \in StoredIn(tables) /\ PriceKept(was, is, name)
    BY DEF CatalogInv, Referring, PricesKept
  <2>3. CASE NameOf(tables', q) \in doubled'
    BY <2>1, <2>2, <2>3 DEF PriceKept
  <2>4. CASE NameOf(tables', q) \notin doubled'
    <3>1. /\ NameOf(tables', q) = name /\ name \notin doubled /\ name \notin doubled'
          /\ tables'.products[q] = tables.products[q] /\ name # row.name
      BY <1>12, <2>2, <2>4
    <3>2. Merging => Oldest(draft', name) = Oldest(draft, name)
      BY <1>11, <3>1
    <3>3. ASSUME merge = "commit"
          PROVE  is # NoPriceRow /\ NameOf(draft', is.product) = name
      <4>1. is # NoPriceRow /\ NameOf(draft, is.product) = name
        BY <2>2, <3>1, <3>3 DEF PriceKept
      <4>2. is.product \in StoredIn(draft)
        BY <4>1 DEF CatalogInv, Referring
      <4>3. is.product # p
        BY <1>10, <3>1, <3>3, <4>1, <4>2 DEF Merging
      <4>4. draft'.products[is.product] = draft.products[is.product]
        BY <1>4, <3>3, <4>2, <4>3 DEF Merging, StoredIn
      <4> QED
        BY <4>1, <4>4 DEF NameOf
    <3> QED
      BY <2>1, <2>2, <3>1, <3>2, <3>3 DEF PriceKept, Merging
  <2> QED
    BY <2>3, <2>4
<1>14. WishesKept'
  <2>1. merge \in {"backfill", "prices", "forget"} => draft'.wishes = tables'.wishes
    BY <1>1, <1>2 DEF CatalogInv, WishesKept
  <2>2. ASSUME NEW w \in tables.wishes \ late PROVE WishKept(w, NameOf(tables, w[2]))'
    <3> DEFINE q == w[2]
               name == NameOf(tables, q)
    <3>1. q \in StoredIn(tables) /\ WishKept(w, name)
      BY DEF CatalogInv, Referring, WishesKept
    <3>2. CASE NameOf(tables', q) \in doubled'
      BY <3>2 DEF WishKept
    <3>3. CASE NameOf(tables', q) \notin doubled'
      <4>1. /\ NameOf(tables', q) = name /\ name \notin doubled /\ name \notin doubled'
            /\ name # row.name
        BY <1>12, <3>1, <3>3
      <4>2. Merging => Oldest(draft', name) = Oldest(draft, name)
        BY <1>11, <4>1
      <4>3. ASSUME merge = "commit"
            PROVE  \E r \in ProductIds : <<w[1], r>> \in draft'.wishes /\ NameOf(draft', r) = name
        <5>1. PICK r \in ProductIds : <<w[1], r>> \in draft.wishes /\ NameOf(draft, r) = name
          BY <3>1, <4>1, <4>3 DEF WishKept
        <5>2. r \in StoredIn(draft)
          BY <5>1 DEF CatalogInv, Referring
        <5>3. r # p
          BY <1>10, <4>1, <4>3, <5>1, <5>2 DEF Merging
        <5> QED
          BY <1>2, <1>4, <4>3, <5>1, <5>3 DEF Merging, NameOf
      <4> QED
        BY <1>2, <3>1, <4>1, <4>2, <4>3 DEF WishKept, Merging
    <3> QED
      BY <3>2, <3>3
  <2> QED
    BY <1>1, <2>1, <2>2 DEF WishesKept
<1>15. NamesApart'
  <2>1. ASSUME merge = "commit", NEW name \in Names \ doubled' PROVE OneOf(draft', name)
    <3>1. CASE name # row.name
      BY <1>11, <2>1, <3>1 DEF CatalogInv, NamesApart, OneOf, Merging
    <3>2. CASE name = row.name
      <4>1. Named(tables, name) = {}
        BY <2>1, <3>2
      <4>2. ASSUME NEW q \in Named(draft', name) PROVE q = p
        <5>1. q \in ProductIds /\ draft'.products[q] # NoRow /\ NameOf(draft', q) = name
          BY DEF Named, StoredIn, NameOf
        <5>2. ASSUME q # p PROVE FALSE
          <6>1. draft.products[q] = draft'.products[q]
            BY <1>4, <2>1, <5>1, <5>2 DEF Merging
          <6>2. q \in StoredIn(draft) /\ NameOf(draft, q) = name
            BY <5>1, <6>1 DEF StoredIn, NameOf
          <6>3. q \in Named(tables, name)
            BY <2>1, <6>2, DraftFollows DEF Merging, Named, NameOf
          <6> QED
            BY <4>1, <6>3
        <5> QED
          BY <5>2
      <4> QED
        BY <4>2 DEF OneOf
    <3> QED
      BY <3>1, <3>2
  <2>2. ASSUME merge = "merged", NEW name \in Names \ doubled' PROVE OneOf(tables', name)
    <3>1. CASE name # row.name
      BY <1>11, <2>2, <3>1 DEF CatalogInv, NamesApart, OneOf
    <3>2. CASE name = row.name
      <4>1. Named(tables, name) = {}
        BY <2>2, <3>2
      <4>2. \A q \in Named(tables', name) : q = p
        BY <1>3, <1>5, <4>1 DEF Named, StoredIn
      <4> QED
        BY <4>2 DEF OneOf
    <3> QED
      BY <3>1, <3>2
  <2> QED
    BY <2>1, <2>2 DEF NamesApart
<1> QED
  BY <1>7, <1>8, <1>9, <1>13, <1>14, <1>15 DEF CatalogInv, Referring, StoredIn

\* One request changes.
LEMMA OneCall ==
  ASSUME CallsTyped, NEW c \in Callers, NEW l, call' = [call EXCEPT ![c] = l],
         CallOK(l), merge' = merge
  PROVE  CallsTyped'
<1>1. l \in CallType
  BY DEF CallOK
<1>2. call' \in [Callers -> CallType]
  BY <1>1 DEF CallsTyped
<1>3. ASSUME NEW d \in Callers PROVE call'[d] = IF d = c THEN l ELSE call[d]
  BY DEF CallsTyped
<1> QED
  BY <1>2, <1>3 DEF CallsTyped, CallOK

LEMMA NoCallOK == CallOK(NoCall) /\ NoCall.pc = "idle"
BY DEF CallOK, CallType, NoCall

\* A request that answers, or that has not come to create anything.
LEMMA NoCreation ==
  ASSUME CatalogInv, NEW c \in Callers, NEW l, call' = [call EXCEPT ![c] = l], l.pc # "create",
         doubled \subseteq doubled',
         \A name : name \notin doubled' => Named(tables', name) \subseteq Named(tables, name)
  PROVE  CreationsSeen'
<1>1. \A d \in Callers : call'[d] = IF d = c THEN l ELSE call[d]
  BY DEF CatalogInv, CallsTyped
<1> QED
  BY <1>1 DEF CatalogInv, CreationsSeen

\* A step of one request that leaves the tables alone.
LEMMA CallStep ==
  ASSUME CatalogInv, CallsTyped', CreationsSeen', calls' \in 0..MaxCalls,
         UNCHANGED <<tables, draft, merge, late, doubled>>
  PROVE  CatalogInv'
<1>1. /\ CatalogTyped' /\ Referring(tables)' /\ Referring(draft)'
  BY DEF CatalogInv, CatalogTyped
<1>2. InStep' /\ NamesApart'
  BY DEF CatalogInv, InStep, NamesApart
<1>3. PricesKept'
  BY DEF CatalogInv, PricesKept, PriceKept
<1>4. WishesKept'
  BY DEF CatalogInv, WishesKept, WishKept
<1> QED
  BY <1>1, <1>2, <1>3, <1>4 DEF CatalogInv

LEMMA OneCallStep ==
  ASSUME CatalogInv, NEW c \in Callers, NEW l, call' = [call EXCEPT ![c] = l],
         CallOK(l), l.pc # "create", calls' \in 0..MaxCalls,
         UNCHANGED <<tables, draft, merge, late, doubled>>
  PROVE  CatalogInv'
<1>1. CallsTyped'
  BY OneCall DEF CatalogInv
<1>2. CreationsSeen'
  BY NoCreation
<1> QED
  BY <1>1, <1>2, CallStep

LEMMA CalledIs == CatalogInv /\ Called => calls' \in 0..MaxCalls
BY CatalogAssumption DEF CatalogInv, CatalogTyped, Called

LEMMA NamedShrinks ==
  ASSUME CatalogInv, NEW p \in ProductIds, NEW row \in ProductRow, NEW name, name # row.name
  PROVE  Named(WithProduct(tables, p, row), name) \subseteq Named(tables, name)
<1>1. WithProduct(tables, p, row).products = [tables.products EXCEPT ![p] = row]
  BY ProductWritten DEF CatalogInv, CatalogTyped
<1>2. tables.products \in [ProductIds -> ProductRow \cup {NoRow}]
  BY TablesAre DEF CatalogInv, CatalogTyped
<1> QED
  BY <1>1, <1>2 DEF Named, StoredIn

LEMMA InsertProductOK ==
  ASSUME CatalogInv, NEW c \in Callers, InsertProduct(c)
  PROVE  CatalogInv'
<1> USE CatalogAssumption
<1> DEFINE row == call[c].row
<1>1. PICK p \in ProductIds :
        /\ tables.products[p] = NoRow
        /\ Commits(WithProduct(tables, p, row), WithProduct(draft, p, row))
  BY DEF InsertProduct
<1>2. /\ call[c].pc = "create" /\ row \in ProductRow /\ CallsTyped
      /\ doubled' = IF call[c].crossed THEN doubled \cup {row.name} ELSE doubled
      /\ call' = [call EXCEPT ![c] = NoCall] /\ UNCHANGED <<merge, calls, late>>
  BY DEF InsertProduct, Replies, Steps, CatalogInv, CallsTyped, CallOK
<1>3. row.name \in Names /\ doubled \subseteq doubled' /\ doubled' \subseteq Names
  BY <1>2 DEF ProductRow, CatalogInv, CatalogTyped
<1>4. row.name \in doubled' \/ Named(tables, row.name) = {}
  BY <1>2 DEF CatalogInv, CreationsSeen
<1>5. CallsTyped'
  BY <1>2, NoCallOK, OneCall
<1>6. CreationsSeen'
  <2>1. \A d \in Callers : call'[d] = IF d = c THEN NoCall ELSE call[d]
    BY <1>2 DEF CallsTyped
  <2>2. ASSUME NEW d \in Callers, call'[d].pc = "create", ~ call'[d].crossed,
               call'[d].row.name \notin doubled'
        PROVE  Named(tables', call'[d].row.name) = {}
    <3>1. d # c /\ call'[d] = call[d]
      BY <2>1, <2>2, NoCallOK
    <3>2. call[d].row.name # row.name
      BY <1>2, <2>2, <3>1 DEF CatalogInv, CreationsSeen
    <3>3. Named(tables, call[d].row.name) = {}
      BY <1>3, <2>2, <3>1 DEF CatalogInv, CreationsSeen
    <3>4. tables' = WithProduct(tables, p, row)
      BY <1>1 DEF Commits
    <3> QED
      BY <1>2, <3>1, <3>2, <3>3, <3>4, NamedShrinks
  <2>3. ASSUME NEW d \in Callers, NEW e \in Callers, d # e,
               call'[d].pc = "create", call'[e].pc = "create",
               call'[d].row.name = call'[e].row.name
        PROVE  call'[d].crossed /\ call'[e].crossed
    <3>1. call'[d] = call[d] /\ call'[e] = call[e]
      BY <2>1, <2>3, NoCallOK
    <3> QED
      BY <2>3, <3>1 DEF CatalogInv, CreationsSeen
  <2> QED
    BY <2>2, <2>3 DEF CreationsSeen
<1>7. ~ LocksProduct(p)
  BY <1>1 DEF LocksProduct
<1> HIDE DEF row
<1> QED
  BY <1>1, <1>2, <1>3, <1>4, <1>5, <1>6, <1>7, ProductChange

LEMMA FindExistingOK ==
  ASSUME CatalogInv, NEW c \in Callers, NEW name \in Names, FindExisting(c, name)
  PROVE  CatalogInv'
<1> USE CatalogAssumption
<1>1. calls' \in 0..MaxCalls /\ UNCHANGED <<tables, draft, merge, late, doubled>>
  BY CalledIs DEF FindExisting
<1>2. CASE call' = call
  <2>1. CallsTyped' /\ CreationsSeen'
    BY <1>1, <1>2 DEF CatalogInv, CallsTyped, CallOK, CreationsSeen
  <2> QED
    BY <1>1, <2>1, CallStep
<1>3. CASE call' # call
  <2> DEFINE crossed == Creates(name) # {}
             l == [NoCall EXCEPT !.pc = "create", !.row = NewRow(name), !.crossed = crossed]
             k(d) == [call[d] EXCEPT !.crossed = TRUE]
  <2>1. /\ Named(tables, name) = {} /\ call[c].pc = "idle"
        /\ call' = [d \in Callers |-> IF d = c THEN l
                                      ELSE IF d \in Creates(name) THEN k(d) ELSE call[d]]
    BY <1>3 DEF FindExisting, Idle
  <2>2. crossed \in BOOLEAN
    OBVIOUS
  <2> HIDE DEF crossed
  <2>3. /\ l \in CallType /\ l.pc = "create" /\ l.row.name = name /\ l.crossed = crossed
        /\ l.row \in ProductRow
    <3>1. NewRow(name) \in ProductRow /\ NewRow(name).name = name
      BY DEF NewRow, NoRow, ProductRow
    <3> QED
      BY <2>2, <3>1 DEF CallType, NoCall
  <2>4. CallOK(l)
    BY <2>3 DEF CallOK
  <2>5. ASSUME NEW d \in Creates(name)
        PROVE  /\ k(d) \in CallType /\ k(d).crossed /\ CallOK(k(d))
               /\ k(d).pc = "create" /\ k(d).row = call[d].row
    <3>1. CallOK(call[d]) /\ call[d].pc = "create"
      BY DEF Creates, CatalogInv, CallsTyped
    <3>2. /\ k(d) \in CallType /\ k(d).crossed = TRUE /\ k(d).pc = "create"
          /\ k(d).row = call[d].row
      BY <3>1 DEF CallOK, CallType
    <3> QED
      BY <3>1, <3>2 DEF CallOK
  <2> HIDE DEF l, k
  <2>6. \A d \in Callers :
          /\ d = c => call'[d] = l
          /\ d # c /\ d \in Creates(name) => call'[d] = k(d)
          /\ d # c /\ d \notin Creates(name) => call'[d] = call[d]
    BY <2>1
  <2>7. CallsTyped'
    <3>1. ASSUME NEW d \in Callers PROVE CallOK(call'[d])
      BY <2>4, <2>5, <2>6 DEF CatalogInv, CallsTyped
    <3>2. call' = [d \in Callers |-> call'[d]]
      BY <2>1
    <3>3. \A d \in Callers : call'[d] \in CallType
      BY <3>1 DEF CallOK
    <3>4. call' \in [Callers -> CallType]
      BY <3>2, <3>3
    <3> QED
      BY <1>1, <3>1, <3>4 DEF CallsTyped, CallOK
  <2>8. ASSUME NEW d \in Callers, call'[d].pc = "create", ~ call'[d].crossed,
               call'[d].row.name \notin doubled
        PROVE  Named(tables, call'[d].row.name) = {}
    BY <2>1, <2>3, <2>5, <2>6, <2>8 DEF CatalogInv, CreationsSeen
  <2>9. ASSUME NEW d \in Callers, NEW e \in Callers, d # e,
               call'[d].pc = "create", call'[e].pc = "create",
               call'[d].row.name = call'[e].row.name
        PROVE  call'[d].crossed /\ call'[e].crossed
    <3>1. ASSUME NEW f \in Callers, f # c, call'[f].pc = "create", call'[f].row.name = name
          PROVE  f \in Creates(name) /\ call'[f].crossed
      BY <2>5, <2>6, <3>1 DEF Creates
    <3>2. CASE call'[d].row.name = name
      <4>1. \A f \in Callers : f # c /\ f \in Creates(name) => call'[c].crossed
        BY <2>3, <2>6 DEF crossed
      <4> QED
        BY <2>9, <3>1, <3>2, <4>1
    <3>3. CASE call'[d].row.name # name
      <4>1. d # c /\ e # c /\ d \notin Creates(name) /\ e \notin Creates(name)
        BY <2>3, <2>5, <2>6, <2>9, <3>3 DEF Creates
      <4> QED
        BY <2>6, <2>9, <4>1 DEF CatalogInv, CreationsSeen
    <3> QED
      BY <3>2, <3>3
  <2>10. CreationsSeen'
    BY <1>1, <2>8, <2>9 DEF CreationsSeen
  <2> QED
    BY <1>1, <2>7, <2>10, CallStep
<1> QED
  BY <1>2, <1>3

LEMMA LoadProductOK ==
  ASSUME CatalogInv, NEW c \in Callers, NEW p \in ProductIds, NEW name \in Names,
         LoadProduct(c, p, name)
  PROVE  CatalogInv'
<1> DEFINE row == [tables.products[p] EXCEPT !.name = name]
           l == [NoCall EXCEPT !.pc = "reload", !.product = p, !.row = row]
<1>1. tables.products[p] \in ProductRow
  BY TablesAre DEF CatalogInv, CatalogTyped, LoadProduct
<1>2. row \in ProductRow
  BY <1>1 DEF ProductRow
<1> HIDE DEF row
<1>3. CallOK(l) /\ l.pc = "reload"
  BY <1>2 DEF CallOK, CallType, NoCall
<1>4. call' = [call EXCEPT ![c] = l] /\ UNCHANGED <<tables, draft, merge, late, doubled>>
  BY DEF LoadProduct, Steps, row
<1> HIDE DEF l
<1> QED
  BY <1>3, <1>4, CalledIs, OneCallStep DEF LoadProduct

LEMMA ReloadProductOK ==
  ASSUME CatalogInv, NEW c \in Callers, ReloadProduct(c)
  PROVE  CatalogInv'
<1> DEFINE pc == IF tables.products[call[c].product] = NoRow THEN "reinsert" ELSE "update"
           l == [call[c] EXCEPT !.pc = pc]
<1>1. pc \in {"reinsert", "update"} /\ call[c].pc = "reload" /\ CallOK(call[c])
  BY DEF ReloadProduct, CatalogInv, CallsTyped
<1> HIDE DEF pc
<1>2. CallOK(l) /\ l.pc # "create"
  BY <1>1 DEF CallOK, CallType
<1>3. call' = [call EXCEPT ![c] = l] /\ UNCHANGED <<tables, draft, merge, calls, late, doubled>>
  BY DEF ReloadProduct, Steps, pc
<1> HIDE DEF l
<1>4. calls' \in 0..MaxCalls
  BY <1>3 DEF CatalogInv, CatalogTyped
<1> QED
  BY <1>2, <1>3, <1>4, OneCallStep

LEMMA FindWishedOK ==
  ASSUME CatalogInv, NEW c \in Callers, NEW u \in Wishers, NEW p \in ProductIds,
         FindWished(c, u, p)
  PROVE  CatalogInv'
<1> DEFINE l == [NoCall EXCEPT !.pc = "wish", !.wisher = u, !.product = p]
<1>1. CallOK(l) /\ l.pc = "wish"
  BY DEF CallOK, CallType, NoCall
<1>2. call' = [call EXCEPT ![c] = l] /\ UNCHANGED <<tables, draft, merge, late, doubled>>
  BY DEF FindWished, Steps
<1> HIDE DEF l
<1> QED
  BY <1>1, <1>2, CalledIs, OneCallStep DEF FindWished

LEMMA FindPricedOK ==
  ASSUME CatalogInv, NEW c \in Callers, NEW x \in PriceIds, NEW p \in ProductIds,
         FindPriced(c, x, p)
  PROVE  CatalogInv'
<1> DEFINE l == [NoCall EXCEPT !.pc = "price", !.price = x, !.product = p]
<1>1. CallOK(l) /\ l.pc = "price"
  BY DEF CallOK, CallType, NoCall, FindPriced, Migrated
<1>2. call' = [call EXCEPT ![c] = l] /\ UNCHANGED <<tables, draft, merge, late, doubled>>
  BY DEF FindPriced, Steps
<1> HIDE DEF l
<1> QED
  BY <1>1, <1>2, CalledIs, OneCallStep DEF FindPriced

\* A request that answers and leaves the tables alone.
LEMMA OnlyReplies ==
  ASSUME CatalogInv, NEW c \in Callers, Replies(c),
         UNCHANGED <<tables, draft, merge, calls, late, doubled>>
  PROVE  CatalogInv'
<1>1. calls' \in 0..MaxCalls
  BY DEF CatalogInv, CatalogTyped
<1> QED
  BY <1>1, NoCallOK, OneCallStep DEF Replies, Steps

\* A request that writes one product and answers.
LEMMA WriteAndReply ==
  ASSUME CatalogInv, NEW c \in Callers, Replies(c), NEW p \in ProductIds, NEW row \in ProductRow,
         Commits(WithProduct(tables, p, row), WithProduct(draft, p, row)),
         merge' = merge, late' = late, calls' = calls,
         doubled \subseteq doubled', doubled' \subseteq Names, row.name \in doubled',
         tables.products[p] # NoRow =>
           /\ row.unit = tables.products[p].unit
           /\ Merging => tables.products[p].name \in doubled',
         ~ LocksProduct(p)
  PROVE  CatalogInv'
<1>1. call' = [call EXCEPT ![c] = NoCall] /\ NoCall.pc # "create"
  BY NoCallOK DEF Replies, Steps
<1>2. CallsTyped'
  BY <1>1, NoCallOK, OneCall DEF CatalogInv
<1>3. ASSUME NEW name, name \notin doubled' PROVE Named(tables', name) \subseteq Named(tables, name)
  <2>1. name # row.name /\ tables' = WithProduct(tables, p, row)
    BY <1>3 DEF Commits
  <2> QED
    BY <2>1, NamedShrinks
<1>4. CreationsSeen'
  BY <1>1, <1>3, NoCreation
<1> QED
  BY <1>2, <1>4, ProductChange

LEMMA WriteProductOK ==
  ASSUME CatalogInv, NEW c \in Callers, WriteProduct(c)
  PROVE  CatalogInv'
<1> DEFINE p == call[c].product
           row == [tables.products[p] EXCEPT !.name = call[c].row.name]
<1>1. /\ call[c].pc = "update" /\ CallOK(call[c]) /\ ~ LocksProduct(p) /\ Replies(c)
      /\ UNCHANGED <<merge, calls, late>>
  BY DEF WriteProduct, CatalogInv, CallsTyped
<1>2. p \in ProductIds /\ call[c].row.name \in Names
  BY <1>1 DEF CallOK, ProductRow
<1>3. CASE tables.products[p] = NoRow
  BY <1>1, <1>3, OnlyReplies DEF WriteProduct
<1>4. CASE tables.products[p] # NoRow
  <2>1. tables.products[p] \in ProductRow
    BY <1>2, <1>4, TablesAre DEF CatalogInv, CatalogTyped
  <2>2. row \in ProductRow /\ row.unit = tables.products[p].unit /\ row.name = call[c].row.name
    BY <1>2, <2>1 DEF ProductRow
  <2>3. /\ Commits(WithProduct(tables, p, row), WithProduct(draft, p, row))
        /\ doubled' = doubled \cup {row.name} \cup
                         IF Merging THEN {tables.products[p].name} ELSE {}
    BY <1>4 DEF WriteProduct
  <2>4. tables.products[p].name \in Names /\ doubled \subseteq Names
    BY <2>1 DEF ProductRow, CatalogInv, CatalogTyped
  <2> HIDE DEF row, p
  <2>5. /\ doubled \subseteq doubled' /\ doubled' \subseteq Names /\ row.name \in doubled'
        /\ Merging => tables.products[p].name \in doubled'
    BY <1>2, <2>2, <2>3, <2>4
  <2> QED
    BY <1>1, <1>2, <2>2, <2>3, <2>5, WriteAndReply
<1> QED
  BY <1>3, <1>4

LEMMA ReinsertProductOK ==
  ASSUME CatalogInv, NEW c \in Callers, ReinsertProduct(c)
  PROVE  CatalogInv'
<1> DEFINE p == call[c].product
           row == call[c].row
<1>1. /\ call[c].pc = "reinsert" /\ CallOK(call[c]) /\ Replies(c)
      /\ UNCHANGED <<merge, calls, late>>
  BY DEF ReinsertProduct, CatalogInv, CallsTyped
<1>2. p \in ProductIds /\ row \in ProductRow /\ row.name \in Names
  BY <1>1 DEF CallOK, ProductRow
<1>3. CASE tables.products[p] # NoRow
  BY <1>1, <1>3, OnlyReplies DEF ReinsertProduct
<1>4. CASE tables.products[p] = NoRow
  <2>1. /\ Commits(WithProduct(tables, p, row), WithProduct(draft, p, row))
        /\ doubled' = doubled \cup {row.name}
        /\ ~ LocksProduct(p) /\ doubled \subseteq Names
    BY <1>4 DEF ReinsertProduct, LocksProduct, CatalogInv, CatalogTyped
  <2> HIDE DEF row, p
  <2> QED
    BY <1>1, <1>2, <1>4, <2>1, WriteAndReply
<1> QED
  BY <1>3, <1>4

\* A change of wishes keeps everything, if they are for products with a row and the
\* migration keeps those it has to.
LEMMA WishesChange ==
  ASSUME CatalogInv, NEW ours, NEW its,
         Commits([tables EXCEPT !.wishes = ours], [draft EXCEPT !.wishes = its]),
         ours \subseteq Wishers \X ProductIds, its \subseteq Wishers \X ProductIds,
         \A w \in ours : w[2] \in StoredIn(tables),
         Merging => \A w \in its : w[2] \in StoredIn(draft),
         merge' = merge, doubled' = doubled, calls' \in 0..MaxCalls,
         late' \subseteq Wishers \X ProductIds, CallsTyped', CreationsSeen', WishesKept'
  PROVE  CatalogInv'
<1>1. tables \in Tables /\ draft \in Tables
  BY DEF CatalogInv, CatalogTyped
<1>2. /\ tables' \in Tables /\ tables'.products = tables.products
      /\ tables'.wishes = ours /\ tables'.prices = tables.prices
  BY <1>1, WishesWritten DEF Commits
<1>3. /\ draft' \in Tables /\ draft'.products = draft.products /\ draft'.prices = draft.prices
      /\ draft'.wishes = IF Merging THEN its ELSE draft.wishes
  BY <1>1, WishesWritten DEF Commits
<1>4. CatalogTyped'
  BY <1>2, <1>3 DEF CatalogInv, CatalogTyped
<1>5. Referring(tables)' /\ Referring(draft)'
  BY <1>2, <1>3 DEF CatalogInv, Referring, StoredIn
<1>6. InStep' /\ NamesApart'
  BY <1>2, <1>3 DEF CatalogInv, InStep, NamesApart, OneOf, Named, StoredIn
<1>7. PricesKept'
  <2>1. /\ \A name : Oldest(draft', name) = Oldest(draft, name)
        /\ \A q : NameOf(tables', q) = NameOf(tables, q) /\ NameOf(draft', q) = NameOf(draft, q)
    BY <1>2, <1>3 DEF Oldest, Named, StoredIn, NameOf
  <2> QED
    BY <1>2, <1>3, <2>1 DEF CatalogInv, PricesKept, PriceKept
<1> QED
  BY <1>4, <1>5, <1>6, <1>7 DEF CatalogInv

LEMMA AddWishOK ==
  ASSUME CatalogInv, NEW c \in Callers, AddWish(c)
  PROVE  CatalogInv'
<1> DEFINE p == call[c].product
           w == <<call[c].wisher, p>>
           ours == tables.wishes \cup {w}
           its == draft.wishes \cup {w}
<1>1. /\ call[c].pc = "wish" /\ CallOK(call[c]) /\ ~ LocksProduct(p) /\ Replies(c)
      /\ UNCHANGED <<merge, calls, doubled>> /\ calls' \in 0..MaxCalls
  BY DEF AddWish, CatalogInv, CatalogTyped, CallsTyped
<1>2. w \in Wishers \X ProductIds /\ p \in ProductIds /\ w[2] = p
  BY <1>1 DEF CallOK
<1>3. CASE UNCHANGED <<tables, draft, late>>
  BY <1>1, <1>3, OnlyReplies
<1>4. CASE ~ UNCHANGED <<tables, draft, late>>
  <2>1. /\ Commits(WithWish(tables, w), WithWish(draft, w)) /\ tables.products[p] # NoRow
        /\ late' = IF merge \in {"products", "commit"} THEN late \cup {w} ELSE late
    BY <1>2, <1>4 DEF AddWish
  <2>2. Commits([tables EXCEPT !.wishes = ours], [draft EXCEPT !.wishes = its])
    BY <2>1 DEF WithWish
  <2>3. /\ ours \subseteq Wishers \X ProductIds /\ its \subseteq Wishers \X ProductIds
        /\ late' \subseteq Wishers \X ProductIds
        /\ tables \in Tables /\ draft \in Tables
    BY <1>2, <2>1, TablesAre DEF CatalogInv, CatalogTyped
  <2>4. p \in StoredIn(tables) /\ (Merging => p \in StoredIn(draft))
    BY <1>1, <1>2, <2>1 DEF StoredIn, LocksProduct
  <2>5. /\ \A v \in ours : v[2] \in StoredIn(tables)
        /\ \A v \in its : Merging => v[2] \in StoredIn(draft)
    BY <1>2, <2>4 DEF CatalogInv, Referring
  <2> HIDE DEF ours, its
  <2>6. /\ tables'.products = tables.products /\ tables'.wishes = ours
        /\ Merging => draft'.products = draft.products /\ draft'.wishes = its
    BY <2>2, <2>3, WishesWritten DEF Commits
  <2>7. CallsTyped' /\ CreationsSeen'
    <3>1. call' = [call EXCEPT ![c] = NoCall] /\ NoCall.pc # "create"
      BY <1>1, NoCallOK DEF Replies, Steps
    <3>2. \A name : Named(tables', name) = Named(tables, name)
      BY <2>6 DEF Named, StoredIn
    <3> QED
      BY <1>1, <3>1, <3>2, NoCallOK, OneCall, NoCreation DEF CatalogInv
  <2>8. WishesKept'
    <3>1. merge \in {"backfill", "prices", "forget"} => draft'.wishes = tables'.wishes
      BY <2>6 DEF CatalogInv, WishesKept, Merging, ours, its
    <3>2. ASSUME NEW v \in tables'.wishes \ late' PROVE WishKept(v, NameOf(tables, v[2]))'
      <4> DEFINE name == NameOf(tables, v[2])
      <4>1. NameOf(tables', v[2]) = name
        BY <2>6 DEF NameOf
      <4>2. Merging => Oldest(draft', name) = Oldest(draft, name) /\ draft.wishes \subseteq draft'.wishes
        BY <2>6 DEF Oldest, Named, StoredIn, its
      <4>3. Merging => \A q : NameOf(draft', q) = NameOf(draft, q)
        BY <2>6 DEF NameOf
      <4>4. CASE v = w
        BY <1>1, <2>1, <2>6, <3>2, <4>4 DEF WishKept, Merging, its
      <4>5. CASE v # w
        <5>1. v \in tables.wishes \ late
          BY <2>1, <2>6, <3>2, <4>5 DEF ours
        <5>2. WishKept(v, name)
          BY <5>1 DEF CatalogInv, WishesKept
        <5> HIDE DEF name
        <5> QED
          BY <1>1, <4>1, <4>2, <4>3, <5>2 DEF WishKept, Merging
      <4> QED
        BY <4>4, <4>5
    <3> QED
      BY <1>1, <3>1, <3>2 DEF WishesKept
  <2> HIDE DEF w
  <2> QED
    BY <1>1, <2>2, <2>3, <2>5, <2>7, <2>8, WishesChange
<1> QED
  BY <1>3, <1>4

LEMMA RemoveWishOK ==
  ASSUME CatalogInv, NEW w \in Wishers \X ProductIds, RemoveWish(w)
  PROVE  CatalogInv'
<1> DEFINE ours == tables.wishes \ {w}
           its == draft.wishes \ {w}
           too == {v \in tables.wishes \ {w} :
                     v[1] = w[1] /\ NameOf(tables, v[2]) = NameOf(tables, w[2])}
<1>1. /\ w \in tables.wishes /\ calls' \in 0..MaxCalls /\ UNCHANGED <<merge, call, doubled>>
      /\ late' = (late \ {w}) \cup
                   IF merge \in {"wishes", "products", "commit"} THEN too ELSE {}
  BY CalledIs DEF RemoveWish, NameOf
<1>2. Commits([tables EXCEPT !.wishes = ours], [draft EXCEPT !.wishes = its])
  BY DEF RemoveWish, WithoutWish
<1>3. /\ ours \subseteq Wishers \X ProductIds /\ its \subseteq Wishers \X ProductIds
      /\ late' \subseteq Wishers \X ProductIds
      /\ tables \in Tables /\ draft \in Tables
  BY <1>1, TablesAre DEF CatalogInv, CatalogTyped
<1>4. /\ \A v \in ours : v[2] \in StoredIn(tables)
      /\ \A v \in its : v[2] \in StoredIn(draft)
  BY DEF CatalogInv, Referring
<1> HIDE DEF ours, its
<1>5. /\ tables'.products = tables.products /\ tables'.wishes = ours
      /\ Merging => draft'.products = draft.products /\ draft'.wishes = its
  BY <1>2, <1>3, WishesWritten DEF Commits
<1>6. CallsTyped' /\ CreationsSeen'
  <2>1. \A name : Named(tables', name) = Named(tables, name)
    BY <1>5 DEF Named, StoredIn
  <2> QED
    BY <1>1, <2>1 DEF CatalogInv, CallsTyped, CallOK, CreationsSeen
<1>7. WishesKept'
  <2>1. merge \in {"backfill", "prices", "forget"} => draft'.wishes = tables'.wishes
    BY <1>5 DEF CatalogInv, WishesKept, Merging, ours, its
  <2>2. ASSUME NEW v \in tables'.wishes \ late' PROVE WishKept(v, NameOf(tables, v[2]))'
    <3> DEFINE name == NameOf(tables, v[2])
    <3>1. v \in tables.wishes \ late /\ v # w /\ v \in Wishers \X ProductIds
      BY <1>1, <1>3, <1>5, <2>2 DEF ours
    <3>2. WishKept(v, name) /\ v[2] \in StoredIn(tables)
      BY <3>1 DEF CatalogInv, WishesKept, Referring
    <3>3. merge \in {"wishes", "products", "commit"} => ~ (v[1] = w[1] /\ name = NameOf(tables, w[2]))
      BY <1>1, <2>2, <3>1
    <3>4. NameOf(tables', v[2]) = name
      BY <1>5 DEF NameOf
    <3>5. Merging => Oldest(draft', name) = Oldest(draft, name)
      BY <1>5 DEF Oldest, Named, StoredIn
    <3>6. ASSUME merge \in {"wishes", "products"} PROVE <<v[1], Oldest(draft, name)>> # w
      <4>1. draft.products = tables.products
        BY <3>6 DEF CatalogInv, InStep
      <4>2. v[2] \in Named(draft, name)
        BY <3>2, <4>1 DEF Named, StoredIn, NameOf
      <4>3. NameOf(tables, Oldest(draft, name)) = name
        BY <4>1, <4>2, OldestOf DEF Named, NameOf
      <4> QED
        BY <3>3, <3>6, <4>3
    <3>7. ASSUME merge = "commit", NEW q \in ProductIds, <<v[1], q>> \in draft.wishes,
                 NameOf(draft, q) = name
          PROVE  <<v[1], q>> # w /\ NameOf(draft', q) = name
      <4>1. q \in StoredIn(draft)
        BY <3>7 DEF CatalogInv, Referring
      <4>2. NameOf(tables, q) = name
        BY <3>7, <4>1, DraftFollows DEF Merging
      <4> QED
        BY <1>5, <3>3, <3>7, <4>2 DEF Merging, NameOf
    <3> HIDE DEF name
    <3>8. ASSUME name \notin doubled, merge = "commit"
          PROVE  \E q \in ProductIds : <<v[1], q>> \in draft'.wishes /\ NameOf(draft', q) = name
      BY <1>5, <3>2, <3>7, <3>8 DEF WishKept, Merging, its
    <3>9. ASSUME name \notin doubled, merge = "products"
          PROVE  <<v[1], Oldest(draft', name)>> \in draft'.wishes
      BY <1>5, <3>2, <3>5, <3>6, <3>9 DEF WishKept, Merging, its
    <3>10. ASSUME name \notin doubled, merge = "wishes"
           PROVE  v \in draft'.wishes \/ <<v[1], Oldest(draft', name)>> \in draft'.wishes
      BY <1>5, <3>1, <3>2, <3>5, <3>6, <3>10 DEF WishKept, Merging, its
    <3> QED
      BY <1>1, <3>4, <3>8, <3>9, <3>10 DEF WishKept
  <2> QED
    BY <1>1, <2>1, <2>2 DEF WishesKept
<1> HIDE DEF too
<1> QED
  BY <1>1, <1>2, <1>3, <1>4, <1>6, <1>7, WishesChange

\* The migration at rest: nothing is claimed of what it has.
LEMMA AtRest ==
  ASSUME ~ Merging, merge' = merge
  PROVE  InStep' /\ PricesKept' /\ WishesKept'
BY DEF Merging, InStep, PricesKept, PriceKept, WishesKept, WishKept

LEMMA InsertPriceOK ==
  ASSUME CatalogInv, NEW c \in Callers, InsertPrice(c)
  PROVE  CatalogInv'
<1> DEFINE p == call[c].product
           x == call[c].price
<1>1. /\ call[c].pc = "price" /\ CallOK(call[c]) /\ Replies(c)
      /\ UNCHANGED <<draft, merge, calls, late, doubled>> /\ calls' \in 0..MaxCalls
  BY DEF InsertPrice, CatalogInv, CatalogTyped, CallsTyped
<1>2. merge = "merged" /\ p \in ProductIds /\ x \in PriceIds
  BY <1>1 DEF CallOK
<1>3. CASE tables' = tables
  BY <1>1, <1>3, OnlyReplies
<1>4. CASE tables' # tables
  <2>1. PICK unit \in Units :
          /\ tables' = [tables EXCEPT !.prices[x] = [product |-> p, unit |-> unit]]
          /\ tables.products[p] # NoRow
    BY <1>4 DEF InsertPrice
  <2> DEFINE row == [product |-> p, unit |-> unit]
             prices == [tables.prices EXCEPT ![x] = row]
  <2>2. row \in PriceRow /\ row.product = p
    BY <1>2 DEF PriceRow
  <2> HIDE DEF row
  <2>3. tables \in Tables /\ tables.prices \in [PriceIds -> PriceRow \cup {NoPriceRow}]
    BY TablesAre DEF CatalogInv, CatalogTyped
  <2>4. prices \in [PriceIds -> PriceRow \cup {NoPriceRow}] /\ p \in StoredIn(tables)
    BY <1>2, <2>1, <2>2, <2>3 DEF StoredIn
  <2>5. tables' = [tables EXCEPT !.prices = prices]
    BY <2>1 DEF row
  <2>6. \A y \in PriceIds : prices[y] = IF y = x THEN row ELSE tables.prices[y]
    BY <2>3
  <2> HIDE DEF prices
  <2>7. /\ tables' \in Tables /\ tables'.products = tables.products
        /\ tables'.wishes = tables.wishes /\ tables'.prices = prices
    BY <2>3, <2>4, <2>5, PricesWritten
  <2>8. Referring(tables)' /\ Referring(draft)'
    BY <1>1, <2>2, <2>4, <2>6, <2>7 DEF CatalogInv, Referring, StoredIn
  <2>9. \A name : Named(tables', name) = Named(tables, name)
    BY <2>7 DEF Named, StoredIn
  <2>10. NamesApart'
    BY <1>1, <2>9 DEF CatalogInv, NamesApart, OneOf
  <2>11. CallsTyped' /\ CreationsSeen'
    <3>1. call' = [call EXCEPT ![c] = NoCall] /\ NoCall.pc # "create"
      BY <1>1, NoCallOK DEF Replies, Steps
    <3> QED
      BY <1>1, <2>9, <3>1, NoCallOK, OneCall, NoCreation DEF CatalogInv
  <2>12. CatalogTyped'
    BY <1>1, <2>7 DEF CatalogInv, CatalogTyped
  <2> QED
    BY <1>1, <1>2, <2>8, <2>10, <2>11, <2>12, AtRest DEF CatalogInv, Merging
<1> QED
  BY <1>3, <1>4

LEMMA RemoveProductOK ==
  ASSUME CatalogInv, NEW p \in ProductIds, RemoveProduct(p)
  PROVE  CatalogInv'
<1> DEFINE products == [tables.products EXCEPT ![p] = NoRow]
           wishes == {w \in tables.wishes : w[2] # p}
           prices == [x \in PriceIds |-> IF tables.prices[x].product = p
                                          THEN NoPriceRow ELSE tables.prices[x]]
<1>1. /\ tables' = [products |-> products, wishes |-> wishes, prices |-> prices]
      /\ ~ Merging /\ calls' \in 0..MaxCalls /\ UNCHANGED <<draft, merge, call, late, doubled>>
  BY CalledIs DEF RemoveProduct
<1>2. /\ tables.products \in [ProductIds -> ProductRow \cup {NoRow}]
      /\ tables.wishes \subseteq Wishers \X ProductIds
      /\ tables.prices \in [PriceIds -> PriceRow \cup {NoPriceRow}]
  BY TablesAre DEF CatalogInv, CatalogTyped
<1>3. /\ products \in [ProductIds -> ProductRow \cup {NoRow}]
      /\ wishes \subseteq Wishers \X ProductIds
      /\ prices \in [PriceIds -> PriceRow \cup {NoPriceRow}]
  BY <1>2
<1>4. /\ \A q \in ProductIds : products[q] = IF q = p THEN NoRow ELSE tables.products[q]
      /\ \A w \in wishes : w \in tables.wishes /\ w[2] # p
      /\ \A x \in PriceIds : prices[x] # NoPriceRow =>
           prices[x] = tables.prices[x] /\ tables.prices[x].product # p
  BY <1>2
<1> HIDE DEF products, wishes, prices
<1>5. /\ tables' \in Tables /\ tables'.products = products
      /\ tables'.wishes = wishes /\ tables'.prices = prices
  BY <1>1, <1>3, TablesMade
<1>6. StoredIn(tables') = StoredIn(tables) \ {p}
  BY <1>4, <1>5 DEF StoredIn
<1>7. Referring(tables)' /\ Referring(draft)'
  <2>1. \A w \in tables'.wishes : w[2] \in StoredIn(tables')
    BY <1>4, <1>5, <1>6 DEF CatalogInv, Referring
  <2>2. \A x \in PriceIds : tables'.prices[x] # NoPriceRow =>
                              tables'.prices[x].product \in StoredIn(tables')
    BY <1>4, <1>5, <1>6 DEF CatalogInv, Referring
  <2> QED
    BY <1>1, <2>1, <2>2 DEF CatalogInv, Referring, StoredIn
<1>8. \A name : Named(tables', name) \subseteq Named(tables, name)
  BY <1>4, <1>5, <1>6 DEF Named, StoredIn
<1>9. NamesApart'
  BY <1>1, <1>8 DEF CatalogInv, NamesApart, OneOf
<1>10. CallsTyped' /\ CreationsSeen'
  <2>1. CallsTyped'
    BY <1>1 DEF CatalogInv, CallsTyped, CallOK
  <2>2. CreationsSeen'
    BY <1>1, <1>8 DEF CatalogInv, CreationsSeen
  <2> QED
    BY <2>1, <2>2
<1>11. CatalogTyped'
  BY <1>1, <1>5 DEF CatalogInv, CatalogTyped
<1> QED
  BY <1>1, <1>7, <1>9, <1>10, <1>11, AtRest DEF CatalogInv

\* A step of the migration, but its end.
LEMMA MergeStepOK ==
  ASSUME CatalogInv, merge # "merged", UNCHANGED <<tables, call, calls, late, doubled>>,
         merge' \in {"backfill", "prices", "forget", "wishes", "products", "commit", "failed"},
         draft' \in Tables, Referring(draft'), InStep', PricesKept', WishesKept', NamesApart'
  PROVE  CatalogInv'
<1>1. CatalogTyped'
  BY DEF CatalogInv, CatalogTyped
<1>2. CallsTyped'
  BY DEF CatalogInv, CallsTyped, CallOK
<1>3. CreationsSeen' /\ Referring(tables)'
  BY DEF CatalogInv, CreationsSeen
<1> QED
  BY <1>1, <1>2, <1>3 DEF CatalogInv

\* Until it deletes any, the migration has the products that requests see.
LEMMA SameProducts ==
  ASSUME CatalogInv, merge \in {"backfill", "prices", "forget", "wishes", "products"}
  PROVE  /\ draft.products = tables.products /\ StoredIn(draft) = StoredIn(tables)
         /\ \A p : NameOf(draft, p) = NameOf(tables, p)
BY DEF CatalogInv, InStep, StoredIn, NameOf

\* For a product of either, the keeper is the oldest of its name.
LEMMA KeeperOfName ==
  ASSUME CatalogInv, merge \in {"backfill", "prices", "forget", "wishes", "products"},
         NEW p \in StoredIn(tables)
  PROVE  /\ p \in StoredIn(draft) /\ Keeper(draft, p) = Oldest(draft, NameOf(tables, p))
         /\ Keeper(draft, p) \in StoredIn(draft) /\ Keeper(draft, p) \notin Dups(draft)
         /\ NameOf(draft, Keeper(draft, p)) = NameOf(tables, p)
         /\ p \notin Dups(draft) => Keeper(draft, p) = p
<1>1. p \in StoredIn(draft) /\ NameOf(draft, p) = NameOf(tables, p)
  BY SameProducts
<1> QED
  BY <1>1, KeeperIs

LEMMA StartMergeOK ==
  ASSUME CatalogInv, StartMerge
  PROVE  CatalogInv'
<1>1. /\ merge = "due" /\ merge' = "backfill" /\ draft' = tables
      /\ UNCHANGED <<tables, call, calls, late, doubled>>
  BY DEF StartMerge, MergeStep
<1>2. InStep' /\ PricesKept' /\ WishesKept' /\ NamesApart'
  BY <1>1 DEF InStep, PricesKept, PriceKept, WishesKept, WishKept, NamesApart
<1>3. draft' \in Tables /\ Referring(draft')
  BY <1>1 DEF CatalogInv, CatalogTyped
<1> QED
  BY <1>1, <1>2, <1>3, MergeStepOK

LEMMA BackfillUnitsOK ==
  ASSUME CatalogInv, BackfillUnits
  PROVE  CatalogInv'
<1> DEFINE unit(x) == draft.products[draft.prices[x].product].unit
           filled(x) == [draft.prices[x] EXCEPT !.unit = unit(x)]
           prices == [x \in PriceIds |-> IF draft.prices[x] = NoPriceRow THEN NoPriceRow
                                         ELSE filled(x)]
<1>1. /\ merge = "backfill" /\ merge' = "prices" /\ draft' = [draft EXCEPT !.prices = prices]
      /\ UNCHANGED <<tables, call, calls, late, doubled>>
  BY DEF BackfillUnits, MergeStep
<1>2. draft \in Tables /\ draft.prices \in [PriceIds -> PriceRow \cup {NoPriceRow}]
  BY TablesAre DEF CatalogInv, CatalogTyped
<1>3. ASSUME NEW x \in PriceIds, draft.prices[x] # NoPriceRow
      PROVE  /\ filled(x) \in PriceRow /\ filled(x).product = draft.prices[x].product
             /\ filled(x).unit = unit(x) /\ draft.prices[x].product \in StoredIn(draft)
  <2>1. draft.prices[x].product \in StoredIn(draft) /\ draft.prices[x] \in PriceRow
    BY <1>2, <1>3 DEF CatalogInv, Referring
  <2>2. unit(x) \in Units \cup {NoProduct}
    BY <1>2, <2>1, StoredRow DEF ProductRow
  <2> HIDE DEF unit
  <2> QED
    BY <2>1, <2>2 DEF PriceRow
<1> HIDE DEF filled
<1>4. prices \in [PriceIds -> PriceRow \cup {NoPriceRow}]
  BY <1>3
<1>5. \A x \in PriceIds : prices[x] = IF draft.prices[x] = NoPriceRow THEN NoPriceRow
                                       ELSE filled(x)
  OBVIOUS
<1> HIDE DEF prices
<1>6. /\ draft' \in Tables /\ draft'.products = draft.products
      /\ draft'.wishes = draft.wishes /\ draft'.prices = prices
  BY <1>1, <1>2, <1>4, PricesWritten
<1>7. Referring(draft')
  BY <1>3, <1>5, <1>6 DEF CatalogInv, Referring, StoredIn
<1>8. InStep' /\ NamesApart'
  BY <1>1, <1>6 DEF CatalogInv, InStep, NamesApart
<1>9. WishesKept'
  BY <1>1, <1>6 DEF CatalogInv, WishesKept, WishKept
<1>10. PricesKept'
  <2> SUFFICES ASSUME NEW x \in PriceIds, tables.prices[x] # NoPriceRow
               PROVE  PriceKept(tables.prices[x], draft.prices[x],
                                NameOf(tables, tables.prices[x].product))'
    BY <1>1 DEF PricesKept
  <2>1. draft.prices[x] = tables.prices[x]
    BY <1>1 DEF CatalogInv, PricesKept, PriceKept
  <2>2. prices[x] = filled(x) /\ filled(x).product = tables.prices[x].product
    BY <1>3, <1>5, <2>1
  <2>3. filled(x).unit = tables.products[tables.prices[x].product].unit
    BY <1>1, <1>3, <2>1, SameProducts
  <2> QED
    BY <1>1, <1>6, <2>2, <2>3 DEF PriceKept
<1> QED
  BY <1>1, <1>6, <1>7, <1>8, <1>9, <1>10, MergeStepOK

LEMMA RepointPricesOK ==
  ASSUME CatalogInv, RepointPrices
  PROVE  CatalogInv'
<1> DEFINE repointed(x) == [draft.prices[x] EXCEPT !.product = Keeper(draft, draft.prices[x].product)]
           prices == [x \in PriceIds |-> IF draft.prices[x].product \in Dups(draft)
                                         THEN repointed(x) ELSE draft.prices[x]]
<1>1. /\ merge = "prices" /\ merge' = "forget" /\ draft' = [draft EXCEPT !.prices = prices]
      /\ UNCHANGED <<tables, call, calls, late, doubled>>
  BY DEF RepointPrices, MergeStep
<1>2. draft \in Tables /\ draft.prices \in [PriceIds -> PriceRow \cup {NoPriceRow}]
  BY TablesAre DEF CatalogInv, CatalogTyped
<1>3. ASSUME NEW x \in PriceIds, draft.prices[x].product \in Dups(draft)
      PROVE  /\ repointed(x) \in PriceRow /\ repointed(x).unit = draft.prices[x].unit
             /\ repointed(x).product = Keeper(draft, draft.prices[x].product)
             /\ repointed(x).product \in StoredIn(draft) /\ draft.prices[x] # NoPriceRow
  <2>1. draft.prices[x].product \in StoredIn(draft)
    BY <1>3 DEF Dups
  <2>2. draft.prices[x] \in PriceRow
    BY <1>2, <2>1, CatalogAssumption DEF NoPriceRow, StoredIn
  <2>3. Keeper(draft, draft.prices[x].product) \in StoredIn(draft)
    BY <2>1, KeeperIs
  <2>4. Keeper(draft, draft.prices[x].product) \in ProductIds
    BY <2>3 DEF StoredIn
  <2>5. draft.prices[x] # NoPriceRow
    BY <2>2, NoRowIsNone
  <2> QED
    BY <2>2, <2>3, <2>4, <2>5 DEF PriceRow
<1> HIDE DEF repointed
<1>4. prices \in [PriceIds -> PriceRow \cup {NoPriceRow}]
  BY <1>2, <1>3
<1>5. \A x \in PriceIds : prices[x] = IF draft.prices[x].product \in Dups(draft)
                                       THEN repointed(x) ELSE draft.prices[x]
  OBVIOUS
<1> HIDE DEF prices
<1>6. /\ draft' \in Tables /\ draft'.products = draft.products
      /\ draft'.wishes = draft.wishes /\ draft'.prices = prices
  BY <1>1, <1>2, <1>4, PricesWritten
<1>7. Referring(draft')
  BY <1>3, <1>5, <1>6 DEF CatalogInv, Referring, StoredIn
<1>8. InStep' /\ NamesApart'
  BY <1>1, <1>6 DEF CatalogInv, InStep, NamesApart
<1>9. WishesKept'
  BY <1>1, <1>6 DEF CatalogInv, WishesKept, WishKept
<1>10. PricesKept'
  <2> SUFFICES ASSUME NEW x \in PriceIds, tables.prices[x] # NoPriceRow
               PROVE  PriceKept(tables.prices[x], draft.prices[x],
                                NameOf(tables, tables.prices[x].product))'
    BY <1>1 DEF PricesKept
  <2> DEFINE p == tables.prices[x].product
             name == NameOf(tables, p)
  <2>1. p \in StoredIn(tables) /\ draft.prices[x].product = p
    BY <1>1 DEF CatalogInv, PricesKept, PriceKept, Referring
  <2>2. name \notin doubled => draft.prices[x].unit = tables.products[p].unit
    BY <1>1 DEF CatalogInv, PricesKept, PriceKept
  <2>3. Oldest(draft', name) = Oldest(draft, name)
    BY <1>6 DEF Oldest, Named, StoredIn
  <2>4. Keeper(draft, p) = Oldest(draft, name) /\ (p \notin Dups(draft) => Keeper(draft, p) = p)
    BY <1>1, <2>1, KeeperOfName
  <2>5. prices[x].product = Oldest(draft, name) /\ prices[x].unit = draft.prices[x].unit
    BY <1>3, <1>5, <2>1, <2>4
  <2> QED
    BY <1>1, <1>6, <2>2, <2>3, <2>5 DEF PriceKept
<1> QED
  BY <1>1, <1>6, <1>7, <1>8, <1>9, <1>10, MergeStepOK

\* While the migration moves the wishes, its prices stay where they are.
LEMMA PricesStay ==
  ASSUME CatalogInv, merge \in {"forget", "wishes"}, merge' \in {"wishes", "products"},
         draft'.products = draft.products, draft'.prices = draft.prices,
         UNCHANGED <<tables, doubled>>
  PROVE  PricesKept' /\ InStep' /\ NamesApart'
<1>1. \A name : Oldest(draft', name) = Oldest(draft, name)
  BY DEF Oldest, Named, StoredIn
<1>2. PricesKept'
  BY <1>1 DEF CatalogInv, PricesKept, PriceKept
<1> QED
  BY <1>2 DEF CatalogInv, InStep, NamesApart

LEMMA ForgetWishesOK ==
  ASSUME CatalogInv, ForgetWishes
  PROVE  CatalogInv'
<1> DEFINE wishes == {w \in draft.wishes : \/ w[2] \notin Dups(draft)
                                           \/ <<w[1], Keeper(draft, w[2])>> \notin draft.wishes}
<1>1. /\ merge = "forget" /\ merge' = "wishes" /\ draft' = [draft EXCEPT !.wishes = wishes]
      /\ UNCHANGED <<tables, call, calls, late, doubled>>
  BY DEF ForgetWishes, MergeStep
<1>2. draft \in Tables /\ draft.wishes \subseteq Wishers \X ProductIds
  BY TablesAre DEF CatalogInv, CatalogTyped
<1>3. wishes \subseteq Wishers \X ProductIds
  BY <1>2
<1>4. \A w : w \in wishes <=> w \in draft.wishes /\ (\/ w[2] \notin Dups(draft)
                                                   \/ <<w[1], Keeper(draft, w[2])>> \notin draft.wishes)
  OBVIOUS
<1> HIDE DEF wishes
<1>5. /\ draft' \in Tables /\ draft'.products = draft.products
      /\ draft'.wishes = wishes /\ draft'.prices = draft.prices
  BY <1>1, <1>2, <1>3, WishesWritten
<1>6. Referring(draft')
  BY <1>4, <1>5 DEF CatalogInv, Referring, StoredIn
<1>7. WishesKept'
  <2> SUFFICES ASSUME NEW w \in tables.wishes \ late PROVE WishKept(w, NameOf(tables, w[2]))'
    BY <1>1 DEF WishesKept
  <2> DEFINE keeper == Keeper(draft, w[2])
  <2>1. w \in draft.wishes /\ w[2] \in StoredIn(tables)
    BY <1>1 DEF CatalogInv, WishesKept, Referring
  <2>2. keeper = Oldest(draft, NameOf(tables, w[2])) /\ keeper \notin Dups(draft)
    BY <1>1, <2>1, KeeperOfName
  <2>3. Oldest(draft', NameOf(tables, w[2])) = Oldest(draft, NameOf(tables, w[2]))
    BY <1>5 DEF Oldest, Named, StoredIn
  <2> HIDE DEF keeper
  <2>4. w \in wishes \/ <<w[1], keeper>> \in wishes
    BY <1>4, <2>1, <2>2 DEF keeper
  <2> QED
    BY <1>1, <1>5, <2>2, <2>3, <2>4 DEF WishKept
<1> QED
  BY <1>1, <1>5, <1>6, <1>7, PricesStay, MergeStepOK

LEMMA RepointWishesOK ==
  ASSUME CatalogInv, RepointWishes
  PROVE  CatalogInv'
<1> DEFINE wishes == {Moved(w) : w \in draft.wishes}
<1>1. /\ merge = "wishes" /\ merge' = "products" /\ draft' = [draft EXCEPT !.wishes = wishes]
      /\ UNCHANGED <<tables, call, calls, late, doubled>>
  BY DEF RepointWishes, MergeStep
<1>2. draft \in Tables /\ draft.wishes \subseteq Wishers \X ProductIds
  BY TablesAre DEF CatalogInv, CatalogTyped
<1>3. ASSUME NEW w \in draft.wishes
      PROVE  /\ Moved(w) = <<w[1], Keeper(draft, w[2])>> /\ Keeper(draft, w[2]) \in StoredIn(draft)
             /\ Moved(w) \in Wishers \X ProductIds /\ Moved(w)[2] \in StoredIn(draft)
  <2>1. w[2] \in StoredIn(draft) /\ w \in Wishers \X ProductIds
    BY <1>2 DEF CatalogInv, Referring
  <2>2. Keeper(draft, w[2]) \in StoredIn(draft) /\ (w[2] \notin Dups(draft) => Keeper(draft, w[2]) = w[2])
    BY <2>1, KeeperIs
  <2>3. Moved(w) = <<w[1], Keeper(draft, w[2])>>
    BY <2>1, <2>2 DEF Moved
  <2> QED
    BY <2>1, <2>2, <2>3 DEF StoredIn
<1>4. wishes \subseteq Wishers \X ProductIds /\ \A w \in wishes : w[2] \in StoredIn(draft)
  BY <1>3
<1>5. \A w \in draft.wishes : <<w[1], Keeper(draft, w[2])>> \in wishes
  BY <1>3
<1> HIDE DEF wishes
<1>6. /\ draft' \in Tables /\ draft'.products = draft.products
      /\ draft'.wishes = wishes /\ draft'.prices = draft.prices
  BY <1>1, <1>2, <1>4, WishesWritten
<1>7. Referring(draft')
  BY <1>4, <1>6 DEF CatalogInv, Referring, StoredIn
<1>8. WishesKept'
  <2> SUFFICES ASSUME NEW w \in tables.wishes \ late PROVE WishKept(w, NameOf(tables, w[2]))'
    BY <1>1 DEF WishesKept
  <2> DEFINE keeper == Keeper(draft, w[2])
             name == NameOf(tables, w[2])
  <2>1. w[2] \in StoredIn(tables) /\ WishKept(w, name)
    BY DEF CatalogInv, WishesKept, Referring
  <2>2. /\ keeper = Oldest(draft, name) /\ keeper \in StoredIn(tables)
        /\ Keeper(draft, keeper) = keeper
    <3>1. /\ keeper = Oldest(draft, name) /\ keeper \in StoredIn(draft)
          /\ keeper \notin Dups(draft)
      BY <1>1, <2>1, KeeperOfName
    <3>2. Keeper(draft, keeper) = keeper
      BY <3>1, KeeperIs
    <3> QED
      BY <1>1, <3>1, <3>2, SameProducts
  <2>3. Oldest(draft', name) = Oldest(draft, name)
    BY <1>6 DEF Oldest, Named, StoredIn
  <2> HIDE DEF name
  <2>4. ASSUME name \notin doubled PROVE <<w[1], keeper>> \in wishes
    <3>1. CASE w \in draft.wishes
      BY <1>5, <3>1
    <3>2. CASE <<w[1], keeper>> \in draft.wishes
      BY <1>5, <2>2, <3>2
    <3> QED
      BY <1>1, <2>1, <2>2, <2>4, <3>1, <3>2 DEF WishKept
  <2> QED
    BY <1>1, <1>6, <2>2, <2>3, <2>4 DEF WishKept, name
<1> QED
  BY <1>1, <1>6, <1>7, <1>8, PricesStay, MergeStepOK

LEMMA FailMergeOK ==
  ASSUME CatalogInv, FailMerge
  PROVE  CatalogInv'
<1>1. /\ merge = "wishes" /\ merge' = "failed" /\ draft' = Empty
      /\ UNCHANGED <<tables, call, calls, late, doubled>>
  BY DEF FailMerge, MergeStep
<1>2. InStep' /\ PricesKept' /\ WishesKept' /\ NamesApart'
  BY <1>1 DEF InStep, PricesKept, PriceKept, WishesKept, WishKept, NamesApart
<1> QED
  BY <1>1, <1>2, EmptyIs, MergeStepOK

LEMMA DeleteProductsOK ==
  ASSUME CatalogInv, DeleteProducts
  PROVE  CatalogInv'
<1> DEFINE products == [p \in ProductIds |-> IF p \in Dups(draft) THEN NoRow ELSE draft.products[p]]
           wishes == {w \in draft.wishes : w[2] \notin Dups(draft)}
           prices == [x \in PriceIds |-> IF draft.prices[x].product \in Dups(draft)
                                         THEN NoPriceRow ELSE draft.prices[x]]
<1>1. /\ merge = "products" /\ merge' = "commit"
      /\ draft' = [products |-> products, wishes |-> wishes, prices |-> prices]
      /\ UNCHANGED <<tables, call, calls, late, doubled>>
  BY DEF DeleteProducts, MergeStep
<1>2. /\ draft.products \in [ProductIds -> ProductRow \cup {NoRow}]
      /\ draft.wishes \subseteq Wishers \X ProductIds
      /\ draft.prices \in [PriceIds -> PriceRow \cup {NoPriceRow}]
  BY TablesAre DEF CatalogInv, CatalogTyped
<1>3. /\ products \in [ProductIds -> ProductRow \cup {NoRow}]
      /\ wishes \subseteq Wishers \X ProductIds
      /\ prices \in [PriceIds -> PriceRow \cup {NoPriceRow}]
  BY <1>2
<1>4. /\ \A p \in ProductIds : products[p] = IF p \in Dups(draft) THEN NoRow ELSE draft.products[p]
      /\ \A w : w \in wishes <=> w \in draft.wishes /\ w[2] \notin Dups(draft)
      /\ \A x \in PriceIds : prices[x] = IF draft.prices[x].product \in Dups(draft)
                                         THEN NoPriceRow ELSE draft.prices[x]
  OBVIOUS
<1> HIDE DEF products, wishes, prices
<1>5. /\ draft' \in Tables /\ draft'.products = products
      /\ draft'.wishes = wishes /\ draft'.prices = prices
  BY <1>1, <1>3, TablesMade
<1>6. StoredIn(draft') = StoredIn(draft) \ Dups(draft)
  BY <1>4, <1>5 DEF StoredIn
<1>7. \A p \in StoredIn(draft') : NameOf(draft', p) = NameOf(draft, p)
  BY <1>4, <1>5, <1>6 DEF NameOf, StoredIn
<1>8. Referring(draft')
  <2>1. \A w \in draft'.wishes : w[2] \in StoredIn(draft')
    BY <1>4, <1>5, <1>6 DEF CatalogInv, Referring
  <2>2. \A x \in PriceIds : draft'.prices[x] # NoPriceRow =>
                              draft'.prices[x].product \in StoredIn(draft')
    BY <1>4, <1>5, <1>6 DEF CatalogInv, Referring
  <2> QED
    BY <2>1, <2>2 DEF Referring
<1>9. InStep'
  BY <1>1, <1>4, <1>5, SameProducts DEF InStep
<1>10. NamesApart'
  <2> SUFFICES ASSUME NEW name, NEW p \in Named(draft', name), NEW q \in Named(draft', name)
               PROVE  p = q
    BY <1>1 DEF NamesApart, OneOf
  <2>1. \A r \in Named(draft', name) : r \in StoredIn(draft') /\ NameOf(draft', r) = name
    BY DEF Named, NameOf
  <2>2. \A r \in Named(draft', name) :
          r \in StoredIn(draft) /\ r \notin Dups(draft) /\ NameOf(draft, r) = name
    BY <1>6, <1>7, <2>1
  <2>3. \A r \in Named(draft', name) : Oldest(draft, name) = r
    BY <2>2, KeeperIs
  <2> QED
    BY <2>3
<1>11. PricesKept'
  <2> SUFFICES ASSUME NEW x \in PriceIds, tables.prices[x] # NoPriceRow
               PROVE  PriceKept(tables.prices[x], draft.prices[x],
                                NameOf(tables, tables.prices[x].product))'
    BY <1>1 DEF PricesKept
  <2> DEFINE p == tables.prices[x].product
             name == NameOf(tables, p)
             is == draft.prices[x]
  <2>1. p \in StoredIn(tables) /\ PriceKept(tables.prices[x], is, name)
    BY DEF CatalogInv, PricesKept, Referring
  <2>2. ASSUME name \notin doubled
        PROVE  /\ prices[x] = is /\ is # NoPriceRow /\ NameOf(draft', is.product) = name
               /\ is.unit = tables.products[p].unit
    <3>1. is.product = Oldest(draft, name) /\ is.unit = tables.products[p].unit
      BY <1>1, <2>1, <2>2 DEF PriceKept
    <3>2. /\ is.product \in StoredIn(draft) /\ is.product \notin Dups(draft)
          /\ NameOf(draft, is.product) = name
      BY <1>1, <2>1, <3>1, KeeperOfName
    <3>3. is # NoPriceRow
      BY <3>2, NoRowIsNone, CatalogAssumption DEF StoredIn
    <3> QED
      BY <1>4, <1>6, <1>7, <3>1, <3>2, <3>3
  <2> HIDE DEF name, is
  <2> QED
    BY <1>1, <1>5, <2>2 DEF PriceKept, name, is
<1>12. WishesKept'
  <2> SUFFICES ASSUME NEW w \in tables.wishes \ late PROVE WishKept(w, NameOf(tables, w[2]))'
    BY <1>1 DEF WishesKept
  <2> DEFINE name == NameOf(tables, w[2])
             oldest == Oldest(draft, name)
  <2>1. w[2] \in StoredIn(tables) /\ WishKept(w, name)
    BY DEF CatalogInv, WishesKept, Referring
  <2>2. oldest \in StoredIn(draft) /\ oldest \notin Dups(draft) /\ NameOf(draft, oldest) = name
    BY <1>1, <2>1, KeeperOfName
  <2>3. NameOf(draft', oldest) = name /\ oldest \in ProductIds
    BY <1>6, <1>7, <2>2 DEF StoredIn
  <2>4. name \notin doubled => <<w[1], oldest>> \in wishes
    BY <1>1, <1>4, <2>1, <2>2 DEF WishKept
  <2> HIDE DEF oldest, name
  <2> QED
    BY <1>1, <1>5, <2>3, <2>4 DEF WishKept, name
<1> QED
  BY <1>1, <1>5, <1>8, <1>9, <1>10, <1>11, <1>12, MergeStepOK

LEMMA CommitMergeOK ==
  ASSUME CatalogInv, CommitMerge
  PROVE  CatalogInv'
<1>1. /\ merge = "commit" /\ merge' = "merged" /\ tables' = draft /\ draft' = Empty
      /\ UNCHANGED <<call, calls, late, doubled>>
  BY DEF CommitMerge
<1>2. \A name : Named(draft, name) \subseteq Named(tables, name)
  BY <1>1, DraftFollows DEF Merging, Named, NameOf
<1>3. CatalogTyped'
  BY <1>1, EmptyIs DEF CatalogInv, CatalogTyped
<1>4. CallsTyped'
  BY <1>1 DEF CatalogInv, CallsTyped, CallOK
<1>5. CreationsSeen'
  BY <1>1, <1>2 DEF CatalogInv, CreationsSeen
<1>6. Referring(tables)' /\ Referring(draft)'
  BY <1>1, EmptyIs DEF CatalogInv
<1>7. InStep' /\ PricesKept' /\ WishesKept'
  BY <1>1 DEF InStep, PricesKept, PriceKept, WishesKept, WishKept
<1>8. NamesApart'
  BY <1>1 DEF CatalogInv, NamesApart
<1> QED
  BY <1>3, <1>4, <1>5, <1>6, <1>7, <1>8 DEF CatalogInv

LEMMA CatalogStep == CatalogInv /\ [CatalogNext]_catalogVars => CatalogInv'
<1> SUFFICES ASSUME CatalogInv, [CatalogNext]_catalogVars PROVE CatalogInv'
  OBVIOUS
<1>1. ASSUME NEW c \in Callers, NEW name \in Names, FindExisting(c, name) PROVE CatalogInv'
  BY <1>1, FindExistingOK
<1>2. ASSUME NEW c \in Callers, NEW name \in Names, NEW p \in ProductIds, LoadProduct(c, p, name)
      PROVE  CatalogInv'
  BY <1>2, LoadProductOK
<1>3. ASSUME NEW c \in Callers,
             InsertProduct(c) \/ ReloadProduct(c) \/ WriteProduct(c) \/ ReinsertProduct(c)
      PROVE  CatalogInv'
  BY <1>3, InsertProductOK, ReloadProductOK, WriteProductOK, ReinsertProductOK
<1>4. ASSUME NEW c \in Callers, NEW p \in ProductIds, NEW u \in Wishers, FindWished(c, u, p)
      PROVE  CatalogInv'
  BY <1>4, FindWishedOK
<1>5. ASSUME NEW c \in Callers, NEW p \in ProductIds, NEW x \in PriceIds, FindPriced(c, x, p)
      PROVE  CatalogInv'
  BY <1>5, FindPricedOK
<1>6. ASSUME NEW c \in Callers, AddWish(c) \/ InsertPrice(c) PROVE CatalogInv'
  BY <1>6, AddWishOK, InsertPriceOK
<1>7. ASSUME NEW p \in ProductIds, RemoveProduct(p) PROVE CatalogInv'
  BY <1>7, RemoveProductOK
<1>8. ASSUME NEW w \in Wishers \X ProductIds, RemoveWish(w) PROVE CatalogInv'
  BY <1>8, RemoveWishOK
<1>9. CASE StartMerge \/ BackfillUnits \/ RepointPrices \/ ForgetWishes \/ RepointWishes
  BY <1>9, StartMergeOK, BackfillUnitsOK, RepointPricesOK, ForgetWishesOK, RepointWishesOK
<1>10. CASE FailMerge \/ DeleteProducts \/ CommitMerge
  BY <1>10, FailMergeOK, DeleteProductsOK, CommitMergeOK
<1>11. CASE UNCHANGED catalogVars
  <2>1. UNCHANGED <<tables, draft, merge, call, calls, late, doubled>>
    BY <1>11 DEF catalogVars
  <2>2. CallsTyped' /\ CreationsSeen' /\ calls' \in 0..MaxCalls
    BY <2>1 DEF CatalogInv, CatalogTyped, CallsTyped, CallOK, CreationsSeen
  <2> QED
    BY <2>1, <2>2, CallStep
<1> QED
  BY <1>1, <1>2, <1>3, <1>4, <1>5, <1>6, <1>7, <1>8, <1>9, <1>10, <1>11 DEF CatalogNext

LEMMA CatalogInvMeans == CatalogInv => CatalogTypeOK /\ ProductsWhole
<1> SUFFICES ASSUME CatalogInv PROVE CatalogTypeOK /\ ProductsWhole
  OBVIOUS
<1>1. CatalogTypeOK
  BY DEF CatalogInv, CatalogTyped, CallsTyped, CatalogTypeOK, CallType, ProductRow
<1>2. MergeKeepsAll
  <2>1. ASSUME merge = "commit", NEW w \in tables.wishes \ late, NameOf(tables, w[2]) \notin doubled
        PROVE  \E p \in ProductIds :
                 <<w[1], p>> \in draft.wishes /\ NameOf(draft, p) = NameOf(tables, w[2])
    BY <2>1 DEF CatalogInv, WishesKept, WishKept
  <2>2. ASSUME merge = "commit", NEW x \in PriceIds, tables.prices[x] # NoPriceRow,
               NameOf(tables, tables.prices[x].product) \notin doubled
        PROVE  /\ draft.prices[x].unit = tables.products[tables.prices[x].product].unit
               /\ NameOf(draft, draft.prices[x].product)
                    = NameOf(tables, tables.prices[x].product)
    BY <2>2 DEF CatalogInv, PricesKept, PriceKept
  <2> QED
    BY <2>1, <2>2 DEF MergeKeepsAll
<1>3. OneProductPerName
  <2> SUFFICES ASSUME merge = "merged", NEW name \in Names \ doubled
               PROVE  Cardinality(Named(tables, name)) <= 1
    BY DEF OneProductPerName
  <2>1. OneOf(tables, name)
    BY DEF CatalogInv, NamesApart
  <2>2. CASE Named(tables, name) = {}
    BY <2>2, FS_EmptySet
  <2>3. CASE Named(tables, name) # {}
    <3>1. PICK p : Named(tables, name) = {p}
      BY <2>1, <2>3 DEF OneOf
    <3>2. Cardinality({p}) = 1
      BY FS_Singleton
    <3> QED
      BY <3>1, <3>2
  <2> QED
    BY <2>2, <2>3
<1> QED
  BY <1>1, <1>2, <1>3 DEF ProductsWhole

\* Whatever products, wishes and prices were stored, and however requests and the merge
\* of the products of one name cut in on each other: what the migration commits keeps the
\* wishes and prices under the name they were for, and afterwards a name is on two
\* products only if creations of it crossed or an update gave it away (ProductService,
\* WishlistService and the migration MovePriceUnitType).
THEOREM ProductsAreWhole == CatalogSpec => [](CatalogTypeOK /\ ProductsWhole)
<1>1. CatalogInv /\ [CatalogNext]_catalogVars => CatalogInv'
  BY CatalogStep
<1> QED
  BY <1>1, CatalogStart, CatalogInvMeans, PTL DEF CatalogSpec

-----------------------------------------------------------------------------
(* The search by name.  Respelling a keyword replaces the spelling of a    *)
(* chain wherever it stands, so that it stands once is enough for both     *)
(* spellings to find the same signs; and what is found is sorted, distinct *)
(* and near.                                                               *)

\* The function that SplitJoin defines: what becomes of s from each place on.
Respells(f, s, part, by) ==
  f = [i \in 1..Len(s) + 1 |->
        IF i > Len(s) THEN <<>>
        ELSE IF StandsAt(s, i, part) THEN by \o f[i + Len(part)]
        ELSE <<s[i]>> \o f[i + 1]]

LEMMA SplitJoinRespells ==
  ASSUME NEW s, NEW part, NEW by
  PROVE  SplitJoin(s, part, by) = (CHOOSE f : Respells(f, s, part, by))[1]
BY DEF SplitJoin, Respells

Fragments ==
  {"gs", "jieseu", "cu", "ssiyu", "sebeunillebeun", "koriasebeun", "emart", "imateu",
   "ministop", "miniseutop", "homeplus", "hompeulleoseu", "lott", "lottemateu",
   "deopeuresi", "thefresh"}

LEMMA SpellingsAre ==
  ASSUME NEW S \in Spellings, NEW x \in S
  PROVE  x \in Seq(Fragments) /\ Len(x) \in Nat \ {0}
<1>1. \/ x = <<"lott", "emart">>
      \/ x = <<"gs">>
      \/ x = <<"jieseu">>
      \/ x = <<"cu">>
      \/ x = <<"ssiyu">>
      \/ x = <<"sebeunillebeun">>
      \/ x = <<"koriasebeun">>
      \/ x = <<"emart">>
      \/ x = <<"imateu">>
      \/ x = <<"ministop">>
      \/ x = <<"miniseutop">>
      \/ x = <<"homeplus">>
      \/ x = <<"hompeulleoseu">>
      \/ x = <<"lottemateu">>
      \/ x = <<"deopeuresi">>
      \/ x = <<"thefresh">>
  BY DEF Spellings
<1>2. ASSUME NEW v \in Fragments PROVE <<v>> \in Seq(Fragments)
  <2> HIDE DEF Fragments
  <2> QED
    OBVIOUS
<1>3. ASSUME NEW v PROVE Len(<<v>>) \in Nat \ {0}
  OBVIOUS
<1>4. <<"lott", "emart">> \in Seq(Fragments) /\ Len(<<"lott", "emart">>) \in Nat \ {0}
  <2>1. "lott" \in Fragments /\ "emart" \in Fragments
    BY DEF Fragments
  <2>2. <<"lott", "emart">> \in Seq(Fragments)
    BY <2>1
  <2>3. Len(<<"lott", "emart">>) \in Nat \ {0}
    OBVIOUS
  <2> QED
    BY <2>2, <2>3
<1>5. x = <<"lott", "emart">> \/ \E v \in Fragments : x = <<v>>
  BY <1>1 DEF Fragments
<1> QED
  BY <1>2, <1>3, <1>4, <1>5

LEMMA AliasesAre ==
  \A x, y : <<x, y>> \in BRAND_ALIASES <=> x # y /\ \E S \in Spellings : x \in S /\ y \in S
BY DEF BRAND_ALIASES

\* No two functions are so defined: that from the end on they agree.
LEMMA RespellsOnce ==
  ASSUME NEW T, NEW s \in Seq(T), NEW part \in Seq(T), part # <<>>, NEW by, NEW f, NEW g,
         Respells(f, s, part, by), Respells(g, s, part, by)
  PROVE  f = g
<1> DEFINE n == Len(s)
           C == {k \in 0..n : f[n + 1 - k] # g[n + 1 - k]}
<1>1. n \in Nat /\ Len(part) \in Nat \ {0}
  BY EmptySeq, LenProperties
<1>2. ASSUME NEW h, Respells(h, s, part, by), NEW i \in 1..n + 1
      PROVE  /\ i > n => h[i] = <<>>
             /\ ~ (i > n) /\ StandsAt(s, i, part) => h[i] = by \o h[i + Len(part)]
             /\ ~ (i > n) /\ ~ StandsAt(s, i, part) => h[i] = <<s[i]>> \o h[i + 1]
  <2>1. h[i] = IF i > n THEN <<>>
               ELSE IF StandsAt(s, i, part) THEN by \o h[i + Len(part)]
               ELSE <<s[i]>> \o h[i + 1]
    BY <1>2, Zenon DEF Respells
  <2> QED
    BY <2>1, Zenon
<1>3. \A i : StandsAt(s, i, part) => i + Len(part) - 1 <= n
  BY DEF StandsAt
<1> HIDE DEF n
<1>4. C = {}
  <2> SUFFICES ASSUME C # {} PROVE FALSE
    OBVIOUS
  <2>1. C \in SUBSET Nat
    BY <1>1
  <2>2. PICK m \in C : \A k \in C : m <= k
    BY <2>1, LeastOf
  <2> DEFINE i == n + 1 - m
  <2>3. m \in 0..n /\ f[i] # g[i] /\ i \in 1..n + 1
    BY <1>1, <2>2
  <2>4. ASSUME NEW j \in 1..n + 1, j > i PROVE f[j] = g[j]
    <3>1. n + 1 - j \in 0..n /\ n + 1 - j < m
      BY <1>1, <2>3, <2>4
    <3>2. n + 1 - j \notin C
      <4> HIDE DEF C
      <4> QED
        BY <2>2, <2>3, <3>1
    <3>3. n + 1 - (n + 1 - j) = j
      BY <1>1
    <3> QED
      BY <3>1, <3>2, <3>3
  <2> HIDE DEF C, i
  <2>5. i \in Nat /\ (i + 1 > i) /\ i + Len(part) > i
    BY <1>1, <2>3
  <2>6. CASE i > n
    BY <1>2, <2>3, <2>6
  <2>7. CASE i <= n /\ StandsAt(s, i, part)
    <3>1. i + Len(part) \in 1..n + 1
      BY <1>1, <1>3, <2>3, <2>5, <2>7
    <3>2. f[i + Len(part)] = g[i + Len(part)]
      BY <2>4, <2>5, <3>1
    <3>3. ~ (i > n)
      BY <1>1, <2>5, <2>7
    <3>4. f[i] = by \o f[i + Len(part)] /\ g[i] = by \o g[i + Len(part)]
      BY <1>2, <2>3, <2>7, <3>3
    <3> QED
      BY <2>3, <3>2, <3>4
  <2>8. CASE i <= n /\ ~ StandsAt(s, i, part)
    <3>1. i + 1 \in 1..n + 1
      BY <1>1, <2>3, <2>8
    <3>2. f[i + 1] = g[i + 1]
      BY <2>4, <2>5, <3>1
    <3>3. ~ (i > n)
      BY <1>1, <2>5, <2>8
    <3>4. f[i] = <<s[i]>> \o f[i + 1] /\ g[i] = <<s[i]>> \o g[i + 1]
      BY <1>2, <2>3, <2>8, <3>3
    <3> QED
      BY <2>3, <3>2, <3>4
  <2> QED
    BY <1>1, <2>5, <2>6, <2>7, <2>8
<1>5. \A i \in 1..n + 1 : f[i] = g[i]
  <2> SUFFICES ASSUME NEW i \in 1..n + 1 PROVE f[i] = g[i]
    OBVIOUS
  <2>1. n + 1 - i \in 0..n /\ n + 1 - (n + 1 - i) = i
    BY <1>1
  <2> QED
    BY <1>4, <2>1
<1>6. f = [i \in 1..n + 1 |-> f[i]] /\ g = [i \in 1..n + 1 |-> g[i]]
  <2> HIDE DEF C
  <2> QED
    BY DEF Respells, n
<1> QED
  BY <1>5, <1>6

LEMMA SplitJoinIs ==
  ASSUME NEW T, NEW s \in Seq(T), NEW part \in Seq(T), part # <<>>, NEW by, NEW f,
         Respells(f, s, part, by)
  PROVE  SplitJoin(s, part, by) = f[1]
<1>1. Respells(CHOOSE g : Respells(g, s, part, by), s, part, by)
  OBVIOUS
<1>2. (CHOOSE g : Respells(g, s, part, by)) = f
  BY <1>1, RespellsOnce
<1> QED
  BY <1>2, SplitJoinRespells

\* The two ways to join three sequences.
FirstTwo(a, b, c) == (a \o b) \o c

LastTwo(a, b, c) == a \o (b \o c)

LEMMA Together ==
  ASSUME NEW T, NEW a, NEW b, NEW c, a \in Seq(T), b \in Seq(T), c \in Seq(T)
  PROVE  FirstTwo(a, b, c) = LastTwo(a, b, c)
BY ConcatAssociative DEF FirstTwo, LastTwo

\* A part that stands nowhere is not replaced.
LEMMA NoneRespelled ==
  ASSUME NEW T, NEW s \in Seq(T), NEW part \in Seq(T), part # <<>>, NEW by,
         \A i \in 1..Len(s) : ~ StandsAt(s, i, part)
  PROVE  SplitJoin(s, part, by) = s
<1> DEFINE n == Len(s)
           f == [i \in 1..n + 1 |-> SubSeq(s, i, n)]
<1>1. n \in Nat
  BY LenProperties
<1>2. ASSUME NEW i \in 1..n + 1 PROVE f[i] = IF i > n THEN <<>> ELSE <<s[i]>> \o f[i + 1]
  <2>1. CASE i > n
    BY <1>1, <2>1, SubSeqEmpty
  <2>2. CASE i <= n
    <3>1. SubSeq(s, i, n) = <<s[i]>> \o SubSeq(s, i + 1, n)
      BY <1>1, <2>2, SubSeqRecursiveFirst
    <3>2. i + 1 \in 1..n + 1
      BY <1>1, <2>2
    <3> QED
      BY <1>1, <2>2, <3>1, <3>2
  <2> QED
    BY <1>1, <2>1, <2>2
<1>3. f[1] = s
  BY <1>1, SubSeqFull
<1>4. f = [i \in 1..n + 1 |-> f[i]]
  OBVIOUS
<1> HIDE DEF f
<1>5. Respells(f, s, part, by)
  <2>1. ASSUME NEW i \in 1..n + 1
        PROVE  f[i] = IF i > n THEN <<>>
                      ELSE IF StandsAt(s, i, part) THEN by \o f[i + Len(part)] ELSE <<s[i]>> \o f[i + 1]
    BY <1>1, <1>2
  <2> QED
    BY <1>4, <2>1 DEF Respells
<1> QED
  BY <1>3, <1>5, SplitJoinIs

\* One that stands in one place is.
LEMMA OneRespelled ==
  ASSUME NEW T, NEW s \in Seq(T), NEW part \in Seq(T), part # <<>>, NEW by \in Seq(T),
         NEW p \in 1..Len(s), \A i \in 1..Len(s) : StandsAt(s, i, part) <=> i = p
  PROVE  SplitJoin(s, part, by) = SubSeq(s, 1, p - 1) \o by \o SubSeq(s, p + Len(part), Len(s))
<1> DEFINE n == Len(s)
           width == Len(part)
           tail == by \o SubSeq(s, p + width, n)
           f == [i \in 1..n + 1 |-> IF i > p THEN SubSeq(s, i, n) ELSE SubSeq(s, i, p - 1) \o tail]
<1>1. n \in Nat /\ width \in Nat \ {0} /\ p \in 1..n /\ p + width - 1 <= n
  BY EmptySeq, LenProperties DEF StandsAt
<1>2. \A i \in 1..n : s[i] \in T
  BY ElementOfSeq
<1>3. ASSUME NEW i \in Int, NEW j \in Int, 1 <= i, j <= n PROVE SubSeq(s, i, j) \in Seq(T)
  <2>1. \A k \in i..j : s[k] \in T
    BY <1>2, <1>3
  <2> QED
    BY <2>1, SubSeqProperties
<1>4. SubSeq(s, p + width, n) \in Seq(T) /\ tail \in Seq(T) /\ SubSeq(s, 1, p - 1) \in Seq(T)
  <2>1. SubSeq(s, p + width, n) \in Seq(T) /\ SubSeq(s, 1, p - 1) \in Seq(T)
    BY <1>1, <1>3
  <2> QED
    BY <2>1, ConcatProperties
<1> HIDE DEF tail
<1>5. ASSUME NEW i \in 1..n + 1
      PROVE  f[i] = IF i > n THEN <<>> ELSE IF i = p THEN by \o f[i + width] ELSE <<s[i]>> \o f[i + 1]
  <2>1. CASE i > n
    BY <1>1, <2>1, SubSeqEmpty
  <2>2. CASE i <= n /\ i > p
    <3>1. SubSeq(s, i, n) = <<s[i]>> \o SubSeq(s, i + 1, n)
      BY <1>1, <2>2, SubSeqRecursiveFirst
    <3>2. i + 1 \in 1..n + 1 /\ i + 1 > p /\ i # p /\ ~ (i > n)
      BY <1>1, <2>2
    <3> QED
      BY <2>2, <3>1, <3>2
  <2>3. CASE i = p
    <3>1. SubSeq(s, i, p - 1) = <<>>
      BY <1>1, <2>3, SubSeqEmpty
    <3>2. i + width \in 1..n + 1 /\ i + width > p /\ ~ (i > n) /\ ~ (i > p)
      BY <1>1, <2>3
    <3>3. f[i + width] = SubSeq(s, p + width, n) /\ f[i] = <<>> \o tail
      BY <2>3, <3>1, <3>2
    <3>4. f[i] = tail
      BY <1>4, <3>3, ConcatEmptySeq
    <3> QED
      BY <2>3, <3>2, <3>3, <3>4 DEF tail
  <2>4. CASE i < p
    <3> DEFINE rest == SubSeq(s, i + 1, p - 1)
    <3>1. i \in 1..n /\ p - 1 \in i..n /\ i + 1 \in 1..n + 1 /\ ~ (i > n) /\ ~ (i > p) /\ ~ (i + 1 > p)
      BY <1>1, <2>4
    <3>2. SubSeq(s, i, p - 1) = <<s[i]>> \o rest
      BY <3>1, SubSeqRecursiveFirst
    <3>3. rest \in Seq(T)
      BY <1>1, <1>3, <2>4
    <3>4. <<s[i]>> \in Seq(T)
      <4>1. s[i] \in T
        BY <1>2, <3>1
      <4> QED
        BY <4>1
    <3> HIDE DEF rest
    <3>5. (<<s[i]>> \o rest) \o tail = <<s[i]>> \o (rest \o tail)
      <4> DEFINE word == <<s[i]>>
      <4>1. word \in Seq(T) /\ rest \in Seq(T) /\ tail \in Seq(T)
        BY <1>4, <3>3, <3>4
      <4> HIDE DEF word, f, n, width
      <4>2. FirstTwo(word, rest, tail) = LastTwo(word, rest, tail)
        BY <4>1, Together
      <4> QED
        BY <4>2 DEF word, FirstTwo, LastTwo
    <3>6. f[i] = (<<s[i]>> \o rest) \o tail /\ f[i + 1] = rest \o tail
      BY <3>1, <3>2 DEF rest
    <3> QED
      BY <2>4, <3>1, <3>5, <3>6
  <2> QED
    BY <1>1, <2>1, <2>2, <2>3, <2>4
<1>6. f[1] = SubSeq(s, 1, p - 1) \o tail
  BY <1>1
<1>7. SubSeq(s, 1, p - 1) \o tail = (SubSeq(s, 1, p - 1) \o by) \o SubSeq(s, p + width, n)
  <2> DEFINE before == SubSeq(s, 1, p - 1)
             after == SubSeq(s, p + width, n)
  <2>1. before \in Seq(T) /\ after \in Seq(T)
    BY <1>4
  <2> HIDE DEF before, after, f, n, width
  <2>2. FirstTwo(before, by, after) = LastTwo(before, by, after)
    BY <2>1, Together
  <2> QED
    BY <2>2 DEF before, after, tail, FirstTwo, LastTwo
<1>8. f = [i \in 1..n + 1 |-> f[i]]
  OBVIOUS
<1> HIDE DEF f
<1>9. Respells(f, s, part, by)
  <2>1. ASSUME NEW i \in 1..n + 1
        PROVE  f[i] = IF i > n THEN <<>>
                      ELSE IF StandsAt(s, i, part) THEN by \o f[i + width] ELSE <<s[i]>> \o f[i + 1]
    BY <1>1, <1>5
  <2> QED
    BY <1>8, <2>1 DEF Respells
<1> QED
  BY <1>6, <1>7, <1>9, SplitJoinIs

Text == STRING \cup Fragments

LEMMA TextsAre ==
  /\ \A s \in Signs \cup Keywords \cup {<<>>} : s \in Seq(Text)
  /\ \A S \in Spellings : \A x \in S : x \in Seq(Text) /\ x # <<>>
<1>1. ASSUME NEW s, s \in Seq(STRING) PROVE s \in Seq(Text)
  BY <1>1, SeqMonotonic DEF Text
<1>2. ASSUME NEW s, s \in Seq(Fragments) PROVE s \in Seq(Text)
  BY <1>2, SeqMonotonic DEF Text
<1>3. <<>> \in Seq(Text)
  BY EmptySeq
<1>4. ASSUME NEW S \in Spellings, NEW x \in S PROVE x \in Seq(Text) /\ x # <<>>
  <2>1. x \in Seq(Fragments) /\ Len(x) \in Nat \ {0}
    BY SpellingsAre
  <2>2. x # <<>>
    BY <2>1, EmptySeq
  <2> QED
    BY <1>2, <2>1, <2>2
<1>5. \A s \in Signs \cup Keywords : s \in Seq(Text)
  BY <1>1, SearchAssumption
<1> QED
  BY <1>3, <1>4, <1>5

\* A keyword with x respelled as y at place i.
Respelled(keyword, i, x, y) ==
  SubSeq(keyword, 1, i - 1) \o y \o SubSeq(keyword, i + Len(x), Len(keyword))

LEMMA RespelledAlike ==
  ASSUME NEW T, NEW s \in Seq(T), NEW x \in Seq(T), x # <<>>, NEW i \in 1..Len(s), StandsAt(s, i, x)
  PROVE  Respelled(s, i, x, x) = s
<1> DEFINE n == Len(s)
           k == i + Len(x) - 1
<1>1. n \in Nat /\ Len(x) \in Nat \ {0} /\ i \in 1..n /\ k \in i..n /\ SubSeq(s, i, k) = x
  BY EmptySeq, LenProperties DEF StandsAt
<1>2. SubSeq(s, 1, i - 1) \o SubSeq(s, (i - 1) + 1, k) = SubSeq(s, 1, k)
  <2>1. 1 \in 1..Len(s) + 1 /\ i - 1 \in 0..Len(s) /\ i - 1 \in 1 - 1..Len(s) /\ k \in i - 1..Len(s)
    BY <1>1
  <2> HIDE DEF k, n
  <2> QED
    BY <2>1, ConcatAdjacentSubSeq
<1>3. SubSeq(s, 1, k) \o SubSeq(s, k + 1, n) = SubSeq(s, 1, n)
  <2>1. 1 \in 1..Len(s) + 1 /\ k \in 1 - 1..Len(s) /\ n \in k..Len(s)
    BY <1>1
  <2> HIDE DEF k, n
  <2> QED
    BY <2>1, ConcatAdjacentSubSeq
<1>4. (i - 1) + 1 = i /\ k + 1 = i + Len(x)
  BY <1>1
<1>5. SubSeq(s, 1, i - 1) \o x = SubSeq(s, 1, k)
  BY <1>1, <1>2, <1>4
<1>6. SubSeq(s, 1, k) \o SubSeq(s, i + Len(x), n) = SubSeq(s, 1, n)
  BY <1>3, <1>4
<1>7. SubSeq(s, 1, n) = s
  BY SubSeqFull
<1> HIDE DEF k
<1> QED
  BY <1>5, <1>6, <1>7 DEF Respelled

\* What the aliases make of a keyword that names no chain twice.
LEMMA AliasRespells ==
  ASSUME NEW keyword \in Keywords \cup {<<>>}, NamesNoneTwice(keyword),
         NEW S \in Spellings, NEW x \in S, NEW y \in S
  PROVE  /\ \A i \in 1..Len(keyword) : StandsAt(keyword, i, x) =>
              SplitJoin(keyword, x, y) = Respelled(keyword, i, x, y)
         /\ (\A i \in 1..Len(keyword) : ~ StandsAt(keyword, i, x)) => SplitJoin(keyword, x, y) = keyword
<1>1. keyword \in Seq(Text) /\ x \in Seq(Text) /\ x # <<>> /\ y \in Seq(Text)
  BY TextsAre
<1>2. ASSUME NEW i \in 1..Len(keyword), StandsAt(keyword, i, x)
      PROVE  SplitJoin(keyword, x, y) = Respelled(keyword, i, x, y)
  <2>1. \A j \in 1..Len(keyword) : StandsAt(keyword, j, x) <=> j = i
    BY <1>2 DEF NamesNoneTwice
  <2> QED
    BY <1>1, <2>1, OneRespelled DEF Respelled
<1>3. ASSUME \A i \in 1..Len(keyword) : ~ StandsAt(keyword, i, x)
      PROVE  SplitJoin(keyword, x, y) = keyword
  BY <1>1, <1>3, NoneRespelled
<1> QED
  BY <1>2, <1>3

\* The variants of such a keyword are what it may be spelled.
LEMMA VariantsSpell ==
  ASSUME NEW keyword \in Keywords \cup {<<>>}, NamesNoneTwice(keyword), NEW name \in Signs
  PROVE  (keyword # <<>> => \E v \in expandKeywordAliases(keyword) : Like(name, v)) <=> Spells(name, keyword)
<1> DEFINE n == Len(keyword)
<1>1. /\ \A v : v \in expandKeywordAliases(keyword) <=>
            \/ v = keyword
            \/ \E x, y : <<x, y>> \in BRAND_ALIASES /\ v = SplitJoin(keyword, x, y)
  <2>1. \A a \in BRAND_ALIASES : a = <<a[1], a[2]>>
    BY DEF BRAND_ALIASES
  <2> QED
    BY <2>1 DEF expandKeywordAliases
<1>2. Spells(name, keyword) <=>
        \/ Like(name, keyword)
        \/ \E S \in Spellings : \E x, y \in S : \E i \in 1..n :
             StandsAt(keyword, i, x) /\ Like(name, Respelled(keyword, i, x, y))
  BY DEF Spells, Respelled
<1> HIDE DEF n
<1>3. CASE keyword = <<>>
  <2>1. name \in Seq(Text)
    BY TextsAre
  <2>2. Len(name) \in Nat /\ SubSeq(name, 0 + 1, 0) = <<>>
    BY <2>1, LenProperties, SubSeqEmpty
  <2>3. Like(name, <<>>)
    BY <2>2 DEF Like, SubSeqs
  <2> QED
    BY <1>2, <1>3, <2>3
<1>4. CASE keyword # <<>>
  <2>1. ASSUME NEW v \in expandKeywordAliases(keyword), Like(name, v) PROVE Spells(name, keyword)
    <3>1. CASE v = keyword
      BY <1>2, <2>1, <3>1
    <3>2. CASE v # keyword
      <4>1. PICK x, y : <<x, y>> \in BRAND_ALIASES /\ v = SplitJoin(keyword, x, y)
        BY <1>1, <2>1, <3>2
      <4>2. PICK S \in Spellings : x \in S /\ y \in S
        BY <4>1, AliasesAre
      <4>3. PICK i \in 1..n : StandsAt(keyword, i, x)
        BY <3>2, <4>1, <4>2, AliasRespells DEF n
      <4>4. v = Respelled(keyword, i, x, y)
        BY <4>1, <4>2, <4>3, AliasRespells DEF n
      <4> QED
        BY <1>2, <2>1, <4>2, <4>3, <4>4
    <3> QED
      BY <3>1, <3>2
  <2>2. ASSUME Spells(name, keyword) PROVE \E v \in expandKeywordAliases(keyword) : Like(name, v)
    <3>1. CASE Like(name, keyword)
      BY <1>1, <3>1
    <3>2. CASE ~ Like(name, keyword)
      <4>1. PICK S \in Spellings : \E x, y \in S : \E i \in 1..n :
              StandsAt(keyword, i, x) /\ Like(name, Respelled(keyword, i, x, y))
        BY <1>2, <2>2, <3>2
      <4>2. PICK x \in S, y \in S : \E i \in 1..n :
              StandsAt(keyword, i, x) /\ Like(name, Respelled(keyword, i, x, y))
        BY <4>1
      <4>3. PICK i \in 1..n : StandsAt(keyword, i, x) /\ Like(name, Respelled(keyword, i, x, y))
        BY <4>2
      <4>4. x # y
        <5>1. SUFFICES ASSUME x = y PROVE FALSE
          OBVIOUS
        <5>2. keyword \in Seq(Text) /\ x \in Seq(Text) /\ x # <<>>
          BY TextsAre
        <5>3. Respelled(keyword, i, x, x) = keyword
          BY <4>3, <5>2, RespelledAlike DEF n
        <5> QED
          BY <3>2, <4>3, <5>1, <5>3
      <4>5. <<x, y>> \in BRAND_ALIASES
        BY <4>4, AliasesAre
      <4>6. SplitJoin(keyword, x, y) = Respelled(keyword, i, x, y)
        BY <4>3, AliasRespells DEF n
      <4> QED
        BY <1>1, <4>3, <4>5, <4>6
    <3> QED
      BY <3>1, <3>2
  <2> QED
    BY <1>4, <2>1, <2>2
<1> QED
  BY <1>3, <1>4

\* What rises from each place to the next rises from each to every later one.
LEMMA Rises ==
  ASSUME NEW n \in Nat, NEW d \in [1..n -> Nat], \A i \in 1..n - 1 : d[i] <= d[i + 1]
  PROVE  \A i, j \in 1..n : i < j => d[i] <= d[j]
<1> SUFFICES ASSUME NEW i \in 1..n, NEW e \in 1..n, i < e, ~ (d[i] <= d[e]) PROVE FALSE
  OBVIOUS
<1> DEFINE C == {j \in 1..n : i < j /\ ~ (d[i] <= d[j])}
<1>1. C \in SUBSET Nat /\ C # {}
  <2>1. e \in C /\ \A j \in C : j \in Nat
    OBVIOUS
  <2> HIDE DEF C
  <2> QED
    BY <2>1
<1>2. PICK m \in C : \A k \in C : m <= k
  BY <1>1, LeastOf
<1>3. m \in 1..n /\ i < m /\ ~ (d[i] <= d[m])
  BY <1>2
<1>4. m - 1 \in 1..n - 1 /\ m - 1 \in 1..n /\ (m - 1) + 1 = m /\ ~ (m <= m - 1)
  BY <1>3
<1>5. m - 1 \notin C
  <2> HIDE DEF C
  <2> QED
    BY <1>2, <1>4
<1>6. d[m - 1] <= d[m]
  BY <1>4
<1>7. m - 1 = i \/ d[i] <= d[m - 1]
  BY <1>3, <1>4, <1>5
<1>8. d[i] \in Nat /\ d[m] \in Nat /\ d[m - 1] \in Nat
  BY <1>3, <1>4
<1> QED
  BY <1>3, <1>6, <1>7, <1>8

LEMMA SearchStart == SearchInit => SearchTypeOK /\ SearchWhole
<1> USE SearchAssumption
<1>1. <<>> \in Seq(Branches) /\ Len(<<>>) = 0
  BY EmptySeq
<1>2. 0 <= MaxFound
  OBVIOUS
<1>3. SearchInit => search.pc = "idle" /\ search.keyword = <<>> /\ search.found = <<>>
  BY DEF SearchInit, NoSearch
<1>4. SearchInit => SearchTypeOK
  <2> SUFFICES ASSUME SearchInit PROVE SearchTypeOK
    OBVIOUS
  <2>1. search.found \in Seq(Branches) /\ Len(search.found) <= MaxFound
    BY <1>1, <1>2, <1>3
  <2> QED
    BY <1>3, <2>1 DEF SearchTypeOK, SearchInit
<1> QED
  BY <1>3, <1>4 DEF SearchWhole

LEMMA SearchNearbyOK ==
  ASSUME SearchTypeOK, NEW keyword \in Keywords \cup {<<>>}, SearchNearby(keyword)
  PROVE  SearchTypeOK' /\ SearchWhole'
<1> USE SearchAssumption
<1>1. PICK order \in SetToSeqs(Matching(keyword)) :
        /\ \A i \in 1..Len(order) - 1 : branch[order[i]].distance <= branch[order[i + 1]].distance
        /\ search' = [pc |-> "found", keyword |-> keyword,
                      found |-> SubSeq(order, 1, IF Len(order) < MaxFound THEN Len(order) ELSE MaxFound)]
  BY DEF SearchNearby
<1> DEFINE n == Len(order)
           m == IF n < MaxFound THEN n ELSE MaxFound
           found == SubSeq(order, 1, m)
           near == {b \in Branches : branch[b].distance <= Radius}
           right == {b \in near : Spells(branch[b].name, keyword)}
<1>2. branch' = branch /\ branch \in [Branches -> [name : Signs, distance : Distances]]
  BY DEF SearchNearby, SearchTypeOK
<1>3. /\ \A b : b \in Matching(keyword) <=>
                 /\ b \in near
                 /\ keyword # <<>> => \E v \in expandKeywordAliases(keyword) : Like(branch[b].name, v)
      /\ Matching(keyword) \subseteq Branches
  BY DEF Matching
<1>4. IsFiniteSet(Matching(keyword))
  BY <1>3, FS_Subset
<1>5. /\ order \in Seq(Matching(keyword)) /\ n \in Nat
      /\ \A i, j \in 1..n : i # j => order[i] # order[j]
      /\ \A b \in Matching(keyword) : \E i \in 1..n : order[i] = b
  BY <1>4, Orders
<1>6. \A i \in 1..n : order[i] \in Matching(keyword)
  BY <1>5, ElementOfSeq
<1>7. \A i, j \in 1..n : i < j => branch[order[i]].distance <= branch[order[j]].distance
  <2> DEFINE d == [i \in 1..n |-> branch[order[i]].distance]
  <2>1. \A i \in 1..n : branch[order[i]].distance \in Nat
    BY <1>2, <1>3, <1>6
  <2> HIDE DEF n
  <2>2. d \in [1..n -> Nat]
    BY <2>1
  <2>3. \A i \in 1..n - 1 : d[i] <= d[i + 1]
    <3>1. \A i \in 1..n - 1 : branch[order[i]].distance <= branch[order[i + 1]].distance
      BY <1>1 DEF n
    <3>2. \A i \in 1..n - 1 : i \in 1..n /\ i + 1 \in 1..n
      BY <1>5
    <3> QED
      BY <3>1, <3>2
  <2>4. \A i \in 1..n : d[i] = branch[order[i]].distance
    OBVIOUS
  <2> HIDE DEF d
  <2>5. \A i, j \in 1..n : i < j => d[i] <= d[j]
    BY <1>5, <2>2, <2>3, Rises
  <2> QED
    BY <2>4, <2>5
<1>8. m \in 0..n /\ m <= MaxFound /\ (m < n => m = MaxFound)
  BY <1>5
<1> HIDE DEF m, n
<1>9. \A i \in 1..m : i \in 1..n
  BY <1>5, <1>8
<1>10. /\ found \in Seq(Branches) /\ Len(found) = m /\ DOMAIN found = 1..m
       /\ \A i \in 1..m : found[i] = order[i]
  <2>1. \A i \in 1..m : order[i] \in Branches
    BY <1>3, <1>6, <1>9
  <2>2. 1 \in Int /\ m \in Int /\ m >= 0
    BY <1>5, <1>8
  <2>3. /\ found \in Seq(Branches) /\ Len(found) = (IF 1 <= m THEN m - 1 + 1 ELSE 0)
        /\ \A i \in 1..m - 1 + 1 : found[i] = order[1 + i - 1]
    BY <2>1, <2>2, SubSeqProperties
  <2> HIDE DEF found
  <2>4. Len(found) = m /\ \A i \in 1..m : found[i] = order[i]
    BY <2>2, <2>3
  <2> QED
    BY <2>3, <2>4, LenProperties
<1>11. search' = [pc |-> "found", keyword |-> keyword, found |-> found]
  BY <1>1 DEF m, n
<1> HIDE DEF found
<1>12. search'.pc = "found" /\ search'.keyword = keyword /\ search'.found = found
  BY <1>11
<1>13. SearchTypeOK'
  BY <1>2, <1>8, <1>10, <1>12 DEF SearchTypeOK
<1>14. /\ \A b \in Range(found) : \E i \in 1..m : b = order[i]
       /\ \A i \in 1..m : order[i] \in Range(found)
  BY <1>10 DEF Range
<1>15. Range(found) \subseteq near
  BY <1>3, <1>6, <1>9, <1>14
<1>16. ASSUME NEW i \in DOMAIN found, NEW j \in DOMAIN found, i < j
       PROVE  found[i] # found[j] /\ branch[found[i]].distance <= branch[found[j]].distance
  <2>1. i \in 1..n /\ j \in 1..n /\ i # j /\ found[i] = order[i] /\ found[j] = order[j]
    BY <1>5, <1>9, <1>10, <1>16
  <2> QED
    BY <1>5, <1>7, <1>16, <2>1
<1>17. ASSUME NamesNoneTwice(keyword) PROVE right = Matching(keyword)
  <2>1. ASSUME NEW b \in near PROVE b \in Matching(keyword) <=> b \in right
    <3>1. branch[b].name \in Signs
      BY <1>2
    <3> QED
      BY <1>3, <1>17, <3>1, VariantsSpell
  <2> QED
    BY <1>3, <2>1
<1>18. ASSUME NEW b \in Matching(keyword) \ Range(found)
       PROVE  /\ Len(found) = MaxFound
              /\ \A f \in Range(found) : branch[f].distance <= branch[b].distance
  <2>1. PICK k \in 1..n : order[k] = b
    BY <1>5
  <2>2. ~ (k \in 1..m)
    BY <1>14, <1>18, <2>1
  <2>3. m < k /\ m < n
    BY <1>5, <1>8, <2>1, <2>2
  <2>4. ASSUME NEW f \in Range(found) PROVE branch[f].distance <= branch[b].distance
    <3>1. PICK i \in 1..m : f = order[i]
      BY <1>14
    <3>2. i \in 1..n /\ i < k
      BY <1>5, <1>8, <1>9, <2>3, <3>1
    <3> QED
      BY <1>7, <2>1, <3>1, <3>2
  <2> QED
    BY <1>8, <1>10, <2>3, <2>4
<1>19. SearchWhole'
  <2> HIDE DEF near, right
  <2>1. NamesNoneTwice(keyword) =>
          /\ Range(found) \subseteq right
          /\ \A b \in right \ Range(found) :
               /\ Len(found) = MaxFound
               /\ \A f \in Range(found) : branch[f].distance <= branch[b].distance
    <3>1. Range(found) \subseteq Matching(keyword)
      BY <1>6, <1>9, <1>14
    <3> QED
      BY <1>17, <1>18, <3>1
  <2> QED
    BY <1>2, <1>12, <1>15, <1>16, <2>1 DEF SearchWhole, near, right
<1> QED
  BY <1>13, <1>19

LEMMA SearchStep == SearchTypeOK /\ SearchWhole /\ [SearchNext]_searchVars => SearchTypeOK' /\ SearchWhole'
<1> USE SearchAssumption
<1> SUFFICES ASSUME SearchTypeOK, SearchWhole, [SearchNext]_searchVars PROVE SearchTypeOK' /\ SearchWhole'
  OBVIOUS
<1>1. ASSUME NEW keyword \in Keywords \cup {<<>>}, FailNearby(keyword)
      PROVE  SearchTypeOK' /\ SearchWhole'
  <2>1. <<>> \in Seq(Branches) /\ Len(<<>>) = 0 /\ 0 <= MaxFound
    BY EmptySeq
  <2>2. search'.pc = "failed" /\ search'.keyword = keyword /\ search'.found = <<>> /\ branch' = branch
    BY <1>1 DEF FailNearby
  <2>3. search'.found \in Seq(Branches) /\ Len(search'.found) <= MaxFound
    BY <2>1, <2>2
  <2> QED
    BY <2>2, <2>3 DEF SearchTypeOK, SearchWhole
<1>2. CASE UNCHANGED searchVars
  <2>1. branch' = branch /\ search' = search
    BY <1>2 DEF searchVars
  <2> QED
    BY <2>1 DEF SearchTypeOK, SearchWhole
<1> QED
  BY <1>1, <1>2, SearchNearbyOK DEF SearchNext

\* Whatever the signs, the distances and the keyword: the stores found are within the
\* radius, the nearest first, none of them twice and no more than a page, and both
\* spellings of a chain that a keyword names once find the right ones
\* (StoreService.searchNearby).
THEOREM SearchIsWhole == SearchSpec => [](SearchTypeOK /\ SearchWhole)
<1>1. SearchInit => SearchTypeOK /\ SearchWhole
  BY SearchStart
<1>2. (SearchTypeOK /\ SearchWhole) /\ [SearchNext]_searchVars => (SearchTypeOK /\ SearchWhole)'
  BY SearchStep
<1> QED
  BY <1>1, <1>2, PTL DEF SearchSpec

-----------------------------------------------------------------------------
(* Reads of prices.  What a statement found of a product stays right until  *)
(* one of its prices changes, and then the product counts as changed.  A    *)
(* list: how many prices come before one tells on which page it stands, and *)
(* only what comes, leaves or changes its amount moves it.                  *)

PricedRow ==
  [goods : Goods, shop : Shops, seller : Sellers, amount : Amounts,
   active : BOOLEAN, week : BOOLEAN, confirms : 0..MaxWrites]

SumsRow == [max : Nat, sum : Nat, count : Nat, shops : Nat]

\* A read of cards, and one of a list.
CardRead ==
  [pc : CardPcs \cup {"failed"}, near : BOOLEAN, page : Nat \ {0}, total : Nat,
   ids : Seq(Prices), rows : UNION {[S -> PricedRow] : S \in SUBSET Prices},
   sums : UNION {[S -> SumsRow] : S \in SUBSET Goods},
   lows : UNION {[S -> Nat] : S \in SUBSET Goods},
   votes : UNION {[S -> Nat] : S \in SUBSET Prices}]

ListPcs == {"ids", "rows", "total", "listed"}

ListRead ==
  [pc : ListPcs, list : Lists, arg : {0} \cup Sellers \cup Goods \cup Shops, page : Nat \ {0},
   ids : Seq(Prices), shown : Seq(Prices), stayed : SUBSET Prices, tied : SUBSET Prices]

BoardTyped ==
  /\ board \in [Prices -> BoardRow] /\ writes \in 0..MaxWrites
  /\ \A x \in Prices : board[x].confirms <= writes
  /\ changed \subseteq Goods /\ came \subseteq Prices /\ gone \subseteq Prices

-----------------------------------------------------------------------------
\* An offer of its product, and none is cheaper.
Least(x) ==
  LET offers == Offers(board[x].goods)
  IN x \in offers /\ \A y \in offers : Amount(x) <= Amount(y)

\* The cards that are left for the page.
CardsLeft == Cardinality(1..PageSize \cap 1..(reader.total - (reader.page - 1) * PageSize))

IdsFound ==
  /\ \A i, j \in 1..Len(reader.ids) : i # j => reader.ids[i] # reader.ids[j]
  /\ changed = {} => /\ Range(reader.ids) \subseteq Priced
                     /\ ~ reader.near => Len(reader.ids) = CardsLeft
  /\ reader.pc # "cards" => reader.ids # <<>>

\* Where the cheapest offers have been found, and no row has been loaded.
IdsFresh ==
  LET live == Range(reader.ids) \cap Priced
  IN /\ \A x, y \in live :
          x # y => board[x].goods # board[y].goods \/ board[x].goods \in changed
     /\ \A x \in live : board[x].goods \in changed \/ Least(x)

AsRead(x) == reader.rows[x].goods \notin changed

RowsFresh ==
  /\ DOMAIN reader.rows \subseteq Range(reader.ids)
  /\ changed = {} => DOMAIN reader.rows = Range(reader.ids)
  /\ \A x, y \in DOMAIN reader.rows :
       x # y => reader.rows[x].goods # reader.rows[y].goods \/ ~ AsRead(x)
  /\ \A x \in DOMAIN reader.rows : AsRead(x) => reader.rows[x] = board[x] /\ Least(x)

SumsFresh ==
  \A x \in DOMAIN reader.rows : AsRead(x) =>
    LET g == reader.rows[x].goods
    IN g \in DOMAIN reader.sums /\ reader.sums[g] = Aggregated(Offers(g))

WeekOffers(g) == {x \in Offers(g) : board[x].week}

LowsFresh ==
  \A x \in DOMAIN reader.rows : AsRead(x) =>
    LET g == reader.rows[x].goods
    IN IF WeekOffers(g) = {} THEN g \notin DOMAIN reader.lows
       ELSE g \in DOMAIN reader.lows /\ reader.lows[g] = Min({Amount(y) : y \in WeekOffers(g)})

VotesFresh ==
  \A x \in DOMAIN reader.rows : AsRead(x) =>
    x \in DOMAIN reader.votes /\ reader.votes[x] = board[x].confirms

CardsOK ==
  /\ reader \in CardRead
  /\ reader.pc \notin {"count", "failed"} /\ changed = {} => reader.total = Cardinality(Offered)
  /\ reader.pc \in {"load", "aggregate", "lowest", "confirms", "cards"} => IdsFound
  /\ reader.pc \in {"count", "cheapest"} => DOMAIN reader.rows = {}
  /\ reader.pc = "load" => IdsFresh
  /\ reader.pc \in {"aggregate", "lowest", "confirms", "cards"} => RowsFresh
  /\ reader.pc \in {"lowest", "confirms", "cards"} => SumsFresh
  /\ reader.pc \in {"confirms", "cards"} => LowsFresh
  /\ reader.pc = "cards" => VotesFresh
  /\ reader.pc = "failed" => changed # {}

-----------------------------------------------------------------------------
\* What the list holds before x.
HeldBefore(x) == {y \in ListHeld \ {x} : Before(y, x)}

\* The rows of the pages whose ids have been read.
RowsRead == PageSize * IF reader.pc = "ids" THEN reader.page - 1 ELSE reader.page

\* Shown, or about to be.
IsShown(x) == x \in Range(reader.shown) \/ (reader.pc = "rows" /\ x \in Range(reader.ids))

ShownOnce(x) ==
  /\ \A i, j \in 1..Len(reader.shown) : reader.shown[i] = x /\ reader.shown[j] = x => i = j
  /\ reader.pc = "rows" /\ x \in Range(reader.ids) => x \notin Range(reader.shown)
  /\ IsShown(x) /\ reader.pc # "listed" => Cardinality(HeldBefore(x)) < RowsRead

ToBeShown(x) ==
  /\ reader.pc # "listed" /\ Cardinality(HeldBefore(x)) >= RowsRead
  /\ reader.pc \in {"rows", "total"} => Len(reader.ids) >= PageSize

ListOK ==
  /\ reader \in ListRead
  /\ reader.pc = "ids" /\ reader.page = 1 => reader.shown = <<>> /\ reader.stayed = {}
  /\ reader.stayed \ gone \subseteq ListHeld
  /\ reader.pc = "rows" =>
       /\ \A i, j \in 1..Len(reader.ids) : i # j => reader.ids[i] # reader.ids[j]
       /\ gone = {} => Range(reader.ids) \subseteq ListHeld
  /\ came = {} => \A x \in reader.stayed \ (gone \cup reader.tied) : ShownOnce(x)
  /\ gone = {} => \A x \in reader.stayed \ reader.tied : IsShown(x) \/ ToBeShown(x)

BoardInv ==
  /\ BoardTyped
  /\ \/ reader = NoRead
     \/ CardsOK
     \/ ListOK

-----------------------------------------------------------------------------
LEMMA RowsAre ==
  /\ BoardRow = PricedRow \cup {NoPrice} /\ NoPrice \notin PricedRow
  /\ NoPrice.goods = NoGoods /\ NoPrice.active = FALSE /\ NoPrice.confirms = 0
  /\ \A r \in PricedRow : r.goods \in Goods /\ r.goods # NoGoods
BY PriceBoardAssumption DEF BoardRow, PricedRow, NoPrice

LEMMA ReadsAre ==
  /\ NoRead.pc = "idle" /\ NoRead.ids = <<>>
  /\ \A r \in CardRead : r.pc \in CardPcs \cup {"failed"} /\ r.pc # "idle" /\ r.pc \notin ListPcs
  /\ \A r \in ListRead : r.pc \in ListPcs /\ r.pc # "idle" /\ r.pc \notin CardPcs \cup {"failed"}
BY DEF NoRead, CardRead, ListRead, CardPcs, ListPcs

LEMMA OffersAre ==
  ASSUME BoardTyped, NEW g
  PROVE  /\ Offers(g) \in SUBSET Prices /\ IsFiniteSet(Offers(g))
         /\ \A y \in Offers(g) : board[y] \in PricedRow /\ board[y].goods = g /\ Amount(y) \in Nat
<1>1. Offers(g) \in SUBSET Prices
  BY DEF Offers, Priced
<1>2. IsFiniteSet(Offers(g))
  BY <1>1, PriceBoardAssumption, FS_Subset
<1>3. ASSUME NEW y \in Offers(g) PROVE board[y] \in PricedRow /\ board[y].goods = g /\ Amount(y) \in Nat
  <2>1. y \in Prices /\ board[y] # NoPrice /\ board[y].goods = g
    BY DEF Offers, Priced
  <2>2. board[y] \in PricedRow
    BY <2>1, RowsAre DEF BoardTyped
  <2>3. board[y].amount \in Amounts
    BY <2>2 DEF PricedRow
  <2> QED
    BY <2>1, <2>2, <2>3, PriceBoardAssumption DEF Amount
<1> QED
  BY <1>1, <1>2, <1>3

-----------------------------------------------------------------------------
(* A change. *)

\* A table that a change may leave.
MayBecome(table) ==
  /\ table \in [Prices -> BoardRow] /\ \A y \in Prices : table[y].confirms <= writes + 1
  /\ Become(table)

LEMMA ChangeTyped ==
  ASSUME BoardTyped, NEW table, MayBecome(table)
  PROVE  /\ BoardTyped' /\ changed' # {} /\ reader' = reader /\ changed \subseteq changed'
         /\ reader.pc \notin {"idle", "cards", "listed", "failed"}
         /\ \A y \in Prices : board'[y] # board[y] =>
              board[y].goods \in changed' \cup {NoGoods} /\ board'[y].goods \in changed' \cup {NoGoods}
<1> DEFINE new == {y \in Prices : table[y] # board[y]}
<1>1. /\ writes < MaxWrites /\ writes' = writes + 1 /\ board' = table /\ reader' = reader
      /\ changed' = changed \cup
           (({table[y].goods : y \in new} \cup {board[y].goods : y \in new}) \ {NoGoods})
      /\ reader.pc \notin {"idle", "cards", "listed", "failed"} /\ new # {}
  BY DEF MayBecome, Become
<1>2. came' \subseteq came \cup Prices /\ gone' \subseteq gone \cup Prices
  BY DEF MayBecome, Become
<1>3. table \in [Prices -> BoardRow] /\ \A y \in Prices : table[y].confirms <= writes + 1
  BY DEF MayBecome
<1>4. \A y \in Prices : table[y] \in BoardRow /\ board[y] \in BoardRow
  BY <1>3 DEF BoardTyped
<1>5. \A r \in BoardRow : r.goods \in Goods \cup {NoGoods} /\ r.confirms \in Nat
  <2>1. \A r \in BoardRow : r.goods \in Goods \cup {NoGoods}
    BY RowsAre
  <2>2. \A r \in BoardRow : r.confirms \in Nat
    BY PriceBoardAssumption DEF BoardRow, NoPrice
  <2> QED
    BY <2>1, <2>2
<1>6. \A y \in new : y \in Prices /\ table[y] # board[y]
  OBVIOUS
<1>7. \A y \in Prices : table[y] # board[y] => y \in new
  OBVIOUS
<1> HIDE DEF new
<1>8. \A y \in Prices : table[y] # board[y] =>
        board[y].goods \in changed' \cup {NoGoods} /\ table[y].goods \in changed' \cup {NoGoods}
  BY <1>1, <1>7
<1>9. changed' # {}
  <2>1. PICK y \in new : TRUE
    BY <1>1
  <2>2. table[y] \in PricedRow \/ board[y] \in PricedRow
    BY <1>4, <1>6, RowsAre
  <2>3. table[y].goods # NoGoods \/ board[y].goods # NoGoods
    BY <2>2, RowsAre
  <2> QED
    BY <1>6, <1>8, <2>3
<1>10. changed' \subseteq Goods
  BY <1>1, <1>4, <1>5, <1>6 DEF BoardTyped
<1>11. writes' \in 0..MaxWrites /\ writes \in Nat
  BY <1>1, PriceBoardAssumption DEF BoardTyped
<1>12. came' \subseteq Prices /\ gone' \subseteq Prices
  BY <1>2 DEF BoardTyped
<1>13. BoardTyped'
  BY <1>1, <1>3, <1>10, <1>11, <1>12 DEF BoardTyped
<1> QED
  BY <1>1, <1>8, <1>9, <1>13

\* Nothing of a product changes but what is taken down as changed.
LEMMA Untouched ==
  ASSUME BoardTyped, NEW table, MayBecome(table), NEW g \in Goods, g \notin changed'
  PROVE  /\ g \notin changed
         /\ Offers(g)' = Offers(g)
         /\ \A y \in Prices : board[y].goods = g \/ board'[y].goods = g => board'[y] = board[y]
<1>1. /\ reader' = reader /\ changed \subseteq changed'
      /\ \A y \in Prices : board'[y] # board[y] =>
           board[y].goods \in changed' \cup {NoGoods} /\ board'[y].goods \in changed' \cup {NoGoods}
  BY ChangeTyped
<1>2. g # NoGoods
  BY PriceBoardAssumption
<1>3. \A y \in Prices : board[y].goods = g \/ board'[y].goods = g => board'[y] = board[y]
  BY <1>1, <1>2
<1>4. ASSUME NEW y PROVE y \in Offers(g)' <=> y \in Offers(g)
  <2>1. y \in Offers(g)' <=> /\ y \in Prices /\ board'[y] # NoPrice /\ board'[y].goods = g
                             /\ board'[y].active /\ (reader.near => board'[y].shop \in NearShops)
    BY <1>1 DEF Offers, Priced
  <2>2. y \in Offers(g) <=> /\ y \in Prices /\ board[y] # NoPrice /\ board[y].goods = g
                            /\ board[y].active /\ (reader.near => board[y].shop \in NearShops)
    BY DEF Offers, Priced
  <2> QED
    BY <1>3, <2>1, <2>2
<1> QED
  BY <1>1, <1>3, <1>4

LEMMA CardsChange ==
  ASSUME BoardTyped, CardsOK, NEW table, MayBecome(table)
  PROVE  CardsOK'
<1>1. reader' = reader /\ reader.pc \notin {"idle", "cards", "listed", "failed"}
  BY ChangeTyped
<1>2. changed' # {} /\ BoardTyped' /\ changed \subseteq changed'
  BY ChangeTyped
<1>4. reader \in CardRead
  BY DEF CardsOK
<1>t. reader.ids \in Seq(Prices) /\ Range(reader.ids) \subseteq Prices
  BY <1>4 DEF CardRead, Range
<1>r. DOMAIN reader.rows \subseteq Prices /\ \A y \in DOMAIN reader.rows : reader.rows[y].goods \in Goods
  <2>1. PICK S \in SUBSET Prices : reader.rows \in [S -> PricedRow]
    BY <1>4 DEF CardRead
  <2> QED
    BY <2>1, RowsAre
<1>l. ASSUME NEW y \in Prices, NEW g \in Goods, g \notin changed', board[y].goods = g, Least(y)
      PROVE  Least(y)'
  <2>1. Offers(g)' = Offers(g) /\ \A z \in Prices : board[z].goods = g => board'[z] = board[z]
    BY <1>l, Untouched
  <2>2. \A z \in Offers(g) : board'[z] = board[z]
    BY <2>1, OffersAre
  <2>3. y \in Offers(g) /\ \A z \in Offers(g) : Amount(y) <= Amount(z)
    BY <1>l DEF Least
  <2>4. board'[y].goods = g
    BY <1>l, <2>1
  <2>5. y \in Offers(g)' /\ \A z \in Offers(g)' : Amount(y)' <= Amount(z)'
    BY <2>1, <2>2, <2>3 DEF Amount
  <2> QED
    BY <2>4, <2>5 DEF Least
<1>f. ASSUME RowsFresh, NEW y \in DOMAIN reader.rows, NEW g, g = reader.rows[y].goods, g \notin changed'
      PROVE  /\ AsRead(y) /\ reader.rows[y] = board'[y] /\ Least(y)'
             /\ Offers(g)' = Offers(g)
             /\ \A z \in Offers(g) : board'[z] = board[z] /\ Amount(z)' = Amount(z)
  <2>1. g \in Goods /\ y \in Prices
    BY <1>r, <1>f
  <2>2. /\ g \notin changed /\ Offers(g)' = Offers(g)
        /\ \A z \in Prices : board[z].goods = g => board'[z] = board[z]
    BY <1>f, <2>1, Untouched
  <2>3. reader.rows[y] = board[y] /\ Least(y)
    BY <1>f, <2>2 DEF RowsFresh, AsRead
  <2>4. board[y].goods = g
    BY <1>f, <2>3
  <2>5. board'[y] = board[y] /\ Least(y)'
    BY <1>f, <1>l, <2>1, <2>2, <2>3, <2>4
  <2>6. \A z \in Offers(g) : board'[z] = board[z] /\ Amount(z)' = Amount(z)
    BY <2>2, OffersAre DEF Amount
  <2> QED
    BY <1>f, <2>2, <2>3, <2>5, <2>6 DEF AsRead
<1>5. IdsFound => IdsFound'
  BY <1>1, <1>2 DEF IdsFound
<1>6. IdsFresh => IdsFresh'
  <2> SUFFICES ASSUME IdsFresh PROVE IdsFresh'
    OBVIOUS
  <2>1. ASSUME NEW y \in Range(reader.ids), board'[y] # NoPrice, board'[y].goods \notin changed'
        PROVE  /\ y \in Prices /\ board'[y].goods \in Goods /\ board'[y] = board[y]
               /\ board[y].goods \notin changed /\ y \in Range(reader.ids) \cap Priced
    <3>1. y \in Prices
      BY <1>t
    <3>2. board'[y].goods \in Goods
      BY <1>2, <2>1, <3>1, RowsAre DEF BoardTyped
    <3>3. board'[y] = board[y] /\ board[y].goods \notin changed
      BY <2>1, <3>1, <3>2, Untouched
    <3> QED
      BY <2>1, <3>1, <3>2, <3>3 DEF Priced
  <2>2. ASSUME NEW y \in Range(reader.ids), board'[y] # NoPrice, board'[y].goods \notin changed'
        PROVE  Least(y)'
    <3>1. Least(y)
      BY <2>1, <2>2 DEF IdsFresh
    <3> QED
      BY <1>l, <2>1, <2>2, <3>1
  <2>3. \A y : y \in (Range(reader.ids) \cap Priced)' <=> y \in Range(reader.ids) /\ y \in Prices /\ board'[y] # NoPrice
    BY <1>1 DEF Priced
  <2>4. \A y, z \in Range(reader.ids) \cap Priced :
          y # z => board[y].goods # board[z].goods \/ board[y].goods \in changed
    BY DEF IdsFresh
  <2>5. \A y, z \in (Range(reader.ids) \cap Priced)' :
          y # z => board'[y].goods # board'[z].goods \/ board'[y].goods \in changed'
    BY <2>1, <2>3, <2>4
  <2>6. \A y \in (Range(reader.ids) \cap Priced)' : board'[y].goods \in changed' \/ Least(y)'
    BY <2>2, <2>3
  <2> QED
    BY <2>5, <2>6 DEF IdsFresh
<1>7. RowsFresh => RowsFresh'
  <2> SUFFICES ASSUME RowsFresh PROVE RowsFresh'
    OBVIOUS
  <2>1. ASSUME NEW y \in DOMAIN reader.rows, reader.rows[y].goods \notin changed'
        PROVE  reader.rows[y] = board'[y] /\ Least(y)'
    <3>1. PICK g : g = reader.rows[y].goods
      OBVIOUS
    <3> QED
      BY <1>f, <2>1, <3>1
  <2> QED
    BY <1>1, <1>2, <2>1 DEF RowsFresh, AsRead
<1>8. RowsFresh /\ SumsFresh => SumsFresh'
  <2> SUFFICES ASSUME RowsFresh, SumsFresh, NEW y \in DOMAIN reader.rows, NEW g, g = reader.rows[y].goods,
                      g \notin changed'
               PROVE  g \in DOMAIN reader.sums /\ reader.sums[g] = Aggregated(Offers(g))'
    BY <1>1 DEF SumsFresh, AsRead
  <2>1. AsRead(y) /\ Offers(g)' = Offers(g) /\ \A z \in Offers(g) : board'[z] = board[z] /\ Amount(z)' = Amount(z)
    BY <1>f
  <2>2. g \in DOMAIN reader.sums /\ reader.sums[g] = Aggregated(Offers(g))
    BY <2>1 DEF SumsFresh
  <2>3. Aggregated(Offers(g))' = Aggregated(Offers(g))
    <3> DEFINE xs == Offers(g)
    <3>a. xs' = xs /\ \A z \in xs : board'[z] = board[z] /\ Amount(z)' = Amount(z)
      BY <2>1
    <3> HIDE DEF xs
    <3>1. {Amount(z) : z \in xs}' = {Amount(z) : z \in xs}
      BY <3>a
    <3>2. [z \in xs |-> Amount(z)]' = [z \in xs |-> Amount(z)]
      BY <3>a
    <3>3. {board[z].shop : z \in xs}' = {board[z].shop : z \in xs}
      BY <3>a
    <3>4. Aggregated(xs)' = Aggregated(xs)
      BY <3>a, <3>1, <3>2, <3>3 DEF Aggregated
    <3> QED
      BY <3>4 DEF xs
  <2> QED
    BY <1>1, <2>2, <2>3
<1>9. RowsFresh /\ LowsFresh => LowsFresh'
  <2> SUFFICES ASSUME RowsFresh, LowsFresh, NEW y \in DOMAIN reader.rows, reader.rows[y].goods \notin changed',
                      NEW g, g = reader.rows[y].goods
               PROVE  IF WeekOffers(g)' = {} THEN g \notin DOMAIN reader.lows
                      ELSE g \in DOMAIN reader.lows
                           /\ reader.lows[g] = Min({Amount(z) : z \in WeekOffers(g)}')
    BY <1>1 DEF LowsFresh, AsRead
  <2>1. AsRead(y) /\ Offers(g)' = Offers(g) /\ \A z \in Offers(g) : board'[z] = board[z] /\ Amount(z)' = Amount(z)
    BY <1>f
  <2>2. WeekOffers(g)' = WeekOffers(g)
    BY <2>1 DEF WeekOffers
  <2>3. {Amount(z) : z \in WeekOffers(g)}' = {Amount(z) : z \in WeekOffers(g)}
    BY <2>1, <2>2 DEF WeekOffers
  <2>4. IF WeekOffers(g) = {} THEN g \notin DOMAIN reader.lows
        ELSE g \in DOMAIN reader.lows /\ reader.lows[g] = Min({Amount(z) : z \in WeekOffers(g)})
    BY <2>1 DEF LowsFresh
  <2> QED
    BY <2>2, <2>3, <2>4
<1> QED
  BY <1>1, <1>2, <1>5, <1>6, <1>7, <1>8, <1>9 DEF CardsOK

\* What a list holds, before and after a change.
LEMMA HeldChange ==
  ASSUME BoardTyped, NEW table, MayBecome(table), reader.pc \in {"ids", "rows", "total"}
  PROVE  /\ \A y \in ListHeld \ gone' : y \in ListHeld' /\ Amount(y)' = Amount(y)
         /\ came' = {} =>
              came = {} /\ \A y \in ListHeld' : y \in ListHeld /\ Amount(y)' = Amount(y)
         /\ gone' = {} =>
              gone = {} /\ \A y \in ListHeld : y \in ListHeld' /\ Amount(y)' = Amount(y)
         /\ gone \subseteq gone'
<1> DEFINE new == {y \in Prices : table[y] # board[y]}
<1>1. /\ board' = table /\ reader' = reader
      /\ came' = came \cup {y \in new : Takes(table[y], board[y])}
      /\ gone' = gone \cup {y \in new : Takes(board[y], table[y])}
  BY DEF MayBecome, Become, Listing
<1>2. \A y \in Prices : board'[y] # board[y] =>
        /\ Takes(board'[y], board[y]) => y \in came'
        /\ Takes(board[y], board'[y]) => y \in gone'
  BY <1>1
<1>7. came \subseteq came' /\ gone \subseteq gone'
  BY <1>1
<1> HIDE DEF new
<1>3. \A r : InList(r)' <=> InList(r)
  BY <1>1 DEF InList, RecentPrices, PricesOfUser, PricesOfProduct, PricesOfStore
<1>4. \A y : y \in ListHeld' <=> y \in Prices /\ InList(board'[y])
  BY <1>1 DEF ListHeld, InList, RecentPrices, PricesOfUser, PricesOfProduct, PricesOfStore
<1>5. \A y : y \in ListHeld <=> y \in Prices /\ InList(board[y])
  BY DEF ListHeld
<1>6. \A y : Amount(y) = board[y].amount /\ Amount(y)' = board'[y].amount
  BY DEF Amount
<1>8. ASSUME NEW y \in ListHeld, y \notin gone' PROVE y \in ListHeld' /\ Amount(y)' = Amount(y)
  BY <1>2, <1>4, <1>5, <1>6, <1>8 DEF Takes
<1>9. ASSUME NEW y \in ListHeld', y \notin came' PROVE y \in ListHeld /\ Amount(y)' = Amount(y)
  BY <1>2, <1>4, <1>5, <1>6, <1>9 DEF Takes
<1> QED
  BY <1>7, <1>8, <1>9

LEMMA HeldBeforeIs ==
  \A x : HeldBefore(x) \in SUBSET Prices /\ IsFiniteSet(HeldBefore(x)) /\ Cardinality(HeldBefore(x)) \in Nat
<1> TAKE x
<1>1. HeldBefore(x) \in SUBSET Prices
  BY DEF HeldBefore, ListHeld
<1> QED
  BY <1>1, PriceBoardAssumption, FS_Subset, FS_CardinalityType

LEMMA RowsReadType ==
  ASSUME reader \in ListRead
  PROVE  /\ RowsRead \in Nat /\ reader.page \in Nat \ {0} /\ reader.page - 1 \in Nat
         /\ PageSize * reader.page \in Nat /\ PageSize * (reader.page - 1) \in Nat
         /\ PageSize * reader.page = PageSize * (reader.page - 1) + PageSize
         /\ PageSize \in Nat \ {0}
<1>1. reader.page \in Nat \ {0} /\ PageSize \in Nat \ {0}
  BY PriceBoardAssumption DEF ListRead
<1>2. reader.page - 1 \in Nat
  BY <1>1
<1>3. /\ PageSize * reader.page \in Nat /\ PageSize * (reader.page - 1) \in Nat
      /\ PageSize * reader.page = PageSize * (reader.page - 1) + PageSize
  BY <1>1, <1>2
<1>4. RowsRead \in Nat
  BY <1>3 DEF RowsRead
<1> QED
  BY <1>1, <1>2, <1>3, <1>4

LEMMA ListChange ==
  ASSUME BoardTyped, ListOK, NEW table, MayBecome(table)
  PROVE  ListOK'
<1>1. reader' = reader /\ reader.pc \notin {"idle", "cards", "listed", "failed"}
  BY ChangeTyped
<1>2. reader \in ListRead /\ reader.pc \in {"ids", "rows", "total"}
  BY <1>1, ReadsAre DEF ListOK, ListPcs
<1>3. /\ \A y \in ListHeld \ gone' : y \in ListHeld' /\ Amount(y)' = Amount(y)
      /\ came' = {} =>
           came = {} /\ \A y \in ListHeld' : y \in ListHeld /\ Amount(y)' = Amount(y)
      /\ gone' = {} =>
           gone = {} /\ \A y \in ListHeld : y \in ListHeld' /\ Amount(y)' = Amount(y)
      /\ gone \subseteq gone'
  BY <1>2, HeldChange
<1>4. reader.stayed \ gone' \subseteq ListHeld'
  BY <1>3 DEF ListOK
<1>5. reader.pc = "rows" /\ gone' = {} => Range(reader.ids) \subseteq ListHeld'
  BY <1>3 DEF ListOK
<1>6. RowsRead' = RowsRead /\ \A y : IsShown(y)' <=> IsShown(y)
  BY <1>1 DEF RowsRead, IsShown
<1>a. \A y, z : /\ Before(y, z) <=> IF reader.list = "goods" THEN Amount(y) <= Amount(z) ELSE y > z
                /\ Before(y, z)' <=> IF reader.list = "goods" THEN Amount(y)' <= Amount(z)' ELSE y > z
  BY <1>1 DEF Before
<1>n. RowsRead \in Nat
  BY <1>2, RowsReadType
<1>7. ASSUME came' = {}, NEW y \in reader.stayed \ (gone' \cup reader.tied) PROVE ShownOnce(y)'
  <2>1. ShownOnce(y) /\ y \in ListHeld'
    BY <1>3, <1>4, <1>7 DEF ListOK
  <2>2. HeldBefore(y)' \subseteq HeldBefore(y)
    <3> SUFFICES ASSUME NEW z, z \in ListHeld', z # y, Before(z, y)' PROVE z \in ListHeld /\ Before(z, y)
      BY DEF HeldBefore
    <3> QED
      BY <1>3, <1>7, <1>a, <2>1
  <2>3. Cardinality(HeldBefore(y)') <= Cardinality(HeldBefore(y)) /\ Cardinality(HeldBefore(y)') \in Nat
    <3>1. HeldBefore(y)' \in SUBSET HeldBefore(y)
      BY <2>2
    <3> QED
      BY <3>1, HeldBeforeIs, FS_Subset, FS_CardinalityType
  <2>4. Cardinality(HeldBefore(y)) \in Nat
    BY HeldBeforeIs
  <2> QED
    BY <1>1, <1>6, <1>n, <2>1, <2>3, <2>4 DEF ShownOnce
<1>8. ASSUME gone' = {}, NEW y \in reader.stayed \ reader.tied, ~ IsShown(y) PROVE ToBeShown(y)'
  <2>1. ToBeShown(y) /\ y \in ListHeld
    BY <1>3, <1>8 DEF ListOK
  <2>2. HeldBefore(y) \subseteq HeldBefore(y)'
    <3> SUFFICES ASSUME NEW z, z \in ListHeld, z # y, Before(z, y) PROVE z \in ListHeld' /\ Before(z, y)'
      BY DEF HeldBefore
    <3>1. z \in ListHeld' /\ Amount(z)' = Amount(z) /\ Amount(y)' = Amount(y)
      BY <1>3, <1>8, <2>1
    <3> QED
      BY <1>a, <3>1
  <2>3. IsFiniteSet(HeldBefore(y)')
    <3>1. HeldBefore(y)' \in SUBSET Prices
      BY DEF HeldBefore, ListHeld
    <3> QED
      BY <3>1, PriceBoardAssumption, FS_Subset
  <2>4. Cardinality(HeldBefore(y)) <= Cardinality(HeldBefore(y)') /\ Cardinality(HeldBefore(y)') \in Nat
    <3>1. HeldBefore(y) \in SUBSET HeldBefore(y)'
      BY <2>2
    <3> QED
      BY <2>3, <3>1, FS_Subset, FS_CardinalityType
  <2>5. Cardinality(HeldBefore(y)) \in Nat
    BY HeldBeforeIs
  <2> QED
    BY <1>1, <1>6, <1>n, <2>1, <2>4, <2>5 DEF ToBeShown
<1>9. came' = {} => \A y \in reader.stayed \ (gone' \cup reader.tied) : ShownOnce(y)'
  BY <1>7
<1>10. gone' = {} => \A y \in reader.stayed \ reader.tied : IsShown(y)' \/ ToBeShown(y)'
  BY <1>6, <1>8
<1> QED
  BY <1>1, <1>4, <1>5, <1>9, <1>10 DEF ListOK

\* The changes there are.
LEMMA BecomesOK ==
  ASSUME BoardInv, NEW table, MayBecome(table)
  PROVE  BoardInv'
<1>1. BoardTyped /\ BoardTyped' /\ reader.pc # "idle"
  BY ChangeTyped DEF BoardInv
<1>2. CardsOK \/ ListOK
  BY <1>1, ReadsAre DEF BoardInv
<1> QED
  BY <1>1, <1>2, CardsChange, ListChange DEF BoardInv

LEMMA MergesOK ==
  ASSUME BoardInv, NEW from \in Goods, NEW into \in Goods, MergeGoods(from, into)
  PROVE  BoardInv'
<1> DEFINE table == [x \in Prices |-> IF board[x].goods = from THEN [board[x] EXCEPT !.goods = into]
                                                              ELSE board[x]]
<1>1. Become(table)
  BY DEF MergeGoods
<1>2. BoardTyped /\ writes \in Nat
  BY PriceBoardAssumption DEF BoardInv, BoardTyped
<1>3. ASSUME NEW x \in Prices PROVE table[x] \in BoardRow /\ table[x].confirms <= writes + 1
  <2>1. board[x] \in BoardRow /\ board[x].confirms <= writes
    BY <1>2 DEF BoardTyped
  <2>2. CASE board[x].goods = from
    <3> DEFINE row == [board[x] EXCEPT !.goods = into]
    <3>1. board[x] \in PricedRow
      BY <2>1, <2>2, RowsAre, PriceBoardAssumption
    <3>2. row \in PricedRow /\ row.confirms = board[x].confirms
      BY <3>1 DEF PricedRow
    <3>3. board[x].confirms \in Nat /\ table[x] = row
      BY <2>2, <3>1, PriceBoardAssumption DEF PricedRow
    <3> HIDE DEF row, table
    <3> QED
      BY <1>2, <2>1, <3>2, <3>3, RowsAre
  <2>3. CASE board[x].goods # from
    <3>1. table[x] = board[x]
      BY <2>3
    <3>2. board[x].confirms \in Nat
      BY <2>1, PriceBoardAssumption DEF BoardRow, NoPrice
    <3> HIDE DEF table
    <3> QED
      BY <1>2, <2>1, <3>1, <3>2
  <2> QED
    BY <2>2, <2>3
<1>4. table \in [Prices -> BoardRow]
  BY <1>3
<1> HIDE DEF table
<1>5. MayBecome(table)
  BY <1>1, <1>3, <1>4 DEF MayBecome
<1> QED
  BY <1>5, BecomesOK

LEMMA ChangesOK ==
  ASSUME BoardInv, NEW x \in Prices,
         \/ \E g \in Goods, s \in Shops, u \in Sellers, n \in Amounts : Register(x, g, s, u, n)
         \/ \E n \in Amounts : Reprice(x, n)
         \/ Deactivate(x) \/ Delete(x) \/ Confirm(x) \/ WeekPasses(x)
         \/ \E row \in Late : Reinsert(x, row)
  PROVE  BoardInv'
<1>t. /\ BoardTyped /\ board[x] \in BoardRow /\ writes \in Nat /\ board[x].confirms <= writes
      /\ board[x].confirms \in Nat
  <2>1. BoardTyped /\ board[x] \in BoardRow /\ writes \in Nat /\ board[x].confirms <= writes
    BY PriceBoardAssumption DEF BoardInv, BoardTyped
  <2>2. \A r \in BoardRow : r.confirms \in Nat
    BY PriceBoardAssumption DEF BoardRow, NoPrice
  <2> QED
    BY <2>1, <2>2
<1>p. ASSUME x \in Priced PROVE board[x] \in PricedRow
  BY <1>t, <1>p, RowsAre DEF Priced
<1>1. ASSUME NEW row, Change(x, row), row \in BoardRow, row.confirms <= writes + 1
      PROVE  BoardInv'
  <2>1. Become([board EXCEPT ![x] = row])
    BY <1>1 DEF Change
  <2>2. PICK table : table = [board EXCEPT ![x] = row]
    OBVIOUS
  <2>3. table \in [Prices -> BoardRow] /\ \A y \in Prices : table[y] = IF y = x THEN row ELSE board[y]
    BY <1>1, <1>t, <2>2 DEF BoardTyped
  <2>4. \A y \in Prices : board[y].confirms \in Nat /\ board[y].confirms <= writes
    BY <1>t, PriceBoardAssumption DEF BoardTyped, BoardRow, NoPrice
  <2>5. \A y \in Prices : table[y].confirms <= writes + 1
    BY <1>1, <1>t, <2>3, <2>4
  <2> QED
    BY <2>1, <2>2, <2>3, <2>5, BecomesOK DEF MayBecome
<1>2. ASSUME NEW g \in Goods, NEW s \in Shops, NEW u \in Sellers, NEW n \in Amounts, Register(x, g, s, u, n)
      PROVE  BoardInv'
  <2> DEFINE row == [goods |-> g, shop |-> s, seller |-> u, amount |-> n,
                     active |-> TRUE, week |-> TRUE, confirms |-> 0]
  <2>1. Change(x, row)
    BY <1>2 DEF Register
  <2>2. row \in BoardRow /\ row.confirms = 0
    BY PriceBoardAssumption DEF BoardRow
  <2> HIDE DEF row
  <2> QED
    BY <1>1, <1>t, <2>1, <2>2
<1>3. ASSUME NEW n \in Amounts, Reprice(x, n) PROVE BoardInv'
  <2> DEFINE row == [board[x] EXCEPT !.amount = n]
  <2>1. Change(x, row) /\ board[x] \in PricedRow
    BY <1>3, <1>p DEF Reprice
  <2>2. row \in PricedRow /\ row.confirms = board[x].confirms /\ row.goods = board[x].goods
    BY <2>1 DEF PricedRow
  <2> HIDE DEF row
  <2> QED
    BY <1>1, <1>t, <2>1, <2>2, RowsAre
<1>4. ASSUME Deactivate(x) PROVE BoardInv'
  <2> DEFINE row == [board[x] EXCEPT !.active = FALSE]
  <2>1. Change(x, row) /\ board[x] \in PricedRow
    BY <1>4, <1>p DEF Deactivate
  <2>2. row \in PricedRow /\ row.confirms = board[x].confirms /\ row.goods = board[x].goods
    BY <2>1 DEF PricedRow
  <2> HIDE DEF row
  <2> QED
    BY <1>1, <1>t, <2>1, <2>2, RowsAre
<1>5. ASSUME Delete(x) PROVE BoardInv'
  BY <1>1, <1>5, <1>t, RowsAre DEF Delete
<1>6. ASSUME Confirm(x) PROVE BoardInv'
  <2> DEFINE row == [board[x] EXCEPT !.confirms = @ + 1]
  <2>1. Change(x, row) /\ board[x] \in PricedRow
    BY <1>6, <1>p DEF Confirm
  <2>b. writes < MaxWrites
    BY <2>1 DEF Change, Become
  <2>a. board[x].confirms + 1 \in 0..MaxWrites /\ board[x].confirms \in Nat
    BY <1>t, <2>1, <2>b, PriceBoardAssumption DEF PricedRow
  <2>2. row \in PricedRow /\ row.confirms = board[x].confirms + 1 /\ row.goods = board[x].goods
    BY <2>1, <2>a DEF PricedRow
  <2> HIDE DEF row
  <2> QED
    BY <1>1, <1>t, <2>1, <2>2, <2>a, RowsAre
<1>7. ASSUME WeekPasses(x) PROVE BoardInv'
  <2> DEFINE row == [board[x] EXCEPT !.week = FALSE]
  <2>1. Change(x, row) /\ board[x] \in PricedRow
    BY <1>7, <1>p DEF WeekPasses
  <2>2. row \in PricedRow /\ row.confirms = board[x].confirms /\ row.goods = board[x].goods
    BY <2>1 DEF PricedRow
  <2> HIDE DEF row
  <2> QED
    BY <1>1, <1>t, <2>1, <2>2, RowsAre
<1>8. ASSUME NEW row \in Late, Reinsert(x, row) PROVE BoardInv'
  <2>1. row \in BoardRow /\ row.confirms = 0
    BY PriceBoardAssumption DEF BoardRow
  <2> QED
    BY <1>1, <1>8, <1>t, <2>1 DEF Reinsert
<1> QED
  BY <1>2, <1>3, <1>4, <1>5, <1>6, <1>7, <1>8

-----------------------------------------------------------------------------
(* Greatest and least, pages and sums. *)

LEMMA GreatestOf ==
  ASSUME NEW S \in SUBSET Nat, IsFiniteSet(S), S # {}
  PROVE  Max(S) \in S /\ \A x \in S : x <= Max(S)
<1>1. PICK w \in S : \A x \in S : x <= w
  BY LastOf
<1>2. \A x \in S : w >= x
  BY <1>1
<1>3. \E w_1 \in S : \A x \in S : w_1 >= x
  BY <1>2
<1>4. Max(S) \in S /\ \A x \in S : Max(S) >= x
  BY <1>3, Zenon DEF Max
<1> QED
  BY <1>4

LEMMA AmountsOf ==
  ASSUME BoardTyped, NEW g, NEW S \in SUBSET Offers(g)
  PROVE  /\ {Amount(y) : y \in S} \in SUBSET Nat /\ IsFiniteSet({Amount(y) : y \in S})
         /\ IsFiniteSet(S) /\ Cardinality(S) \in Nat
         /\ S # {} => {Amount(y) : y \in S} # {} /\ Cardinality(S) # 0
<1> DEFINE A == {Amount(y) : y \in S}
           f == [y \in S |-> Amount(y)]
<1>1. IsFiniteSet(S) /\ \A y \in S : Amount(y) \in Nat
  BY OffersAre, FS_Subset
<1>2. f \in Surjection(S, A)
  <2>1. f \in [S -> A]
    OBVIOUS
  <2>2. \A a \in A : \E y \in S : f[y] = a
    OBVIOUS
  <2> QED
    BY <2>1, <2>2 DEF Surjection
<1>3. IsFiniteSet(A)
  BY <1>1, <1>2, FS_Surjection
<1>4. Cardinality(S) \in Nat /\ (Cardinality(S) = 0 <=> S = {})
  BY <1>1, FS_CardinalityType, FS_EmptySet
<1> QED
  BY <1>1, <1>3, <1>4

\* What DISTINCT ON finds of a product: its least amount.
LEMMA CheapestOf ==
  ASSUME BoardTyped, NEW g, Offers(g) # {}
  PROVE  Cheapest(g) \in Offers(g) /\ \A y \in Offers(g) : Amount(Cheapest(g)) <= Amount(y)
<1> DEFINE A == {Amount(y) : y \in Offers(g)}
           a == Min(A)
           C == {y \in Offers(g) : Amount(y) = a}
           Best(x) == \A y \in Offers(g) \ {x} : Amount(x) < Amount(y) \/ (Amount(x) = Amount(y) /\ y < x)
<1>1. A \in SUBSET Nat /\ A # {}
  BY AmountsOf
<1>2. a \in A /\ \A b \in A : a <= b
  <2> HIDE DEF A
  <2> QED
    BY <1>1, LeastOf
<1> HIDE DEF a
<1>3. C # {} /\ \A y \in Offers(g) : a <= Amount(y) /\ Amount(y) \in Nat
  BY <1>1, <1>2
<1>4. C \in SUBSET Nat /\ IsFiniteSet(C)
  <2>1. C \in SUBSET Offers(g) /\ Offers(g) \in SUBSET Prices
    BY OffersAre
  <2> QED
    BY <2>1, PriceBoardAssumption, FS_Subset
<1>5. PICK x \in C : \A y \in C : y <= x
  <2> HIDE DEF C
  <2> QED
    BY <1>3, <1>4, LastOf
<1>6. Best(x)
  <2> SUFFICES ASSUME NEW y \in Offers(g) \ {x}
               PROVE  Amount(x) < Amount(y) \/ (Amount(x) = Amount(y) /\ y < x)
    OBVIOUS
  <2>1. CASE Amount(y) = a
    <3>1. y \in C /\ y <= x /\ y # x /\ Amount(x) = a
      BY <1>5, <2>1
    <3>2. y \in Nat /\ x \in Nat
      BY <1>4, <3>1
    <3>3. y < x
      BY <3>1, <3>2
    <3> QED
      BY <2>1, <3>1, <3>3
  <2>2. CASE Amount(y) # a
    <3>1. a <= Amount(y) /\ Amount(y) \in Nat /\ Amount(x) = a /\ a \in Nat
      BY <1>1, <1>2, <1>3
    <3>2. a < Amount(y)
      BY <2>2, <3>1
    <3> QED
      BY <3>1, <3>2
  <2> QED
    BY <2>1, <2>2
<1>7. Cheapest(g) = CHOOSE y \in Offers(g) : Best(y)
  BY DEF Cheapest
<1>8. x \in Offers(g)
  OBVIOUS
<1> HIDE DEF Best
<1>9. Cheapest(g) \in Offers(g) /\ Best(Cheapest(g))
  BY <1>6, <1>7, <1>8
<1>10. ASSUME NEW y \in Offers(g) PROVE Amount(Cheapest(g)) <= Amount(y)
  <2>1. Amount(y) \in Nat /\ Amount(Cheapest(g)) \in Nat
    BY <1>3, <1>9
  <2>2. CASE y = Cheapest(g)
    BY <2>1, <2>2
  <2>3. CASE y # Cheapest(g)
    <3>1. Amount(Cheapest(g)) < Amount(y) \/ Amount(Cheapest(g)) = Amount(y)
      BY <1>9, <2>3 DEF Best
    <3> QED
      BY <2>1, <3>1
  <2> QED
    BY <2>2, <2>3
<1> QED
  BY <1>9, <1>10

LEMMA BothIntervals ==
  ASSUME NEW a \in Nat, NEW b \in Int
  PROVE  Cardinality(1..a \cap 1..b) = IF b <= 0 THEN 0 ELSE IF a <= b THEN a ELSE b
<1> DEFINE m == IF b <= 0 THEN 0 ELSE IF a <= b THEN a ELSE b
<1>1. m \in Nat /\ 1..a \cap 1..b = 1..m
  OBVIOUS
<1> HIDE DEF m
<1>2. Cardinality(1..m) = m
  BY <1>1, FS_Interval
<1> QED
  BY <1>1, <1>2 DEF m

\* The rows before the page.
Skipped == (reader.page - 1) * PageSize

\* A page of what comes in order.
LEMMA PageIs ==
  ASSUME NEW S, NEW all \in Seq(S), reader.page \in Nat \ {0}, NEW from, from = Skipped,
         NEW part, part = PageOf(all)
  PROVE  /\ from \in Nat /\ part \in Seq(S)
         /\ Len(part) = IF from >= Len(all) THEN 0
                        ELSE IF from + PageSize <= Len(all) THEN PageSize ELSE Len(all) - from
         /\ \A i \in 1..Len(part) : from + i \in 1..Len(all) /\ part[i] = all[from + i]
<1> DEFINE n == Len(all)
           P == PageSize
           to == Min({from + P, n})
<1>1. n \in Nat /\ P \in Nat /\ P > 0 /\ from \in Nat
  <2>1. reader.page - 1 \in Nat /\ PageSize \in Nat /\ PageSize > 0 /\ Len(all) \in Nat
    BY PriceBoardAssumption
  <2> QED
    BY <2>1 DEF Skipped
<1>2. part = SubSeq(all, from + 1, to)
  BY DEF PageOf, Skipped
<1> HIDE DEF n, P
<1>3. to = IF from + P <= n THEN from + P ELSE n
  <2> DEFINE M == {from + P, n}
  <2>1. M \in SUBSET Nat /\ M # {} /\ \A x \in M : x = from + P \/ x = n
    BY <1>1
  <2>2. from + P \in M /\ n \in M
    OBVIOUS
  <2> HIDE DEF M
  <2>3. Min(M) \in M /\ \A x \in M : Min(M) <= x
    BY <2>1, LeastOf
  <2>4. Min(M) <= from + P /\ Min(M) <= n /\ (Min(M) = from + P \/ Min(M) = n)
    BY <2>1, <2>2, <2>3
  <2>5. Min(M) = IF from + P <= n THEN from + P ELSE n
    BY <1>1, <2>4
  <2> QED
    BY <2>5 DEF M
<1> HIDE DEF to
<1>4. to \in Nat /\ to <= n
  <2>1. CASE from + P <= n
    BY <1>1, <1>3, <2>1
  <2>2. CASE ~ (from + P <= n)
    BY <1>1, <1>3, <2>2
  <2> QED
    BY <2>1, <2>2
<1>5. /\ part \in Seq(S) /\ Len(part) = IF from >= to THEN 0 ELSE to - from
      /\ \A i \in 1..Len(part) : from + i \in 1..n /\ part[i] = all[from + i]
  <2> DEFINE m == from + 1
  <2>1. m \in Int /\ to \in Int /\ m = from + 1
    BY <1>1, <1>4
  <2>2. \A i \in m..to : all[i] \in S
    <3>1. \A i \in m..to : i \in 1..Len(all)
      BY <1>1, <1>4 DEF n
    <3> QED
      BY <3>1
  <2>3. part = SubSeq(all, m, to)
    BY <1>2
  <2> HIDE DEF m
  <2>a. /\ SubSeq(all, m, to) \in Seq(S)
        /\ Len(SubSeq(all, m, to)) = IF m <= to THEN to - m + 1 ELSE 0
        /\ \A i \in 1..to - m + 1 : SubSeq(all, m, to)[i] = all[m + i - 1]
    BY <2>1, <2>2, SubSeqProperties
  <2>4. /\ part \in Seq(S)
        /\ Len(part) = IF m <= to THEN to - m + 1 ELSE 0
        /\ \A i \in 1..to - m + 1 : part[i] = all[m + i - 1]
    BY <2>3, <2>a
  <2>5. Len(part) = IF from >= to THEN 0 ELSE to - from
    BY <1>1, <1>4, <2>1, <2>4
  <2>6. ASSUME NEW i \in 1..Len(part) PROVE from + i \in 1..n /\ part[i] = all[from + i]
    <3>1. i \in 1..to - m + 1 /\ m + i - 1 = from + i /\ from + i \in 1..n
      BY <1>1, <1>4, <2>1, <2>5
    <3> QED
      BY <2>4, <3>1
  <2> QED
    BY <2>4, <2>5, <2>6
<1>6. Len(part) = IF from >= n THEN 0 ELSE IF from + P <= n THEN P ELSE n - from
  <2>1. CASE from >= n
    BY <1>1, <1>3, <1>5, <2>1
  <2>2. CASE ~ (from >= n) /\ from + P <= n
    BY <1>1, <1>3, <1>5, <2>2
  <2>3. CASE ~ (from >= n) /\ ~ (from + P <= n)
    BY <1>1, <1>3, <1>5, <2>3
  <2> QED
    BY <2>1, <2>2, <2>3
<1> QED
  BY <1>1, <1>5, <1>6 DEF n, P

\* What counts an interval is its length.
LEMMA ImageOf ==
  ASSUME NEW n \in Nat, NEW f, DOMAIN f = 1..n, \A i, j \in 1..n : i # j => f[i] # f[j]
  PROVE  IsFiniteSet({f[i] : i \in 1..n}) /\ Cardinality({f[i] : i \in 1..n}) = n
<1> DEFINE T == {f[i] : i \in 1..n}
           h == [i \in 1..n |-> f[i]]
<1>1. IsFiniteSet(1..n) /\ Cardinality(1..n) = n
  BY FS_Interval
<1>2. h \in [1..n -> T] /\ \A t \in T : \E i \in 1..n : h[i] = t
  OBVIOUS
<1>3. \A i, j \in 1..n : h[i] = h[j] => i = j
  OBVIOUS
<1> HIDE DEF h
<1>4. h \in Surjection(1..n, T) /\ h \in Injection(1..n, T)
  BY <1>2, <1>3, Zenon DEF Surjection, Injection, IsInjective
<1>5. IsFiniteSet(T) /\ Cardinality(T) = Cardinality(1..n)
  <2> HIDE DEF T
  <2> QED
    BY <1>1, <1>4, FS_Surjection
<1> QED
  BY <1>1, <1>5

-----------------------------------------------------------------------------
(* The cards. *)

\* What a statement of the read leaves as it is.
LEMMA CardStep ==
  ASSUME UNCHANGED <<board, writes, changed, came, gone>>, reader'.near = reader.near
  PROVE  /\ Priced' = Priced /\ Offered' = Offered
         /\ \A g : Offers(g)' = Offers(g) /\ WeekOffers(g)' = WeekOffers(g)
         /\ \A g : Aggregated(Offers(g))' = Aggregated(Offers(g))
         /\ \A x : Amount(x)' = Amount(x) /\ board'[x] = board[x] /\ (Least(x)' <=> Least(x))
         /\ BoardTyped => BoardTyped'
<1>1. Priced' = Priced /\ \A x : Amount(x)' = Amount(x) /\ board'[x] = board[x]
  BY DEF Priced, Amount
<1>2. \A g : Offers(g)' = Offers(g)
  <2> TAKE g
  <2>1. \A y : y \in Offers(g)' <=> y \in Offers(g)
    BY DEF Offers, Priced
  <2> QED
    BY <2>1
<1>3. \A g : WeekOffers(g)' = WeekOffers(g)
  BY <1>1, <1>2 DEF WeekOffers
<1>4. Offered' = Offered
  BY <1>2 DEF Offered
<1>5. \A x : Least(x)' <=> Least(x)
  <2> TAKE x
  <2>1. PICK g : g = board[x].goods
    OBVIOUS
  <2>2. board'[x].goods = g
    BY <1>1, <2>1
  <2>3. Offers(g)' = Offers(g)
    BY <1>2
  <2>4. Least(x)' <=> x \in Offers(g)' /\ \A y \in Offers(g)' : Amount(x)' <= Amount(y)'
    BY <2>2 DEF Least
  <2>5. Least(x) <=> x \in Offers(g) /\ \A y \in Offers(g) : Amount(x) <= Amount(y)
    BY <2>1 DEF Least
  <2> QED
    BY <1>1, <2>3, <2>4, <2>5
<1>6. BoardTyped => BoardTyped'
  BY DEF BoardTyped
<1>7. \A g : Aggregated(Offers(g))' = Aggregated(Offers(g))
  <2> TAKE g
  <2> DEFINE xs == Offers(g)
  <2>1. xs' = xs /\ \A z : board'[z] = board[z] /\ Amount(z)' = Amount(z)
    BY <1>1, <1>2
  <2> HIDE DEF xs
  <2>2. {Amount(z) : z \in xs}' = {Amount(z) : z \in xs}
    BY <2>1
  <2>3. [z \in xs |-> Amount(z)]' = [z \in xs |-> Amount(z)]
    BY <2>1
  <2>4. {board[z].shop : z \in xs}' = {board[z].shop : z \in xs}
    BY <2>1
  <2>5. Aggregated(xs)' = Aggregated(xs)
    BY <2>1, <2>2, <2>3, <2>4 DEF Aggregated
  <2> QED
    BY <2>5 DEF xs
<1> QED
  BY <1>1, <1>2, <1>3, <1>4, <1>5, <1>6, <1>7

LEMMA OfferedIs ==
  ASSUME BoardTyped
  PROVE  /\ Offered \in SUBSET Goods /\ IsFiniteSet(Offered) /\ Cardinality(Offered) \in Nat
         /\ Offered \in SUBSET Nat
         /\ \A g : Offers(g) # {} => g \in Offered
<1>1. Offered \in SUBSET Goods
  BY DEF Offered
<1>2. IsFiniteSet(Offered) /\ Cardinality(Offered) \in Nat
  BY <1>1, PriceBoardAssumption, FS_Subset, FS_CardinalityType
<1>3. ASSUME NEW g, Offers(g) # {} PROVE g \in Offered
  <2>1. PICK y : y \in Offers(g)
    BY <1>3
  <2>2. board[y] \in PricedRow /\ board[y].goods = g
    BY <2>1, OffersAre
  <2>3. g \in Goods
    BY <2>2, RowsAre
  <2> QED
    BY <1>3, <2>3 DEF Offered
<1>4. Offered \in SUBSET Nat
  BY <1>1, PriceBoardAssumption
<1> QED
  BY <1>1, <1>2, <1>3, <1>4

LEMMA StartsCards ==
  ASSUME BoardInv, NEW near \in BOOLEAN, NEW page \in Nat \ {0}, StartCards(near, page)
  PROVE  BoardInv'
<1> DEFINE start == [pc |-> "count", near |-> near, page |-> page, total |-> 0, ids |-> <<>>,
                     rows |-> <<>>, sums |-> <<>>, lows |-> <<>>, votes |-> <<>>]
<1>1. reader' = start /\ changed' = {} /\ came' = {} /\ gone' = {} /\ UNCHANGED <<board, writes>>
  BY DEF StartCards, Starts
<1>2. start \in CardRead
  <2>1. "count" \in CardPcs \cup {"failed"} /\ 0 \in Nat
    BY DEF CardPcs
  <2>2. <<>> \in Seq(Prices)
    OBVIOUS
  <2>3. \A S : <<>> \in [{} -> S]
    OBVIOUS
  <2>4. \A S, T : <<>> \in UNION {[U -> S] : U \in SUBSET T}
    BY <2>3
  <2> HIDE DEF start
  <2>5. <<>> \in UNION {[S -> PricedRow] : S \in SUBSET Prices} /\ <<>> \in UNION {[S -> SumsRow] : S \in SUBSET Goods}
        /\ <<>> \in UNION {[S -> Nat] : S \in SUBSET Goods} /\ <<>> \in UNION {[S -> Nat] : S \in SUBSET Prices}
    BY <2>4
  <2> QED
    BY <2>1, <2>2, <2>5 DEF CardRead, start
<1>3. start.pc = "count" /\ DOMAIN start.rows = {}
  OBVIOUS
<1>4. BoardTyped'
  BY <1>1 DEF BoardInv, BoardTyped
<1> HIDE DEF start
<1>5. CardsOK'
  BY <1>1, <1>2, <1>3 DEF CardsOK
<1> QED
  BY <1>4, <1>5 DEF BoardInv

LEMMA CountsProducts ==
  ASSUME BoardInv, CountProducts
  PROVE  BoardInv'
<1>1. reader.pc = "count" /\ UNCHANGED <<board, writes, changed, came, gone>>
  BY DEF CountProducts, Goto
<1>2. CardsOK /\ reader \in CardRead /\ BoardTyped
  BY <1>1, ReadsAre DEF BoardInv, CardsOK, ListOK, ListPcs
<1> DEFINE n == Cardinality(Offered)
<1>3. n \in Nat
  BY <1>2, OfferedIs
<1>4. reader' = [[reader EXCEPT !.total = n] EXCEPT !.pc = "cheapest"]
  BY DEF CountProducts, Goto
<1> HIDE DEF n
<1>5. /\ reader' \in CardRead /\ reader'.pc = "cheapest" /\ reader'.total = n
      /\ reader'.near = reader.near /\ reader'.rows = reader.rows
  BY <1>2, <1>3, <1>4 DEF CardRead, CardPcs
<1>6. Offered' = Offered /\ BoardTyped'
  BY <1>1, <1>2, <1>5, CardStep
<1>7. CardsOK'
  BY <1>1, <1>2, <1>5, <1>6 DEF CardsOK, n
<1> QED
  BY <1>6, <1>7 DEF BoardInv

LEMMA FindsCheapest ==
  ASSUME BoardInv, FindCheapest
  PROVE  BoardInv'
<1>1. reader.pc = "cheapest" /\ UNCHANGED <<board, writes, changed, came, gone>>
  BY DEF FindCheapest, Goto
<1>2. /\ CardsOK /\ reader \in CardRead /\ BoardTyped /\ DOMAIN reader.rows = {}
      /\ changed = {} => reader.total = Cardinality(Offered)
  BY <1>1, ReadsAre DEF BoardInv, CardsOK, ListOK, ListPcs
<1>3. PICK all \in SetToSeqs(Offered) :
         LET some == IF reader.near THEN all ELSE PageOf(all)
         IN Goto(IF some = <<>> THEN "cards" ELSE "load",
                 [reader EXCEPT !.ids = [i \in DOMAIN some |-> Cheapest(some[i])]])
  BY DEF FindCheapest
<1> DEFINE some == IF reader.near THEN all ELSE PageOf(all)
           ids == [i \in DOMAIN some |-> Cheapest(some[i])]
           pc == IF some = <<>> THEN "cards" ELSE "load"
<1>4. reader' = [[reader EXCEPT !.ids = ids] EXCEPT !.pc = pc]
  BY <1>3 DEF Goto
<1>5. /\ all \in Seq(Offered) /\ Len(all) \in Nat
      /\ \A i, j \in 1..Len(all) : i # j => all[i] # all[j]
      /\ \A g \in Offered : \E i \in 1..Len(all) : all[i] = g
  BY <1>2, OfferedIs, Orders
<1>6. Len(all) = Cardinality(Offered)
  <2> DEFINE T == {all[i] : i \in 1..Len(all)}
  <2>a. DOMAIN all = 1..Len(all) /\ Len(all) \in Nat /\ \A i, j \in 1..Len(all) : i # j => all[i] # all[j]
    BY <1>5
  <2>1. Cardinality(T) = Len(all)
    BY ONLY <2>a, ImageOf
  <2>2. \A i \in 1..Len(all) : all[i] \in Offered
    BY <1>5
  <2>3. T = Offered
    BY <1>5, <2>2
  <2> QED
    BY <2>1, <2>3
<1>p. reader.page \in Nat \ {0} /\ PageSize \in Nat \ {0} /\ reader.total \in Nat /\ reader.near \in BOOLEAN
  BY <1>2, PriceBoardAssumption DEF CardRead
<1>7. /\ some \in Seq(Offered) /\ Len(some) \in Nat
      /\ \A i, j \in 1..Len(some) : i # j => some[i] # some[j]
      /\ ~ reader.near /\ reader.total = Cardinality(Offered) => Len(some) = CardsLeft
  <2>1. CASE reader.near
    BY <1>5, <2>1
  <2>2. CASE ~ reader.near
    <3>1. PICK from : from = Skipped
      OBVIOUS
    <3>2. some = PageOf(all)
      BY <2>2
    <3>3. /\ from \in Nat /\ some \in Seq(Offered)
          /\ Len(some) = IF from >= Len(all) THEN 0
                         ELSE IF from + PageSize <= Len(all) THEN PageSize ELSE Len(all) - from
          /\ \A i \in 1..Len(some) : from + i \in 1..Len(all) /\ some[i] = all[from + i]
      <4> HIDE DEF some
      <4>1. all \in Seq(Offered) /\ reader.page \in Nat \ {0}
        BY <1>5, <1>p
      <4>2. PICK part : part = some
        OBVIOUS
      <4>3. part = PageOf(all)
        BY <3>2, <4>2
      <4>4. /\ from \in Nat /\ part \in Seq(Offered)
            /\ Len(part) = IF from >= Len(all) THEN 0
                           ELSE IF from + PageSize <= Len(all) THEN PageSize ELSE Len(all) - from
            /\ \A i \in 1..Len(part) : from + i \in 1..Len(all) /\ part[i] = all[from + i]
        BY ONLY <3>1, <4>1, <4>3, PageIs
      <4> QED
        BY <4>2, <4>4
    <3> HIDE DEF some
    <3>4. Len(some) \in Nat
      BY <3>3
    <3>5. ASSUME NEW i \in 1..Len(some), NEW j \in 1..Len(some), i # j PROVE some[i] # some[j]
      <4>1. from + i # from + j
        BY <3>3, <3>4, <3>5
      <4> QED
        BY <1>5, <3>3, <4>1
    <3>6. ASSUME reader.total = Cardinality(Offered) PROVE Len(some) = CardsLeft
      <4> DEFINE left == Len(all) - from
      <4>1. left \in Int
        BY <1>5, <3>3
      <4>2. CardsLeft = Cardinality(1..PageSize \cap 1..left)
        BY <1>6, <3>1, <3>6 DEF CardsLeft, Skipped
      <4>3. CardsLeft = IF left <= 0 THEN 0 ELSE IF PageSize <= left THEN PageSize ELSE left
        <5> HIDE DEF left
        <5> QED
          BY <1>p, <4>1, <4>2, BothIntervals
      <4> QED
        BY <1>5, <1>p, <3>3, <4>3
    <3> QED
      BY <3>3, <3>4, <3>5, <3>6
  <2> QED
    BY <2>1, <2>2
<1> HIDE DEF some
<1>8. ASSUME NEW i \in 1..Len(some)
      PROVE  /\ ids[i] \in Offers(some[i]) /\ some[i] \in Offered
             /\ ids[i] \in Prices /\ ids[i] \in Priced /\ board[ids[i]].goods = some[i] /\ Least(ids[i])
  <2>1. PICK g : g = some[i]
    OBVIOUS
  <2>2. g \in Offered
    BY <1>7, <2>1
  <2>3. Offers(g) # {}
    BY <2>2 DEF Offered
  <2>4. Cheapest(g) \in Offers(g) /\ \A y \in Offers(g) : Amount(Cheapest(g)) <= Amount(y)
    BY <1>2, <2>3, CheapestOf
  <2>5. ids[i] = Cheapest(g)
    BY <1>7, <2>1
  <2> HIDE DEF ids
  <2>6. board[ids[i]].goods = g /\ ids[i] \in Prices /\ ids[i] \in Offers(g)
    BY <1>2, <2>4, <2>5, OffersAre
  <2>7. ids[i] \in Priced
    BY <2>6 DEF Offers
  <2>8. Least(ids[i])
    BY <2>4, <2>5, <2>6 DEF Least
  <2> QED
    BY <2>1, <2>2, <2>6, <2>7, <2>8
<1>9. DOMAIN ids = 1..Len(some) /\ ids \in Seq(Prices) /\ Len(ids) = Len(some)
  <2>1. DOMAIN ids = 1..Len(some)
    BY <1>7
  <2>2. ids = [i \in 1..Len(some) |-> ids[i]]
    BY <2>1
  <2> HIDE DEF ids
  <2>3. ids \in [1..Len(some) -> Prices]
    BY <1>8, <2>2
  <2> QED
    BY <1>7, <2>1, <2>3
<1>10. some = <<>> <=> Len(some) = 0
  BY <1>7
<1> HIDE DEF ids
<1>11. pc \in {"cards", "load"} /\ (pc = "load" => Len(ids) # 0) /\ (pc = "cards" => Len(ids) = 0)
  BY <1>9, <1>10
<1> HIDE DEF pc
<1>12. reader' \in CardRead
  BY <1>2, <1>4, <1>9, <1>11 DEF CardRead, CardPcs
<1>13. /\ reader'.pc = pc /\ reader'.ids = ids /\ reader'.near = reader.near
       /\ reader'.total = reader.total /\ reader'.page = reader.page /\ reader'.rows = reader.rows
  BY <1>2, <1>4 DEF CardRead
<1>14. /\ Priced' = Priced /\ Offered' = Offered /\ BoardTyped' /\ changed' = changed
       /\ \A x : board'[x] = board[x] /\ (Least(x)' <=> Least(x))
  BY <1>1, <1>2, <1>13, CardStep
<1>15. \A x \in Range(ids) : \E i \in 1..Len(ids) : x = ids[i]
  BY <1>9 DEF Range
<1>16. IdsFound'
  <2>1. ASSUME NEW i \in 1..Len(ids), NEW j \in 1..Len(ids), i # j PROVE ids[i] # ids[j]
    BY <1>7, <1>8, <1>9, <2>1
  <2>2. Range(ids) \subseteq Priced
    BY <1>8, <1>9, <1>15
  <2>3. changed = {} /\ ~ reader.near => Len(ids) = CardsLeft
    BY <1>2, <1>7, <1>9
  <2>4. CardsLeft' = CardsLeft
    BY <1>13 DEF CardsLeft
  <2>5. pc # "cards" => ids # <<>>
    BY <1>11
  <2> QED
    BY <1>13, <1>14, <2>1, <2>2, <2>3, <2>4, <2>5 DEF IdsFound
<1>17. IdsFresh'
  <2>1. ASSUME NEW x \in Range(ids), NEW y \in Range(ids), x # y PROVE board[x].goods # board[y].goods
    <3>1. PICK i \in 1..Len(ids), j \in 1..Len(ids) : x = ids[i] /\ y = ids[j]
      BY <1>15
    <3> QED
      BY <1>7, <1>8, <1>9, <2>1, <3>1
  <2>2. \A x \in Range(ids) : Least(x)
    BY <1>8, <1>9, <1>15
  <2> QED
    BY <1>13, <1>14, <2>1, <2>2 DEF IdsFresh
<1>18. pc = "cards" => DOMAIN reader.rows = Range(ids)
  BY <1>2, <1>11, <1>15
<1>19. RowsFresh' \/ pc = "load"
  BY <1>2, <1>11, <1>13, <1>18 DEF RowsFresh
<1>20. SumsFresh' /\ LowsFresh' /\ VotesFresh'
  BY <1>2, <1>13 DEF SumsFresh, LowsFresh, VotesFresh
<1>21. CardsOK'
  BY <1>2, <1>11, <1>12, <1>13, <1>14, <1>16, <1>17, <1>19, <1>20 DEF CardsOK
<1> QED
  BY <1>14, <1>21 DEF BoardInv

LEMMA LoadsCheapest ==
  ASSUME BoardInv, LoadCheapest
  PROVE  BoardInv'
<1>1. reader.pc = "load" /\ UNCHANGED <<board, writes, changed, came, gone>>
  BY DEF LoadCheapest, Goto
<1>2. /\ CardsOK /\ reader \in CardRead /\ BoardTyped /\ IdsFound /\ IdsFresh
      /\ changed = {} => reader.total = Cardinality(Offered)
  BY <1>1, ReadsAre DEF BoardInv, CardsOK, ListOK, ListPcs
<1> DEFINE live == Range(reader.ids) \cap Priced
           loaded == [x \in live |-> board[x]]
<1>3. reader' = [[reader EXCEPT !.rows = loaded] EXCEPT !.pc = "aggregate"]
  BY DEF LoadCheapest, Goto
<1>4. live \in SUBSET Prices /\ loaded \in [live -> PricedRow]
  <2>1. \A x \in Priced : x \in Prices /\ board[x] \in PricedRow
    BY <1>2, RowsAre DEF Priced, BoardTyped
  <2> QED
    BY <2>1
<1>5. loaded \in UNION {[S -> PricedRow] : S \in SUBSET Prices}
  <2> HIDE DEF live, loaded
  <2> QED
    BY <1>4
<1>6. DOMAIN loaded = live /\ \A x \in live : loaded[x] = board[x]
  OBVIOUS
<1>7. changed = {} => live = Range(reader.ids)
  BY <1>2 DEF IdsFound
<1>8. /\ \A x, y \in live : x # y => board[x].goods # board[y].goods \/ board[x].goods \in changed
      /\ \A x \in live : board[x].goods \in changed \/ Least(x)
  BY <1>2 DEF IdsFresh
<1>9. live \subseteq Range(reader.ids)
  OBVIOUS
<1> HIDE DEF live, loaded
<1>10. reader' \in CardRead
  BY <1>2, <1>3, <1>5 DEF CardRead, CardPcs
<1>11. /\ reader'.pc = "aggregate" /\ reader'.rows = loaded /\ reader'.ids = reader.ids
       /\ reader'.near = reader.near /\ reader'.total = reader.total /\ reader'.page = reader.page
  BY <1>2, <1>3 DEF CardRead
<1>12. /\ Priced' = Priced /\ Offered' = Offered /\ BoardTyped' /\ changed' = changed
       /\ \A x : board'[x] = board[x] /\ (Least(x)' <=> Least(x))
  BY <1>1, <1>2, <1>11, CardStep
<1>13. CardsLeft' = CardsLeft
  BY <1>11 DEF CardsLeft
<1>14. IdsFound'
  BY <1>1, <1>2, <1>11, <1>12, <1>13 DEF IdsFound
<1>15. RowsFresh'
  BY <1>6, <1>7, <1>8, <1>9, <1>11, <1>12 DEF RowsFresh, AsRead
<1>16. CardsOK'
  BY <1>2, <1>10, <1>11, <1>12, <1>14, <1>15 DEF CardsOK
<1> QED
  BY <1>12, <1>16 DEF BoardInv

\* What a product's offers sum to.
LEMMA AggregatedType ==
  ASSUME BoardTyped, NEW g, Offers(g) # {}
  PROVE  /\ Aggregated(Offers(g)) \in SumsRow
         /\ LET found == Aggregated(Offers(g))
                A == {Amount(y) : y \in Offers(g)}
            IN /\ found.max = Max(A) /\ found.count = Cardinality(Offers(g))
               /\ found.sum = SumFunctionOnSet([x \in Offers(g) |-> Amount(x)], Offers(g))
               /\ found.shops \in 1..Cardinality(Offers(g))
<1> DEFINE xs == Offers(g)
           A == {Amount(y) : y \in xs}
           w == [x \in xs |-> Amount(x)]
           T == {board[x].shop : x \in xs}
           f == [x \in xs |-> board[x].shop]
<1>1. /\ A \in SUBSET Nat /\ IsFiniteSet(A) /\ A # {}
      /\ IsFiniteSet(xs) /\ Cardinality(xs) \in Nat /\ Cardinality(xs) # 0
  <2>1. xs \in SUBSET Offers(g)
    OBVIOUS
  <2> QED
    BY <2>1, AmountsOf
<1>2. Max(A) \in Nat
  <2> HIDE DEF A
  <2>1. Max(A) \in A
    BY <1>1, GreatestOf
  <2> QED
    BY <1>1, <2>1
<1>3. SumFunctionOnSet(w, xs) \in Nat
  <2>1. \A x \in xs : w[x] \in Nat
    BY OffersAre
  <2> HIDE DEF w, xs
  <2> QED
    BY <1>1, <2>1, SumType
<1>4. IsFiniteSet(T) /\ Cardinality(T) <= Cardinality(xs)
  <2>1. f \in [xs -> T] /\ \A t \in T : \E x \in xs : f[x] = t
    OBVIOUS
  <2> HIDE DEF f, T, xs
  <2>2. f \in Surjection(xs, T)
    BY <2>1, Zenon DEF Surjection
  <2> QED
    BY <1>1, <2>2, FS_Surjection
<1>5. T # {}
  OBVIOUS
<1>6. Cardinality(T) \in Nat /\ Cardinality(T) # 0
  <2> HIDE DEF T
  <2> QED
    BY <1>4, <1>5, FS_CardinalityType, FS_EmptySet
<1>7. Aggregated(Offers(g)) = [max |-> Max(A), sum |-> SumFunctionOnSet(w, xs),
                               count |-> Cardinality(xs), shops |-> Cardinality(T)]
  BY DEF Aggregated
<1> HIDE DEF A, w, T, xs
<1>8. Cardinality(T) \in 1..Cardinality(xs)
  BY <1>1, <1>4, <1>6
<1> QED
  BY <1>1, <1>2, <1>3, <1>6, <1>7, <1>8 DEF SumsRow, A, w, xs

LEMMA Aggregates ==
  ASSUME BoardInv, Aggregate
  PROVE  BoardInv'
<1>1. reader.pc = "aggregate" /\ UNCHANGED <<board, writes, changed, came, gone>>
  BY DEF Aggregate, Goto
<1>2. /\ CardsOK /\ reader \in CardRead /\ BoardTyped /\ IdsFound /\ RowsFresh
      /\ changed = {} => reader.total = Cardinality(Offered)
  BY <1>1, ReadsAre DEF BoardInv, CardsOK, ListOK, ListPcs
<1>3. PICK S \in SUBSET Prices : reader.rows \in [S -> PricedRow]
  BY <1>2 DEF CardRead
<1>4. ReadGoods \subseteq Goods
  BY <1>3, RowsAre DEF ReadGoods
<1>5. CASE ReadGoods = {}
  <2>1. reader' = [reader EXCEPT !.pc = "failed"]
    BY <1>5 DEF Aggregate, Goto
  <2>2. reader' \in CardRead /\ reader'.pc = "failed" /\ reader'.near = reader.near
    BY <1>2, <2>1 DEF CardRead
  <2>3. BoardTyped' /\ changed' = changed
    BY <1>1, <1>2, <2>2, CardStep
  <2>4. DOMAIN reader.rows = {}
    BY <1>5 DEF ReadGoods
  <2>5. Range(reader.ids) # {}
    <3>1. reader.ids # <<>> /\ reader.ids \in Seq(Prices)
      BY <1>1, <1>2 DEF IdsFound, CardRead
    <3>2. 1 \in DOMAIN reader.ids
      BY <3>1
    <3> QED
      BY <3>2 DEF Range
  <2>6. changed # {}
    BY <1>2, <2>4, <2>5 DEF RowsFresh
  <2>7. CardsOK'
    BY <2>2, <2>3, <2>6 DEF CardsOK
  <2> QED
    BY <2>3, <2>7 DEF BoardInv
<1>6. CASE ReadGoods # {}
  <2> DEFINE D == ReadGoods \cap Offered
             sums == [g \in D |-> Aggregated(Offers(g))]
  <2>1. reader' = [[reader EXCEPT !.sums = sums] EXCEPT !.pc = "lowest"]
    BY <1>6 DEF Aggregate, Goto
  <2>2. \A g \in D : Aggregated(Offers(g)) \in SumsRow
    BY <1>2, AggregatedType DEF Offered
  <2>3. D \in SUBSET Goods /\ sums \in [D -> SumsRow]
    BY <1>4, <2>2
  <2>4. sums \in UNION {[T -> SumsRow] : T \in SUBSET Goods}
    <3> HIDE DEF sums, D
    <3> QED
      BY <2>3
  <2>5. DOMAIN sums = D /\ \A g \in D : sums[g] = Aggregated(Offers(g))
    OBVIOUS
  <2> HIDE DEF sums
  <2>6. reader' \in CardRead
    BY <1>2, <2>1, <2>4 DEF CardRead, CardPcs
  <2>7. /\ reader'.pc = "lowest" /\ reader'.sums = sums /\ reader'.ids = reader.ids /\ reader'.rows = reader.rows
        /\ reader'.near = reader.near /\ reader'.total = reader.total /\ reader'.page = reader.page
    BY <1>2, <2>1 DEF CardRead
  <2>8. /\ Priced' = Priced /\ Offered' = Offered /\ BoardTyped' /\ changed' = changed
        /\ \A x : Amount(x)' = Amount(x) /\ board'[x] = board[x] /\ (Least(x)' <=> Least(x))
        /\ \A g : Offers(g)' = Offers(g)
    BY <1>1, <1>2, <2>7, CardStep
  <2>9. IdsFound' /\ RowsFresh'
    <3>1. CardsLeft' = CardsLeft
      BY <2>7 DEF CardsLeft
    <3>2. IdsFound'
      BY <1>1, <1>2, <2>7, <2>8, <3>1 DEF IdsFound
    <3> QED
      BY <1>2, <2>7, <2>8, <3>2 DEF RowsFresh, AsRead
  <2>10. SumsFresh'
    <3> SUFFICES ASSUME NEW x \in DOMAIN reader.rows, NEW g, g = reader.rows[x].goods, g \notin changed
                 PROVE  g \in DOMAIN sums /\ sums[g] = Aggregated(Offers(g))'
      BY <2>7, <2>8 DEF SumsFresh, AsRead
    <3>1. reader.rows[x] = board[x] /\ Least(x) /\ board[x].goods = g
      BY <1>2 DEF RowsFresh, AsRead
    <3>2. x \in Offers(g)
      BY <3>1 DEF Least
    <3>3. g \in D
      BY <1>2, <3>2, OfferedIs DEF ReadGoods
    <3>4. Aggregated(Offers(g))' = Aggregated(Offers(g))
      BY <1>1, <2>7, CardStep
    <3> QED
      BY <2>5, <3>3, <3>4
  <2>11. CardsOK'
    BY <1>2, <2>6, <2>7, <2>8, <2>9, <2>10 DEF CardsOK
  <2> QED
    BY <2>8, <2>11 DEF BoardInv
<1> QED
  BY <1>5, <1>6

\* The statements after the sums were found leave them right.
LEMMA SumsStay ==
  ASSUME BoardTyped, SumsFresh, UNCHANGED <<board, writes, changed, came, gone>>,
         reader'.near = reader.near, reader'.rows = reader.rows, reader'.sums = reader.sums
  PROVE  SumsFresh'
<1>1. /\ changed' = changed /\ \A x : Amount(x)' = Amount(x) /\ board'[x] = board[x]
      /\ \A g : Offers(g)' = Offers(g)
  BY CardStep
<1> SUFFICES ASSUME NEW x \in DOMAIN reader.rows, NEW g, g = reader.rows[x].goods, g \notin changed
             PROVE  g \in DOMAIN reader.sums /\ reader.sums[g] = Aggregated(Offers(g))'
  BY <1>1 DEF SumsFresh, AsRead
<1>2. g \in DOMAIN reader.sums /\ reader.sums[g] = Aggregated(Offers(g))
  BY DEF SumsFresh, AsRead
<1>3. Aggregated(Offers(g))' = Aggregated(Offers(g))
  BY CardStep
<1> QED
  BY <1>2, <1>3

LEMMA FindsLowest ==
  ASSUME BoardInv, FindLowest
  PROVE  BoardInv'
<1>1. reader.pc = "lowest" /\ UNCHANGED <<board, writes, changed, came, gone>>
  BY DEF FindLowest, Goto
<1>2. /\ CardsOK /\ reader \in CardRead /\ BoardTyped /\ IdsFound /\ RowsFresh /\ SumsFresh
      /\ changed = {} => reader.total = Cardinality(Offered)
  BY <1>1, ReadsAre DEF BoardInv, CardsOK, ListOK, ListPcs
<1>3. PICK S \in SUBSET Prices : reader.rows \in [S -> PricedRow]
  BY <1>2 DEF CardRead
<1>4. ReadGoods \subseteq Goods
  BY <1>3, RowsAre DEF ReadGoods
<1> DEFINE D == {h \in ReadGoods : WeekOffers(h) # {}}
           lows == [g \in D |-> Min({Amount(x) : x \in WeekOffers(g)})]
<1>5. reader' = [[reader EXCEPT !.lows = lows] EXCEPT !.pc = "confirms"]
  BY DEF FindLowest, Goto, WeekOffers
<1>6. ASSUME NEW g \in D PROVE Min({Amount(x) : x \in WeekOffers(g)}) \in Nat
  <2> DEFINE A == {Amount(x) : x \in WeekOffers(g)}
  <2>1. WeekOffers(g) \in SUBSET Offers(g) /\ WeekOffers(g) # {}
    BY DEF WeekOffers
  <2>2. A \in SUBSET Nat /\ A # {}
    <3> HIDE DEF A
    <3>1. PICK W : W = WeekOffers(g)
      OBVIOUS
    <3>2. {Amount(x) : x \in W} \in SUBSET Nat /\ {Amount(x) : x \in W} # {}
      BY <1>2, <2>1, <3>1, AmountsOf
    <3> QED
      BY <3>1, <3>2 DEF A
  <2> HIDE DEF A
  <2>3. Min(A) \in Nat
    BY <2>2, LeastOf
  <2> QED
    BY <2>3 DEF A
<1>7. D \in SUBSET Goods /\ lows \in [D -> Nat]
  BY <1>4, <1>6
<1>8. lows \in UNION {[T -> Nat] : T \in SUBSET Goods}
  <2> HIDE DEF lows, D
  <2> QED
    BY <1>7
<1>9. DOMAIN lows = D /\ \A g \in D : lows[g] = Min({Amount(x) : x \in WeekOffers(g)})
  OBVIOUS
<1> HIDE DEF lows
<1>10. reader' \in CardRead
  BY <1>2, <1>5, <1>8 DEF CardRead, CardPcs
<1>11. /\ reader'.pc = "confirms" /\ reader'.lows = lows /\ reader'.ids = reader.ids /\ reader'.rows = reader.rows
       /\ reader'.near = reader.near /\ reader'.total = reader.total /\ reader'.page = reader.page
       /\ reader'.sums = reader.sums
  BY <1>2, <1>5 DEF CardRead
<1>12. /\ Priced' = Priced /\ Offered' = Offered /\ BoardTyped' /\ changed' = changed
       /\ \A x : Amount(x)' = Amount(x) /\ board'[x] = board[x] /\ (Least(x)' <=> Least(x))
       /\ \A g : WeekOffers(g)' = WeekOffers(g)
  BY <1>1, <1>2, <1>11, CardStep
<1>13. IdsFound' /\ RowsFresh'
  <2>1. CardsLeft' = CardsLeft
    BY <1>11 DEF CardsLeft
  <2>2. IdsFound'
    BY <1>1, <1>2, <1>11, <1>12, <2>1 DEF IdsFound
  <2> QED
    BY <1>2, <1>11, <1>12, <2>2 DEF RowsFresh, AsRead
<1>14. SumsFresh'
  BY <1>1, <1>2, <1>11, SumsStay
<1>15. LowsFresh'
  <2> SUFFICES ASSUME NEW x \in DOMAIN reader.rows, NEW g, g = reader.rows[x].goods, g \notin changed
               PROVE  IF WeekOffers(g)' = {} THEN g \notin DOMAIN lows
                      ELSE g \in DOMAIN lows /\ lows[g] = Min({Amount(z) : z \in WeekOffers(g)}')
    BY <1>11, <1>12 DEF LowsFresh, AsRead
  <2>1. g \in ReadGoods
    BY DEF ReadGoods
  <2>2. WeekOffers(g)' = WeekOffers(g) /\ {Amount(z) : z \in WeekOffers(g)}' = {Amount(z) : z \in WeekOffers(g)}
    BY <1>12
  <2> QED
    BY <1>9, <2>1, <2>2
<1>16. CardsOK'
  BY <1>2, <1>10, <1>11, <1>12, <1>13, <1>14, <1>15 DEF CardsOK
<1> QED
  BY <1>12, <1>16 DEF BoardInv

LEMMA CountsConfirms ==
  ASSUME BoardInv, CountConfirms
  PROVE  BoardInv'
<1>1. reader.pc = "confirms" /\ UNCHANGED <<board, writes, changed, came, gone>>
  BY DEF CountConfirms, Goto
<1>2. /\ CardsOK /\ reader \in CardRead /\ BoardTyped /\ IdsFound /\ RowsFresh /\ SumsFresh /\ LowsFresh
      /\ changed = {} => reader.total = Cardinality(Offered)
  BY <1>1, ReadsAre DEF BoardInv, CardsOK, ListOK, ListPcs
<1> DEFINE live == Range(reader.ids) \cap Priced
           votes == [x \in live |-> board[x].confirms]
<1>3. reader' = [[reader EXCEPT !.votes = votes] EXCEPT !.pc = "cards"]
  BY DEF CountConfirms, Goto
<1>4. live \in SUBSET Prices /\ votes \in [live -> Nat]
  <2>1. \A r \in BoardRow : r.confirms \in Nat
    BY PriceBoardAssumption DEF BoardRow, NoPrice
  <2>2. \A x \in Priced : x \in Prices /\ board[x] \in BoardRow
    BY <1>2 DEF Priced, BoardTyped
  <2> QED
    BY <2>1, <2>2
<1>5. votes \in UNION {[S -> Nat] : S \in SUBSET Prices}
  <2> HIDE DEF live, votes
  <2> QED
    BY <1>4
<1>6. DOMAIN votes = live /\ \A x \in live : votes[x] = board[x].confirms
  OBVIOUS
<1> HIDE DEF votes
<1>7. reader' \in CardRead
  BY <1>2, <1>3, <1>5 DEF CardRead, CardPcs
<1>8. /\ reader'.pc = "cards" /\ reader'.votes = votes /\ reader'.ids = reader.ids /\ reader'.rows = reader.rows
      /\ reader'.near = reader.near /\ reader'.total = reader.total /\ reader'.page = reader.page
      /\ reader'.sums = reader.sums /\ reader'.lows = reader.lows
  BY <1>2, <1>3 DEF CardRead
<1>9. /\ Priced' = Priced /\ Offered' = Offered /\ BoardTyped' /\ changed' = changed
      /\ \A x : Amount(x)' = Amount(x) /\ board'[x] = board[x] /\ (Least(x)' <=> Least(x))
      /\ \A g : WeekOffers(g)' = WeekOffers(g)
  BY <1>1, <1>2, <1>8, CardStep
<1>10. IdsFound' /\ RowsFresh'
  <2>1. CardsLeft' = CardsLeft
    BY <1>8 DEF CardsLeft
  <2>2. IdsFound'
    BY <1>1, <1>2, <1>8, <1>9, <2>1 DEF IdsFound
  <2> QED
    BY <1>2, <1>8, <1>9, <2>2 DEF RowsFresh, AsRead
<1>11. SumsFresh'
  BY <1>1, <1>2, <1>8, SumsStay
<1>12. LowsFresh'
  <2> SUFFICES ASSUME NEW x \in DOMAIN reader.rows, NEW g, g = reader.rows[x].goods, g \notin changed
               PROVE  IF WeekOffers(g)' = {} THEN g \notin DOMAIN reader.lows
                      ELSE g \in DOMAIN reader.lows /\ reader.lows[g] = Min({Amount(z) : z \in WeekOffers(g)}')
    BY <1>8, <1>9 DEF LowsFresh, AsRead
  <2>1. WeekOffers(g)' = WeekOffers(g) /\ {Amount(z) : z \in WeekOffers(g)}' = {Amount(z) : z \in WeekOffers(g)}
    BY <1>9
  <2>2. IF WeekOffers(g) = {} THEN g \notin DOMAIN reader.lows
        ELSE g \in DOMAIN reader.lows /\ reader.lows[g] = Min({Amount(z) : z \in WeekOffers(g)})
    BY <1>2 DEF LowsFresh, AsRead
  <2> QED
    BY <2>1, <2>2
<1>13. VotesFresh'
  <2>1. ASSUME NEW x \in DOMAIN reader.rows, AsRead(x) PROVE x \in live
    <3>1. reader.rows[x] = board[x] /\ Least(x) /\ x \in Range(reader.ids)
      BY <1>2, <2>1 DEF RowsFresh
    <3>2. x \in Priced
      BY <3>1 DEF Least, Offers
    <3> QED
      BY <3>1, <3>2
  <2>2. \A x : AsRead(x)' <=> AsRead(x)
    BY <1>8, <1>9 DEF AsRead
  <2> HIDE DEF live
  <2> QED
    BY <1>6, <1>8, <1>9, <2>1, <2>2 DEF VotesFresh
<1>14. CardsOK'
  BY <1>2, <1>7, <1>8, <1>9, <1>10, <1>11, <1>12, <1>13 DEF CardsOK
<1> QED
  BY <1>9, <1>14 DEF BoardInv

LEMMA TimesGrow ==
  ASSUME NEW d \in Nat, NEW a \in Nat, NEW b \in Nat, a <= b
  PROVE  d * a <= d * b /\ d * a \in Nat /\ d * b \in Nat
<1>1. PICK k \in Nat : b = a + k
  <2>1. b - a \in Nat /\ b = a + (b - a)
    OBVIOUS
  <2> QED
    BY <2>1
<1>2. d * b = d * a + d * k /\ d * a \in Nat /\ d * k \in Nat
  BY <1>1
<1> QED
  BY <1>2

\* A sum of n numbers from least to most.
LEMMA SumBetween ==
  ASSUME NEW w, NEW S, IsFiniteSet(S), NEW least \in Nat, NEW most \in Nat,
         \A x \in S : w[x] \in Nat /\ least <= w[x] /\ w[x] <= most
  PROVE  /\ Cardinality(S) * least <= SumFunctionOnSet(w, S)
         /\ SumFunctionOnSet(w, S) <= Cardinality(S) * most
<1> DEFINE sum(T) == SumFunctionOnSet(w, T)
           n(T) == Cardinality(T)
           Fits(T) == n(T) * least <= sum(T) /\ sum(T) <= n(T) * most
           Bad == {T \in SUBSET S : ~ Fits(T)}
<1> SUFFICES ASSUME Bad # {} PROVE FALSE
  <2>1. S \in SUBSET S
    OBVIOUS
  <2> QED
    BY <2>1
<1>1. PICK T \in Bad : \A X \in SUBSET T : X # T => X \notin Bad
  <2>1. Bad \in SUBSET (SUBSET S)
    OBVIOUS
  <2> HIDE DEF Bad
  <2> QED
    BY <2>1, SmallestSet
<1>2. IsFiniteSet(T) /\ T \in SUBSET S
  BY <1>1, FS_Subset
<1>3. CASE T = {}
  <2>1. sum(T) = 0 /\ n(T) = 0
    BY <1>3, SumOfNone, FS_EmptySet
  <2>2. 0 * least = 0 /\ 0 * most = 0
    OBVIOUS
  <2> QED
    BY <1>1, <2>1, <2>2
<1>4. CASE T # {}
  <2>1. PICK x : x \in T
    BY <1>4
  <2> DEFINE U == T \ {x}
  <2>2. U \in SUBSET T /\ U # T /\ U \in SUBSET S /\ IsFiniteSet(U)
    BY <1>2, <2>1, FS_RemoveElement
  <2>3. U \notin Bad
    <3> HIDE DEF Bad, U
    <3> QED
      BY <1>1, <2>2
  <2>4. Fits(U)
    <3> HIDE DEF U, Fits
    <3> QED
      BY <2>2, <2>3
  <2>5. sum(T) = w[x] + sum(U)
    BY <1>2, <2>1, SumOfAny
  <2>6. n(U) = n(T) - 1 /\ n(T) \in Nat /\ n(U) \in Nat
    BY <1>2, <2>1, <2>2, FS_RemoveElement, FS_CardinalityType
  <2>7. sum(U) \in Nat
    BY <2>2, SumType
  <2>8. w[x] \in Nat /\ least <= w[x] /\ w[x] <= most
    BY <1>2, <2>1
  <2> HIDE DEF U, n, sum
  <2>9. n(T) * least = n(U) * least + least /\ n(T) * most = n(U) * most + most
    <3>1. n(T) = n(U) + 1
      BY <2>6
    <3> QED
      BY <2>6, <3>1
  <2>10. n(U) * least \in Nat /\ n(U) * most \in Nat
    BY <2>6
  <2>11. n(U) * least <= sum(U) /\ sum(U) <= n(U) * most
    BY <2>4
  <2> DEFINE a == n(U) * least
             b == n(U) * most
  <2>12. a + least <= w[x] + sum(U) /\ w[x] + sum(U) <= b + most
    <3>1. a \in Nat /\ b \in Nat /\ a <= sum(U) /\ sum(U) <= b
      BY <2>10, <2>11
    <3> HIDE DEF a, b
    <3> QED
      BY <2>7, <2>8, <3>1
  <2>13. Fits(T)
    BY <2>5, <2>9, <2>12
  <2> QED
    BY <1>1, <2>13
<1> QED
  BY <1>3, <1>4

\* The average, to the nearest.
LEMMA AverageBetween ==
  ASSUME NEW n \in Nat \ {0}, NEW s \in Nat, NEW least \in Nat, NEW most \in Nat,
         n * least <= s, s <= n * most, NEW a, a = (2 * s + n) \div (2 * n)
  PROVE  least <= a /\ a <= most
<1> DEFINE d == 2 * n
           t == 2 * s + n
<1>1. d \in Nat \ {0} /\ t \in Nat /\ a = t \div d
  OBVIOUS
<1>2. d * least <= t
  <2>1. n * least \in Nat /\ d * least = 2 * (n * least)
    OBVIOUS
  <2> QED
    BY <2>1
<1>3. t < d * (most + 1)
  <2>1. n * most \in Nat /\ d * (most + 1) = 2 * (n * most) + 2 * n
    OBVIOUS
  <2> QED
    BY <2>1
<1> HIDE DEF d, t
<1>4. a \in Nat /\ d * a <= t /\ t < d * (a + 1)
  BY <1>1
<1>5. least <= a
  <2> SUFFICES ASSUME ~ (least <= a) PROVE FALSE
    OBVIOUS
  <2>1. a + 1 \in Nat /\ a + 1 <= least
    BY <1>4
  <2>2. d * (a + 1) <= d * least /\ d * (a + 1) \in Nat /\ d * least \in Nat
    BY <1>1, <2>1, TimesGrow
  <2> QED
    BY <1>1, <1>2, <1>4, <2>2
<1>6. a <= most
  <2> SUFFICES ASSUME ~ (a <= most) PROVE FALSE
    OBVIOUS
  <2>1. most + 1 \in Nat /\ most + 1 <= a
    BY <1>4
  <2>2. d * (most + 1) <= d * a /\ d * (most + 1) \in Nat /\ d * a \in Nat
    BY <1>1, <1>4, <2>1, TimesGrow
  <2> QED
    BY <1>1, <1>3, <1>4, <2>2
<1> QED
  BY <1>5, <1>6

LEMMA CardsFit ==
  ASSUME BoardInv
  PROVE  CardsConsistent
<1>1. ASSUME reader.pc = "failed" PROVE changed # {}
  BY <1>1, ReadsAre DEF BoardInv, CardsOK, ListOK
<1>2. ASSUME reader.pc = "cards"
      PROVE  /\ BoardTyped /\ reader \in CardRead /\ IdsFound /\ RowsFresh /\ SumsFresh /\ LowsFresh /\ VotesFresh
             /\ changed = {} => reader.total = Cardinality(Offered)
  BY <1>2, ReadsAre DEF BoardInv, CardsOK, ListOK, CardPcs
<1>3. ASSUME reader.pc = "cards", NEW x \in DOMAIN reader.rows, NEW g, g = reader.rows[x].goods, g \notin changed
      PROVE  LET card == Card(x)
             IN /\ card.averaged /\ card.min <= card.average /\ card.average <= card.max
                /\ card.min = Min({Amount(y) : y \in Offers(g)})
                /\ card.max = Max({Amount(y) : y \in Offers(g)})
                /\ card.shops \in 1..Cardinality(Offers(g))
                /\ card.lowest7d <=> \E y \in Offers(g) : board[y].week
                /\ card.votes = board[x].confirms
  <2> DEFINE A == {Amount(y) : y \in Offers(g)}
             w == [y \in Offers(g) |-> Amount(y)]
             n == Cardinality(Offers(g))
             s == SumFunctionOnSet(w, Offers(g))
             min == Amount(x)
  <2>1. BoardTyped /\ RowsFresh /\ SumsFresh /\ LowsFresh /\ VotesFresh /\ AsRead(x)
    BY <1>2, <1>3 DEF AsRead
  <2>2. /\ reader.rows[x] = board[x] /\ Least(x) /\ board[x].goods = g
        /\ g \in DOMAIN reader.sums /\ reader.sums[g] = Aggregated(Offers(g))
        /\ x \in DOMAIN reader.votes /\ reader.votes[x] = board[x].confirms
    BY <1>3, <2>1 DEF RowsFresh, SumsFresh, VotesFresh
  <2>3. x \in Offers(g) /\ \A y \in Offers(g) : min <= Amount(y)
    BY <2>2 DEF Least
  <2>4. /\ A \in SUBSET Nat /\ IsFiniteSet(A) /\ A # {} /\ IsFiniteSet(Offers(g)) /\ n \in Nat /\ n # 0
    <3>1. Offers(g) \in SUBSET Offers(g) /\ Offers(g) # {}
      BY <2>3
    <3> QED
      BY <2>1, <3>1, AmountsOf
  <2>5. /\ reader.sums[g] \in SumsRow /\ reader.sums[g].max = Max(A) /\ reader.sums[g].count = n
        /\ reader.sums[g].sum = s /\ reader.sums[g].shops \in 1..n
    BY <2>1, <2>2, <2>3, AggregatedType
  <2>6. min \in Nat /\ min \in A /\ \A y \in Offers(g) : Amount(y) \in A
    BY <2>3, <2>4
  <2>7. min = Min(A)
    <3>1. \A a \in A : min <= a
      BY <2>3
    <3> HIDE DEF A
    <3>2. Min(A) \in A /\ Min(A) <= min
      BY <2>4, <2>6, LeastOf
    <3>3. min <= Min(A) /\ Min(A) \in Nat
      BY <2>4, <3>1, <3>2
    <3> QED
      BY <2>6, <3>2, <3>3
  <2>8. Max(A) \in Nat /\ \A y \in Offers(g) : Amount(y) <= Max(A) /\ Amount(y) \in Nat
    <3> HIDE DEF A
    <3>1. Max(A) \in A /\ \A a \in A : a <= Max(A)
      BY <2>4, GreatestOf
    <3> QED
      BY <2>4, <2>6, <3>1
  <2>9. s \in Nat /\ n * min <= s /\ s <= n * Max(A)
    <3>1. \A y \in Offers(g) : w[y] \in Nat /\ min <= w[y] /\ w[y] <= Max(A)
      BY <2>3, <2>8
    <3> HIDE DEF w, A, min
    <3>2. s \in Nat
      BY <2>4, <3>1, SumType
    <3> QED
      BY <2>4, <2>6, <2>8, <3>1, <3>2, SumBetween
  <2> DEFINE average == (2 * s + n) \div (2 * n)
  <2>10. min <= average /\ average <= Max(A)
    <3> HIDE DEF A, n, s, min
    <3>1. n \in Nat \ {0}
      BY <2>4
    <3> QED
      BY <2>6, <2>8, <2>9, <3>1, AverageBetween
  <2>11. (g \in DOMAIN reader.lows /\ min <= reader.lows[g]) <=> \E y \in Offers(g) : board[y].week
    <3> DEFINE L == {Amount(y) : y \in WeekOffers(g)}
    <3>1. IF WeekOffers(g) = {} THEN g \notin DOMAIN reader.lows
          ELSE g \in DOMAIN reader.lows /\ reader.lows[g] = Min(L)
      BY <1>3, <2>1 DEF LowsFresh
    <3>2. WeekOffers(g) # {} <=> \E y \in Offers(g) : board[y].week
      BY DEF WeekOffers
    <3>3. ASSUME WeekOffers(g) # {} PROVE min <= Min(L)
      <4>1. L \in SUBSET Nat /\ L # {} /\ \A l \in L : min <= l
        BY <2>3, <2>8, <3>3 DEF WeekOffers
      <4> HIDE DEF L
      <4>2. Min(L) \in L
        BY <4>1, LeastOf
      <4> QED
        BY <4>1, <4>2
    <3> HIDE DEF L, min
    <3> QED
      BY <3>1, <3>2, <3>3
  <2>12. board[x].amount = min
    BY DEF Amount
  <2> HIDE DEF A, n, s, w, min
  <2>13. /\ Card(x).min = min /\ Card(x).max = Max(A) /\ Card(x).shops = reader.sums[g].shops
         /\ Card(x).averaged = (n > 0)
         /\ Card(x).average = (IF n = 0 THEN 0 ELSE average)
         /\ Card(x).lowest7d = (g \in DOMAIN reader.lows /\ min <= reader.lows[g])
         /\ Card(x).votes = board[x].confirms
    BY <1>3, <2>2, <2>5, <2>12 DEF Card
  <2>14. n > 0
    BY <2>4
  <2> HIDE DEF average
  <2> QED
    BY <2>4, <2>5, <2>7, <2>10, <2>11, <2>13, <2>14 DEF A, n
<1>4. ASSUME reader.pc = "cards", changed = {}, ~ reader.near
      PROVE  Cardinality(DOMAIN reader.rows) = CardsLeft
  <2>1. /\ DOMAIN reader.rows = Range(reader.ids) /\ Len(reader.ids) = CardsLeft /\ reader.ids \in Seq(Prices)
        /\ \A i, j \in 1..Len(reader.ids) : i # j => reader.ids[i] # reader.ids[j]
    BY <1>2, <1>4 DEF RowsFresh, IdsFound, CardRead
  <2>2. PICK ids : ids = reader.ids
    OBVIOUS
  <2>3. DOMAIN ids = 1..Len(ids) /\ Len(ids) \in Nat /\ \A i, j \in 1..Len(ids) : i # j => ids[i] # ids[j]
    BY <2>1, <2>2
  <2>4. Cardinality({ids[i] : i \in 1..Len(ids)}) = Len(ids)
    BY ONLY <2>3, ImageOf
  <2>5. Range(reader.ids) = {ids[i] : i \in 1..Len(ids)}
    BY <2>2, <2>3 DEF Range
  <2> QED
    BY <2>1, <2>2, <2>4, <2>5
<1>5. reader.pc = "cards" =>
        \A x, y \in DOMAIN reader.rows :
          x # y => reader.rows[x].goods # reader.rows[y].goods \/ reader.rows[x].goods \in changed
  BY <1>2 DEF RowsFresh, AsRead
<1> QED
  BY <1>1, <1>3, <1>4, <1>5 DEF CardsConsistent, CardsLeft

-----------------------------------------------------------------------------
(* The lists. *)

\* What a statement of the read leaves as it is.
LEMMA ListStep ==
  ASSUME UNCHANGED <<board, writes, changed, came, gone>>, reader'.list = reader.list, reader'.arg = reader.arg
  PROVE  /\ ListHeld' = ListHeld /\ came' = came /\ gone' = gone
         /\ \A x : HeldBefore(x)' = HeldBefore(x)
         /\ BoardTyped => BoardTyped'
<1>1. \A r : InList(r)' <=> InList(r)
  BY DEF InList, RecentPrices, PricesOfUser, PricesOfProduct, PricesOfStore
<1>2. ListHeld' = ListHeld
  <2>1. \A y : y \in ListHeld' <=> y \in Prices /\ InList(board[y])
    BY DEF ListHeld, InList, RecentPrices, PricesOfUser, PricesOfProduct, PricesOfStore
  <2> QED
    BY <2>1 DEF ListHeld
<1>3. \A x, y : Before(x, y)' <=> Before(x, y)
  BY DEF Before, Amount
<1>4. \A x : HeldBefore(x)' = HeldBefore(x)
  BY <1>2, <1>3 DEF HeldBefore
<1>5. BoardTyped => BoardTyped'
  BY DEF BoardTyped
<1> QED
  BY <1>2, <1>4, <1>5

LEMMA HeldIs ==
  ASSUME BoardTyped
  PROVE  /\ ListHeld \in SUBSET Prices /\ IsFiniteSet(ListHeld) /\ Cardinality(ListHeld) \in Nat
         /\ ListHeld \in SUBSET Nat
<1>1. ListHeld \in SUBSET Prices
  BY DEF ListHeld
<1>2. IsFiniteSet(ListHeld) /\ Cardinality(ListHeld) \in Nat
  BY <1>1, PriceBoardAssumption, FS_Subset, FS_CardinalityType
<1> QED
  BY <1>1, <1>2, PriceBoardAssumption

\* A relation that leads on leads from each to each later one.
LEMMA LeadsOn ==
  ASSUME NEW n \in Nat, NEW R,
         \A i, j, k \in 1..n : <<i, j>> \in R /\ <<j, k>> \in R => <<i, k>> \in R,
         \A i \in 1..n - 1 : <<i, i + 1>> \in R
  PROVE  \A i, j \in 1..n : i < j => <<i, j>> \in R
<1> SUFFICES ASSUME NEW i \in 1..n, NEW e \in 1..n, i < e, <<i, e>> \notin R PROVE FALSE
  OBVIOUS
<1> DEFINE C == {j \in 1..n : i < j /\ <<i, j>> \notin R}
<1>1. C \in SUBSET Nat /\ C # {}
  <2>1. e \in C /\ \A j \in C : j \in Nat
    OBVIOUS
  <2> HIDE DEF C
  <2> QED
    BY <2>1
<1>2. PICK m \in C : \A k \in C : m <= k
  <2> HIDE DEF C
  <2> QED
    BY <1>1, LeastOf
<1>3. m \in 1..n /\ i < m /\ <<i, m>> \notin R
  BY <1>2
<1>4. m - 1 \in 1..n - 1 /\ m - 1 \in 1..n /\ (m - 1) + 1 = m /\ ~ (m <= m - 1)
  BY <1>3
<1>5. m - 1 \notin C
  <2> HIDE DEF C
  <2> QED
    BY <1>2, <1>4
<1>6. <<m - 1, m>> \in R
  BY <1>4
<1>7. m - 1 = i \/ <<i, m - 1>> \in R
  BY <1>3, <1>4, <1>5
<1> QED
  BY <1>3, <1>4, <1>6, <1>7

\* What comes in order: each before all that follow.
LEMMA OrderedIs ==
  ASSUME NEW xs \in SUBSET ListHeld, BoardTyped, NEW order \in Ordered(xs)
  PROVE  /\ order \in Seq(xs) /\ Len(order) \in Nat /\ DOMAIN order = 1..Len(order)
         /\ \A i, j \in 1..Len(order) : i # j => order[i] # order[j]
         /\ \A x \in xs : \E i \in 1..Len(order) : order[i] = x
         /\ \A i, j \in 1..Len(order) : i < j => Before(order[i], order[j])
         /\ Len(order) = Cardinality(xs)
<1>1. order \in SetToSeqs(xs) /\ \A i \in 1..Len(order) - 1 : Before(order[i], order[i + 1])
  BY DEF Ordered
<1>2. IsFiniteSet(xs) /\ xs \in SUBSET Nat /\ xs \in SUBSET Prices
  BY HeldIs, FS_Subset
<1>3. /\ order \in Seq(xs) /\ Len(order) \in Nat
      /\ \A i, j \in 1..Len(order) : i # j => order[i] # order[j]
      /\ \A x \in xs : \E i \in 1..Len(order) : order[i] = x
  BY <1>1, <1>2, Orders
<1>4. DOMAIN order = 1..Len(order) /\ \A i \in 1..Len(order) : order[i] \in xs
  BY <1>3
<1>5. \A x \in xs : x \in Nat /\ Amount(x) \in Nat
  <2>a. NoPrice.amount \in Nat
    BY DEF NoPrice
  <2>b. \A r \in PricedRow : r.amount \in Amounts
    BY DEF PricedRow
  <2>1. \A r \in BoardRow : r.amount \in Nat
    BY <2>a, <2>b, RowsAre, PriceBoardAssumption
  <2>2. \A x \in xs : board[x] \in BoardRow
    BY <1>2 DEF BoardTyped
  <2> QED
    BY <1>2, <2>1, <2>2 DEF Amount
<1> DEFINE n == Len(order)
           R == {p \in (1..n) \X (1..n) : Before(order[p[1]], order[p[2]])}
<1>6. \A i, j \in 1..n : <<i, j>> \in R <=> Before(order[i], order[j])
  OBVIOUS
<1>7. \A x, y, z \in xs : Before(x, y) /\ Before(y, z) => Before(x, z)
  <2> SUFFICES ASSUME NEW x \in xs, NEW y \in xs, NEW z \in xs, Before(x, y), Before(y, z) PROVE Before(x, z)
    OBVIOUS
  <2>1. /\ x \in Nat /\ y \in Nat /\ z \in Nat /\ Amount(x) \in Nat /\ Amount(y) \in Nat /\ Amount(z) \in Nat
    BY <1>5
  <2> QED
    BY <2>1 DEF Before
<1> HIDE DEF R
<1>8. \A i, j, k \in 1..n : <<i, j>> \in R /\ <<j, k>> \in R => <<i, k>> \in R
  BY <1>4, <1>6, <1>7
<1>9. \A i \in 1..n - 1 : <<i, i + 1>> \in R
  <2> TAKE i \in 1..n - 1
  <2>1. i \in 1..n /\ i + 1 \in 1..n
    BY <1>3
  <2> QED
    BY <1>1, <1>6, <2>1
<1>10. \A i, j \in 1..n : i < j => <<i, j>> \in R
  <2>1. n \in Nat
    BY <1>3
  <2> HIDE DEF n
  <2> QED
    BY ONLY <2>1, <1>8, <1>9, LeadsOn
<1>11. n = Cardinality(xs)
  <2>1. DOMAIN order = 1..n /\ n \in Nat /\ \A i, j \in 1..n : i # j => order[i] # order[j]
    BY <1>3, <1>4
  <2> HIDE DEF n
  <2>2. Cardinality({order[i] : i \in 1..n}) = n
    BY ONLY <2>1, ImageOf
  <2>3. {order[i] : i \in 1..n} = xs
    BY <1>3, <1>4 DEF n
  <2> QED
    BY <2>2, <2>3
<1> QED
  BY <1>3, <1>4, <1>6, <1>10, <1>11

\* Where an order puts what is not tied: after those that come before it.
LEMMA PositionOf ==
  ASSUME BoardTyped, NEW order \in Ordered(ListHeld), NEW i \in 1..Len(order), order[i] \notin Tied
  PROVE  Cardinality(HeldBefore(order[i])) = i - 1
<1>1. ListHeld \in SUBSET ListHeld
  OBVIOUS
<1>2. /\ order \in Seq(ListHeld) /\ Len(order) \in Nat
      /\ \A j, k \in 1..Len(order) : j # k => order[j] # order[k]
      /\ \A x \in ListHeld : \E j \in 1..Len(order) : order[j] = x
      /\ \A j, k \in 1..Len(order) : j < k => Before(order[j], order[k])
  BY <1>1, OrderedIs
<1> DEFINE m == i - 1
           f == [j \in 1..m |-> order[j]]
           A == {f[j] : j \in 1..m}
<1>3. m \in Nat /\ i \in Nat /\ \A j \in 1..m : j \in 1..Len(order) /\ j < i
  BY <1>2
<1>4. ASSUME NEW y \in HeldBefore(order[i]) PROVE y \in A
  <2>1. y \in ListHeld /\ y # order[i] /\ Before(y, order[i])
    BY <1>4 DEF HeldBefore
  <2>2. PICK j \in 1..Len(order) : order[j] = y
    BY <1>2, <2>1
  <2>3. ~ (i < j)
    <3> SUFFICES ASSUME i < j PROVE FALSE
      OBVIOUS
    <3>1. Before(order[i], y)
      BY <1>2, <2>2
    <3>2. order[i] \in ListHeld
      BY <1>2
    <3> QED
      BY <2>1, <3>1, <3>2 DEF Tied
  <2>4. j \in 1..m
    BY <1>2, <2>1, <2>2, <2>3
  <2> QED
    BY <2>2, <2>4
<1>5. ASSUME NEW j \in 1..m PROVE f[j] \in HeldBefore(order[i])
  <2>1. j \in 1..Len(order) /\ j < i /\ j # i
    BY <1>3
  <2>2. order[j] \in ListHeld /\ order[j] # order[i] /\ Before(order[j], order[i])
    BY <1>2, <2>1
  <2> QED
    BY <2>2 DEF HeldBefore
<1>6. HeldBefore(order[i]) = A
  BY <1>4, <1>5
<1>7. DOMAIN f = 1..m /\ \A j, k \in 1..m : j # k => f[j] # f[k]
  BY <1>2, <1>3
<1> HIDE DEF f, m
<1>8. Cardinality(A) = m
  BY ONLY <1>3, <1>7, ImageOf DEF A
<1> QED
  BY <1>6, <1>8 DEF m

LEMMA StartsList ==
  ASSUME BoardInv, NEW list \in Lists, NEW arg \in {0} \cup Sellers \cup Goods \cup Shops, StartList(list, arg)
  PROVE  BoardInv'
<1> DEFINE start == [pc |-> "ids", list |-> list, arg |-> arg, page |-> 1, ids |-> <<>>, shown |-> <<>>,
                     stayed |-> {}, tied |-> {}]
<1>1. reader' = start /\ changed' = {} /\ came' = {} /\ gone' = {} /\ UNCHANGED <<board, writes>>
  BY DEF StartList, Starts
<1>2. start \in ListRead
  BY DEF ListRead, ListPcs
<1>3. start.pc = "ids" /\ start.shown = <<>> /\ start.stayed = {}
  OBVIOUS
<1>4. BoardTyped'
  BY <1>1 DEF BoardInv, BoardTyped
<1> HIDE DEF start
<1>5. ListOK'
  BY <1>1, <1>2, <1>3 DEF ListOK
<1> QED
  BY <1>4, <1>5 DEF BoardInv

LEMMA ListsIds ==
  ASSUME BoardInv, ListIds
  PROVE  BoardInv'
<1>1. reader.pc = "ids" /\ UNCHANGED <<board, writes, changed, came, gone>>
  BY DEF ListIds, Goto
<1>2. ListOK /\ reader \in ListRead /\ BoardTyped
  BY <1>1, ReadsAre DEF BoardInv, CardsOK, ListOK, CardPcs
<1>3. PICK order \in Ordered(ListHeld) :
         Goto("rows", [reader EXCEPT !.ids = PageOf(order),
                                     !.stayed = IF reader.page = 1 THEN ListHeld ELSE @,
                                     !.tied = @ \cup Tied])
  BY DEF ListIds
<1> DEFINE ids == PageOf(order)
           stayed == IF reader.page = 1 THEN ListHeld ELSE reader.stayed
           tied == reader.tied \cup Tied
<1>4. reader' = [[reader EXCEPT !.ids = ids, !.stayed = stayed, !.tied = tied] EXCEPT !.pc = "rows"]
  BY <1>3 DEF Goto
<1>5. /\ order \in Seq(ListHeld) /\ Len(order) \in Nat
      /\ \A j, k \in 1..Len(order) : j # k => order[j] # order[k]
      /\ \A x \in ListHeld : \E j \in 1..Len(order) : order[j] = x
      /\ ListHeld \in SUBSET Prices
  <2>1. ListHeld \in SUBSET ListHeld
    OBVIOUS
  <2> QED
    BY <1>2, <2>1, HeldIs, OrderedIs
<1>6. /\ PageSize \in Nat \ {0} /\ reader.page \in Nat \ {0} /\ Skipped \in Nat
      /\ RowsRead = Skipped /\ PageSize * reader.page = Skipped + PageSize
  <2>1. /\ reader.page \in Nat \ {0} /\ PageSize \in Nat \ {0} /\ reader.page - 1 \in Nat
        /\ PageSize * reader.page = PageSize * (reader.page - 1) + PageSize
        /\ PageSize * (reader.page - 1) \in Nat
    BY <1>2, RowsReadType
  <2>2. Skipped = PageSize * (reader.page - 1)
    BY <2>1 DEF Skipped
  <2> QED
    BY <1>1, <2>1, <2>2 DEF RowsRead
<1>7. PICK from : from = Skipped
  OBVIOUS
<1>8. /\ ids \in Seq(ListHeld)
      /\ Len(ids) = IF from >= Len(order) THEN 0
                    ELSE IF from + PageSize <= Len(order) THEN PageSize ELSE Len(order) - from
      /\ \A i \in 1..Len(ids) : from + i \in 1..Len(order) /\ ids[i] = order[from + i]
  <2>1. PICK part : part = PageOf(order)
    OBVIOUS
  <2>2. /\ part \in Seq(ListHeld)
        /\ Len(part) = IF from >= Len(order) THEN 0
                       ELSE IF from + PageSize <= Len(order) THEN PageSize ELSE Len(order) - from
        /\ \A i \in 1..Len(part) : from + i \in 1..Len(order) /\ part[i] = order[from + i]
    <3>1. order \in Seq(ListHeld) /\ reader.page \in Nat \ {0}
      BY <1>5, <1>6
    <3> QED
      BY ONLY <1>7, <2>1, <3>1, PageIs
  <2> QED
    BY <2>1, <2>2
<1> HIDE DEF ids
<1>a. Len(ids) \in Nat /\ from \in Nat /\ DOMAIN ids = 1..Len(ids) /\ \A i \in 1..Len(ids) : ids[i] \in ListHeld
  BY <1>6, <1>7, <1>8
<1>b. \A i \in 1..Len(ids) : from + i \in 1..Len(order) /\ ids[i] = order[from + i]
  BY <1>8
<1>c. Len(ids) = IF from >= Len(order) THEN 0
                 ELSE IF from + PageSize <= Len(order) THEN PageSize ELSE Len(order) - from
  BY <1>8
<1>d. \A x \in Range(ids) : \E i \in 1..Len(ids) : ids[i] = x
  BY <1>a DEF Range
<1>9. Len(ids) \in Nat /\ from \in Nat /\ ids \in Seq(Prices) /\ \A x \in Range(ids) : \E i \in 1..Len(ids) : ids[i] = x
  <2>1. ids \in Seq(Prices)
    BY <1>5, <1>8
  <2> QED
    BY <1>a, <1>d, <2>1
<1>10. stayed \in SUBSET Prices /\ tied \in SUBSET Prices
  BY <1>2, <1>5 DEF ListRead, Tied
<1>11. Tied \subseteq tied /\ reader.tied \subseteq tied
  OBVIOUS
<1> HIDE DEF tied
<1>12. /\ reader.page = 1 => stayed = ListHeld /\ reader.shown = <<>>
       /\ reader.page # 1 => stayed = reader.stayed
  BY <1>1, <1>2 DEF ListOK
<1> HIDE DEF stayed
<1>13. reader' \in ListRead
  BY <1>2, <1>4, <1>9, <1>10 DEF ListRead, ListPcs
<1>14. /\ reader'.pc = "rows" /\ reader'.ids = ids /\ reader'.stayed = stayed /\ reader'.tied = tied
       /\ reader'.page = reader.page /\ reader'.shown = reader.shown
       /\ reader'.list = reader.list /\ reader'.arg = reader.arg
  BY <1>2, <1>4 DEF ListRead
<1>15. /\ ListHeld' = ListHeld /\ came' = came /\ gone' = gone /\ BoardTyped'
       /\ \A x : HeldBefore(x)' = HeldBefore(x)
  BY <1>1, <1>2, <1>14, ListStep
<1>16. RowsRead' = from + PageSize
  BY <1>6, <1>7, <1>14 DEF RowsRead
<1>17. stayed \ gone \subseteq ListHeld
  BY <1>2, <1>12 DEF ListOK
<1>18. ASSUME NEW i \in 1..Len(ids), NEW j \in 1..Len(ids), i # j PROVE ids[i] # ids[j]
  <2>1. from + i # from + j
    BY <1>a, <1>18
  <2>2. from + i \in 1..Len(order) /\ from + j \in 1..Len(order)
    BY <1>b
  <2>3. order[from + i] # order[from + j]
    BY <1>5, <2>1, <2>2
  <2> QED
    BY <1>b, <2>3
<1>19. Range(ids) \subseteq ListHeld
  BY <1>a, <1>d
<1>20. ASSUME NEW x \in ListHeld \ Tied
       PROVE  /\ Cardinality(HeldBefore(x)) \in Nat
              /\ x \in Range(ids) => from <= Cardinality(HeldBefore(x)) /\ Cardinality(HeldBefore(x)) < from + PageSize
              /\ x \notin Range(ids) => \/ Cardinality(HeldBefore(x)) < from
                                        \/ Cardinality(HeldBefore(x)) >= from + PageSize /\ Len(ids) >= PageSize
  <2>1. PICK p \in 1..Len(order) : order[p] = x
    BY <1>5
  <2>2. Cardinality(HeldBefore(x)) = p - 1
    BY <1>2, <2>1, PositionOf
  <2>3. p \in Nat /\ p >= 1 /\ p <= Len(order)
    BY <1>5
  <2>4. ASSUME x \in Range(ids) PROVE from < p /\ p <= from + PageSize
    <3>1. PICK i \in 1..Len(ids) : ids[i] = x
      BY <1>9, <2>4
    <3>2. from + i \in 1..Len(order) /\ order[from + i] = x
      BY <1>8, <3>1
    <3>3. p = from + i
      BY <1>5, <2>1, <3>2
    <3>4. Len(ids) <= PageSize
      BY <1>5, <1>6, <1>8, <1>9
    <3> QED
      BY <1>6, <1>9, <3>3, <3>4
  <2>5. ASSUME x \notin Range(ids) PROVE p <= from \/ (p > from + PageSize /\ Len(ids) >= PageSize)
    <3>1. ASSUME from < p, p <= from + PageSize PROVE FALSE
      <4> DEFINE i == p - from
      <4>1. i \in 1..Len(ids) /\ from + i = p
        <5>1. i \in Int /\ i >= 1 /\ from + i = p /\ i <= PageSize /\ from < Len(order) /\ i <= Len(order) - from
          BY <1>5, <1>6, <1>a, <2>3, <3>1
        <5>2. i <= Len(ids)
          BY <1>5, <1>6, <1>a, <1>c, <5>1
        <5> QED
          BY <1>a, <5>1, <5>2
      <4>2. ids[i] = x
        BY <1>b, <2>1, <4>1
      <4>3. ids[i] \in Range(ids)
        BY <1>9, <4>1 DEF Range
      <4> QED
        BY <2>5, <4>2, <4>3
    <3>2. ASSUME p > from + PageSize PROVE Len(ids) >= PageSize
      BY <1>5, <1>6, <1>8, <1>9, <2>3, <3>2
    <3> QED
      BY <1>6, <1>9, <2>3, <3>1, <3>2
  <2> QED
    BY <1>6, <1>9, <2>2, <2>3, <2>4, <2>5
<1>21. ASSUME came = {}, NEW x \in stayed \ (gone \cup tied) PROVE ShownOnce(x)'
  <2>1. x \in ListHeld \ Tied
    BY <1>11, <1>17, <1>21
  <2>2. /\ \A i, j \in 1..Len(reader.shown) : reader.shown[i] = x /\ reader.shown[j] = x => i = j
        /\ x \in Range(reader.shown) => Cardinality(HeldBefore(x)) < from
    <3>1. CASE reader.page = 1
      <4>1. reader.shown = <<>>
        BY <1>12, <3>1
      <4>2. Len(reader.shown) = 0 /\ Range(reader.shown) = {}
        BY <4>1 DEF Range
      <4> QED
        BY <4>2
    <3>2. CASE reader.page # 1
      <4>1. ShownOnce(x)
        BY <1>2, <1>11, <1>12, <1>21, <3>2 DEF ListOK
      <4> QED
        BY <1>1, <1>6, <1>7, <4>1 DEF ShownOnce, IsShown
    <3> QED
      BY <3>1, <3>2
  <2>3. x \in Range(ids) => x \notin Range(reader.shown)
    BY <1>9, <1>20, <2>1, <2>2
  <2>4. x \in Range(reader.shown) \/ x \in Range(ids) => Cardinality(HeldBefore(x)) < from + PageSize
    BY <1>6, <1>9, <1>20, <2>1, <2>2
  <2> QED
    BY <1>14, <1>15, <1>16, <2>2, <2>3, <2>4 DEF ShownOnce, IsShown
<1>22. ASSUME gone = {}, NEW x \in stayed \ tied PROVE IsShown(x)' \/ ToBeShown(x)'
  <2>1. x \in ListHeld \ Tied
    BY <1>11, <1>17, <1>22
  <2>2. x \in Range(reader.shown) \/ Cardinality(HeldBefore(x)) >= from
    <3>1. CASE reader.page = 1
      <4>1. from = 0
        BY <1>7, <3>1, PriceBoardAssumption DEF Skipped
      <4> QED
        BY <1>20, <2>1, <4>1
    <3>2. CASE reader.page # 1
      <4>1. IsShown(x) \/ ToBeShown(x)
        BY <1>2, <1>11, <1>12, <1>22, <3>2 DEF ListOK
      <4> QED
        BY <1>1, <1>6, <1>7, <4>1 DEF ToBeShown, IsShown
    <3> QED
      BY <3>1, <3>2
  <2>3. \/ x \in Range(reader.shown) \/ x \in Range(ids)
        \/ Cardinality(HeldBefore(x)) >= from + PageSize /\ Len(ids) >= PageSize
    BY <1>9, <1>20, <2>1, <2>2
  <2> QED
    BY <1>14, <1>15, <1>16, <2>3 DEF ToBeShown, IsShown
<1>23. ListOK'
  BY <1>13, <1>14, <1>15, <1>17, <1>18, <1>19, <1>21, <1>22 DEF ListOK
<1> QED
  BY <1>15, <1>23 DEF BoardInv

LEMMA LoadsRows ==
  ASSUME BoardInv, LoadRows
  PROVE  BoardInv'
<1>1. reader.pc = "rows" /\ UNCHANGED <<board, writes, changed, came, gone>>
  BY DEF LoadRows, Goto
<1>2. ListOK /\ reader \in ListRead /\ BoardTyped
  BY <1>1, ReadsAre DEF BoardInv, CardsOK, ListOK, CardPcs
<1> DEFINE left == {x \in Range(reader.ids) : InList(board[x])}
<1>3. PICK kept \in Ordered(left) : Goto("total", [reader EXCEPT !.ids = kept, !.shown = @ \o kept])
  BY DEF LoadRows
<1> DEFINE shown == reader.shown \o kept
<1>4. reader' = [[reader EXCEPT !.ids = kept, !.shown = shown] EXCEPT !.pc = "total"]
  BY <1>3 DEF Goto
<1>5. reader.ids \in Seq(Prices) /\ reader.shown \in Seq(Prices) /\ Range(reader.ids) \subseteq Prices
  BY <1>2 DEF ListRead, Range
<1>6. left \subseteq ListHeld /\ left = Range(reader.ids) \cap ListHeld /\ left \subseteq Prices
  BY <1>5 DEF ListHeld
<1> HIDE DEF left
<1>7. /\ kept \in Seq(left) /\ Len(kept) \in Nat /\ DOMAIN kept = 1..Len(kept)
      /\ \A j, k \in 1..Len(kept) : j # k => kept[j] # kept[k]
      /\ \A x \in left : \E j \in 1..Len(kept) : kept[j] = x
      /\ Len(kept) = Cardinality(left)
  <2>1. left \in SUBSET ListHeld
    BY <1>6
  <2> QED
    BY <1>2, <2>1, OrderedIs
<1>8. kept \in Seq(Prices) /\ \A j \in 1..Len(kept) : kept[j] \in left
  BY <1>6, <1>7
<1>9. /\ shown \in Seq(Prices) /\ Len(shown) = Len(reader.shown) + Len(kept)
      /\ \A i \in 1..Len(reader.shown) : shown[i] = reader.shown[i]
      /\ \A i \in 1..Len(kept) : shown[Len(reader.shown) + i] = kept[i]
      /\ Len(reader.shown) \in Nat
  BY <1>5, <1>8
<1> HIDE DEF shown
<1>10. ASSUME NEW i \in 1..Len(shown)
       PROVE  \/ i \in 1..Len(reader.shown) /\ shown[i] = reader.shown[i]
              \/ /\ i - Len(reader.shown) \in 1..Len(kept) /\ shown[i] = kept[i - Len(reader.shown)]
                 /\ shown[i] \in left
  <2>1. CASE i <= Len(reader.shown)
    BY <1>9, <2>1
  <2>2. CASE ~ (i <= Len(reader.shown))
    <3> DEFINE k == i - Len(reader.shown)
    <3>1. k \in 1..Len(kept) /\ Len(reader.shown) + k = i
      BY <1>7, <1>9, <2>2
    <3>2. shown[i] = kept[k] /\ kept[k] \in left
      BY <1>8, <1>9, <3>1
    <3> QED
      BY <3>1, <3>2
  <2> QED
    BY <2>1, <2>2
<1>11. \A x : x \in Range(reader.shown) <=> \E i \in 1..Len(reader.shown) : reader.shown[i] = x
  BY <1>5 DEF Range
<1>12. \A x : x \in Range(shown) <=> x \in Range(reader.shown) \/ x \in left
  <2> TAKE x
  <2>1. x \in Range(shown) <=> \E i \in 1..Len(shown) : shown[i] = x
    BY <1>9 DEF Range
  <2>2. ASSUME x \in Range(shown) PROVE x \in Range(reader.shown) \/ x \in left
    <3>1. PICK i \in 1..Len(shown) : shown[i] = x
      BY <2>1, <2>2
    <3> QED
      BY <1>10, <1>11, <3>1
  <2>3. ASSUME x \in Range(reader.shown) PROVE x \in Range(shown)
    <3>1. PICK i \in 1..Len(reader.shown) : reader.shown[i] = x
      BY <1>11, <2>3
    <3>2. i \in 1..Len(shown)
      BY <1>7, <1>9
    <3> QED
      BY <1>9, <2>1, <3>1, <3>2
  <2>4. ASSUME x \in left PROVE x \in Range(shown)
    <3>1. PICK i \in 1..Len(kept) : kept[i] = x
      BY <1>7, <2>4
    <3>2. Len(reader.shown) + i \in 1..Len(shown)
      BY <1>7, <1>9
    <3> QED
      BY <1>9, <2>1, <3>1, <3>2
  <2> QED
    BY <2>2, <2>3, <2>4
<1>13. reader' \in ListRead
  BY <1>2, <1>4, <1>8, <1>9 DEF ListRead, ListPcs
<1>14. /\ reader'.pc = "total" /\ reader'.ids = kept /\ reader'.shown = shown
       /\ reader'.stayed = reader.stayed /\ reader'.tied = reader.tied /\ reader'.page = reader.page
       /\ reader'.list = reader.list /\ reader'.arg = reader.arg
  BY <1>2, <1>4 DEF ListRead
<1>15. /\ ListHeld' = ListHeld /\ came' = came /\ gone' = gone /\ BoardTyped'
       /\ \A x : HeldBefore(x)' = HeldBefore(x)
  BY <1>1, <1>2, <1>14, ListStep
<1>16. RowsRead' = RowsRead
  BY <1>1, <1>14 DEF RowsRead
<1>17. ASSUME came = {}, NEW x \in reader.stayed \ (gone \cup reader.tied) PROVE ShownOnce(x)'
  <2>1. ShownOnce(x)
    BY <1>2, <1>17 DEF ListOK
  <2>2. /\ \A i, j \in 1..Len(reader.shown) : reader.shown[i] = x /\ reader.shown[j] = x => i = j
        /\ x \in left => x \notin Range(reader.shown)
    BY <1>1, <1>6, <2>1 DEF ShownOnce
  <2>3. ASSUME NEW i \in 1..Len(shown), NEW j \in 1..Len(shown), shown[i] = x, shown[j] = x PROVE i = j
    <3>1. CASE x \in left
      <4>1. i - Len(reader.shown) \in 1..Len(kept) /\ kept[i - Len(reader.shown)] = x
        BY <1>10, <1>11, <2>2, <2>3, <3>1
      <4>2. j - Len(reader.shown) \in 1..Len(kept) /\ kept[j - Len(reader.shown)] = x
        BY <1>10, <1>11, <2>2, <2>3, <3>1
      <4>3. i - Len(reader.shown) = j - Len(reader.shown)
        BY <1>7, <4>1, <4>2
      <4> QED
        BY <1>9, <4>3
    <3>2. CASE x \notin left
      BY <1>10, <2>2, <2>3, <3>2
    <3> QED
      BY <3>1, <3>2
  <2>4. x \in Range(shown) => Cardinality(HeldBefore(x)) < RowsRead
    BY <1>1, <1>6, <1>12, <2>1 DEF ShownOnce, IsShown
  <2> QED
    BY <1>14, <1>15, <1>16, <2>3, <2>4 DEF ShownOnce, IsShown
<1>18. ASSUME gone = {}, NEW x \in reader.stayed \ reader.tied PROVE IsShown(x)' \/ ToBeShown(x)'
  <2>1. (IsShown(x) \/ ToBeShown(x)) /\ x \in ListHeld
    BY <1>2, <1>18 DEF ListOK
  <2>2. CASE IsShown(x)
    BY <1>6, <1>12, <1>14, <2>1, <2>2 DEF IsShown
  <2>3. CASE ToBeShown(x)
    <3>1. Cardinality(HeldBefore(x)) >= RowsRead /\ Len(reader.ids) >= PageSize
      BY <1>1, <2>3 DEF ToBeShown
    <3>2. left = Range(reader.ids) /\ \A i, j \in 1..Len(reader.ids) : i # j => reader.ids[i] # reader.ids[j]
      BY <1>1, <1>2, <1>6, <1>18 DEF ListOK
    <3>3. PICK ids : ids = reader.ids
      OBVIOUS
    <3>4. DOMAIN ids = 1..Len(ids) /\ Len(ids) \in Nat /\ \A i, j \in 1..Len(ids) : i # j => ids[i] # ids[j]
      BY <1>5, <3>2, <3>3
    <3>5. Cardinality({ids[i] : i \in 1..Len(ids)}) = Len(ids)
      BY ONLY <3>4, ImageOf
    <3>6. left = {ids[i] : i \in 1..Len(ids)}
      BY <3>2, <3>3, <3>4 DEF Range
    <3>7. Len(kept) >= PageSize
      BY <1>7, <3>1, <3>3, <3>5, <3>6
    <3> QED
      BY <1>14, <1>15, <1>16, <3>1, <3>7 DEF ToBeShown
  <2> QED
    BY <2>1, <2>2, <2>3
<1>19. reader.stayed \ gone \subseteq ListHeld
  BY <1>2 DEF ListOK
<1>20. ListOK'
  BY <1>13, <1>14, <1>15, <1>17, <1>18, <1>19 DEF ListOK
<1> QED
  BY <1>15, <1>20 DEF BoardInv

LEMMA CountsRows ==
  ASSUME BoardInv, CountRows
  PROVE  BoardInv'
<1>1. reader.pc = "total" /\ UNCHANGED <<board, writes, changed, came, gone>>
  BY DEF CountRows, Goto
<1>2. ListOK /\ reader \in ListRead /\ BoardTyped
  BY <1>1, ReadsAre DEF BoardInv, CardsOK, ListOK, CardPcs
<1>3. /\ PageSize \in Nat \ {0} /\ reader.page \in Nat \ {0} /\ RowsRead = PageSize * reader.page
      /\ PageSize * reader.page = reader.page * PageSize /\ RowsRead \in Nat
  BY <1>1, <1>2, RowsReadType DEF RowsRead
<1>4. CASE reader' = [[reader EXCEPT !.page = @ + 1] EXCEPT !.pc = "ids"]
  <2>1. reader.page + 1 \in Nat \ {0} /\ reader.page + 1 # 1 /\ (reader.page + 1) - 1 = reader.page
    BY <1>3
  <2>2. reader' \in ListRead
    BY <1>2, <1>4, <2>1 DEF ListRead, ListPcs
  <2>3. /\ reader'.pc = "ids" /\ reader'.page = reader.page + 1 /\ reader'.ids = reader.ids
        /\ reader'.shown = reader.shown /\ reader'.stayed = reader.stayed /\ reader'.tied = reader.tied
        /\ reader'.list = reader.list /\ reader'.arg = reader.arg
    BY <1>2, <1>4 DEF ListRead
  <2>4. /\ ListHeld' = ListHeld /\ came' = came /\ gone' = gone /\ BoardTyped'
        /\ \A x : HeldBefore(x)' = HeldBefore(x)
    BY <1>1, <1>2, <2>3, ListStep
  <2>5. RowsRead' = RowsRead
    BY <1>3, <2>1, <2>3 DEF RowsRead
  <2>6. \A x : ShownOnce(x) => ShownOnce(x)'
    BY <1>1, <2>3, <2>4, <2>5 DEF ShownOnce, IsShown
  <2>7. \A x : (IsShown(x) => IsShown(x)') /\ (ToBeShown(x) => ToBeShown(x)')
    BY <1>1, <2>3, <2>4, <2>5 DEF ToBeShown, IsShown
  <2>8. ListOK'
    BY <1>2, <2>1, <2>2, <2>3, <2>4, <2>6, <2>7 DEF ListOK
  <2> QED
    BY <2>4, <2>8 DEF BoardInv
<1>5. CASE /\ reader.page * PageSize >= Cardinality(ListHeld) \/ Len(reader.ids) < PageSize
           /\ reader' = [reader EXCEPT !.pc = "listed"]
  <2>1. reader' \in ListRead
    BY <1>2, <1>5 DEF ListRead, ListPcs
  <2>2. /\ reader'.pc = "listed" /\ reader'.page = reader.page /\ reader'.ids = reader.ids
        /\ reader'.shown = reader.shown /\ reader'.stayed = reader.stayed /\ reader'.tied = reader.tied
        /\ reader'.list = reader.list /\ reader'.arg = reader.arg
    BY <1>2, <1>5 DEF ListRead
  <2>3. /\ ListHeld' = ListHeld /\ came' = came /\ gone' = gone /\ BoardTyped'
    BY <1>1, <1>2, <2>2, ListStep
  <2>4. \A x : ShownOnce(x) => ShownOnce(x)'
    BY <1>1, <2>2 DEF ShownOnce
  <2>5. ASSUME gone = {}, NEW x \in reader.stayed \ reader.tied PROVE IsShown(x)'
    <3>1. (IsShown(x) \/ ToBeShown(x)) /\ x \in ListHeld
      BY <1>2, <2>5 DEF ListOK
    <3>2. ASSUME ToBeShown(x) PROVE FALSE
      <4>1. Cardinality(HeldBefore(x)) >= RowsRead /\ Len(reader.ids) >= PageSize
        BY <1>1, <3>2 DEF ToBeShown
      <4>2. Len(reader.ids) \in Nat
        BY <1>2 DEF ListRead
      <4>3. RowsRead >= Cardinality(ListHeld)
        BY <1>3, <1>5, <4>1, <4>2
      <4>4. IsFiniteSet(ListHeld) /\ Cardinality(ListHeld) \in Nat
        BY <1>2, HeldIs
      <4>5. /\ IsFiniteSet(ListHeld \ {x}) /\ Cardinality(ListHeld \ {x}) = Cardinality(ListHeld) - 1
        BY <3>1, <4>4, FS_RemoveElement
      <4>6. HeldBefore(x) \in SUBSET (ListHeld \ {x})
        BY DEF HeldBefore
      <4>7. Cardinality(HeldBefore(x)) <= Cardinality(ListHeld \ {x})
        BY <4>5, <4>6, FS_Subset
      <4>8. Cardinality(HeldBefore(x)) \in Nat
        BY HeldBeforeIs
      <4> QED
        BY <1>3, <4>1, <4>3, <4>4, <4>5, <4>7, <4>8
    <3> QED
      BY <1>1, <2>2, <3>1, <3>2 DEF IsShown
  <2>6. ListOK'
    BY <1>2, <2>1, <2>2, <2>3, <2>4, <2>5 DEF ListOK
  <2> QED
    BY <2>3, <2>6 DEF BoardInv
<1> QED
  BY <1>1, <1>4, <1>5 DEF CountRows, Goto

LEMMA ListsFit ==
  ASSUME BoardInv
  PROVE  PagesWhole
<1> SUFFICES ASSUME reader.pc = "listed", NEW x \in reader.stayed \ (gone \cup reader.tied)
             PROVE  Times(x) = 1 \/ (Times(x) = 0 /\ gone # {}) \/ (Times(x) > 1 /\ came # {})
  BY DEF PagesWhole
<1>1. ListOK /\ reader \in ListRead
  BY ReadsAre DEF BoardInv, CardsOK, ListOK, CardPcs
<1> DEFINE T == {i \in DOMAIN reader.shown : reader.shown[i] = x}
<1>2. reader.shown \in Seq(Prices) /\ DOMAIN reader.shown = 1..Len(reader.shown) /\ Len(reader.shown) \in Nat
  BY <1>1 DEF ListRead
<1>3. IsFiniteSet(T) /\ Cardinality(T) \in Nat
  <2>1. IsFiniteSet(1..Len(reader.shown))
    <3>1. 1 \in Int /\ Len(reader.shown) \in Int
      BY <1>2
    <3> QED
      BY ONLY <3>1, FS_Interval
  <2>2. T \in SUBSET (1..Len(reader.shown))
    BY <1>2
  <2> HIDE DEF T
  <2> QED
    BY <2>1, <2>2, FS_Subset, FS_CardinalityType
<1>4. (Cardinality(T) = 0 <=> T = {}) /\ (Cardinality(T) = 1 <=> \E i : T = {i})
  <2> HIDE DEF T
  <2> QED
    BY <1>3, FS_EmptySet, FS_Singleton
<1>5. ASSUME came = {} PROVE \A i, j \in T : i = j
  <2>1. ShownOnce(x)
    BY <1>1, <1>5 DEF ListOK
  <2> QED
    BY <1>2, <2>1 DEF ShownOnce
<1>6. ASSUME gone = {} PROVE T # {}
  <2>1. IsShown(x)
    BY <1>1, <1>6 DEF ListOK, ToBeShown
  <2> QED
    BY <2>1 DEF IsShown, Range
<1>7. Times(x) = Cardinality(T)
  BY DEF Times
<1> HIDE DEF T
<1>8. ASSUME came = {}, T # {} PROVE Cardinality(T) = 1
  <2>1. PICK i : i \in T
    BY <1>8
  <2>2. T = {i}
    BY <1>5, <1>8, <2>1
  <2> QED
    BY <1>4, <2>2
<1> QED
  BY <1>3, <1>4, <1>6, <1>7, <1>8

LEMMA BoardStarts == BoardInit => BoardInv
<1> SUFFICES ASSUME BoardInit PROVE BoardInv
  OBVIOUS
<1>1. /\ reader = NoRead /\ writes = 0 /\ changed = {} /\ came = {} /\ gone = {}
      /\ \E S \in SUBSET Prices : \E first \in [S -> {r \in BoardRow : r.active /\ r.confirms = 0}] :
           board = [x \in Prices |-> IF x \in S THEN first[x] ELSE NoPrice]
  BY DEF BoardInit
<1>2. PICK S \in SUBSET Prices : \E first \in [S -> {r \in BoardRow : r.active /\ r.confirms = 0}] :
         board = [x \in Prices |-> IF x \in S THEN first[x] ELSE NoPrice]
  BY <1>1
<1>3. PICK first \in [S -> {r \in BoardRow : r.active /\ r.confirms = 0}] :
         board = [x \in Prices |-> IF x \in S THEN first[x] ELSE NoPrice]
  BY <1>2
<1>4. \A x \in Prices : board[x] \in BoardRow /\ board[x].confirms = 0
  BY <1>3, RowsAre
<1>5. board \in [Prices -> BoardRow]
  BY <1>3, <1>4
<1>6. 0 \in 0..MaxWrites
  BY PriceBoardAssumption
<1> QED
  BY <1>1, <1>4, <1>5, <1>6 DEF BoardInv, BoardTyped

LEMMA BoardSteps == BoardInv /\ [BoardNext]_boardVars => BoardInv'
<1> SUFFICES ASSUME BoardInv, [BoardNext]_boardVars PROVE BoardInv'
  OBVIOUS
<1> DEFINE Changes == \E x \in Prices :
             \/ \E g \in Goods, s \in Shops, u \in Sellers, n \in Amounts : Register(x, g, s, u, n)
             \/ \E n \in Amounts : Reprice(x, n)
             \/ Deactivate(x) \/ Delete(x) \/ Confirm(x) \/ WeekPasses(x)
             \/ \E row \in Late : Reinsert(x, row)
           Merges == \E from, into \in Goods : MergeGoods(from, into)
           CardsStart == \E near \in BOOLEAN, page \in 1..Cardinality(Goods) : StartCards(near, page)
           OfSeller == \E u \in Sellers : StartList("seller", u)
           OfGoods == \E g \in Goods : StartList("goods", g)
           OfShop == \E s \in Shops : StartList("shop", s)
<1>1. CASE Changes \/ Merges
  BY <1>1, ChangesOK, MergesOK
<1>2. CASE CardsStart
  <2>1. PICK near \in BOOLEAN, page \in 1..Cardinality(Goods) : StartCards(near, page)
    BY <1>2
  <2>2. Cardinality(Goods) \in Nat
    BY PriceBoardAssumption, FS_CardinalityType
  <2>3. page \in Nat \ {0}
    BY <2>2
  <2> QED
    BY <2>1, <2>3, StartsCards
<1>3. CASE StartList("recent", 0) \/ OfSeller \/ OfGoods \/ OfShop
  <2>1. "recent" \in Lists /\ "seller" \in Lists /\ "goods" \in Lists /\ "shop" \in Lists
    BY DEF Lists
  <2> QED
    BY <1>3, <2>1, StartsList
<1>4. CASE CountProducts
  BY <1>4, CountsProducts
<1>5. CASE FindCheapest
  BY <1>5, FindsCheapest
<1>6. CASE LoadCheapest
  BY <1>6, LoadsCheapest
<1>7. CASE Aggregate
  BY <1>7, Aggregates
<1>8. CASE FindLowest
  BY <1>8, FindsLowest
<1>9. CASE CountConfirms
  BY <1>9, CountsConfirms
<1>10. CASE ListIds
  BY <1>10, ListsIds
<1>11. CASE LoadRows
  BY <1>11, LoadsRows
<1>12. CASE CountRows
  BY <1>12, CountsRows
<1>13. CASE UNCHANGED boardVars
  <2>1. reader' = reader /\ UNCHANGED <<board, writes, changed, came, gone>>
    BY <1>13 DEF boardVars
  <2>2. CASE reader = NoRead
    BY <2>1, <2>2 DEF BoardInv, BoardTyped
  <2>3. CASE CardsOK
    <3>1. BoardTyped /\ reader'.near = reader.near
      BY <2>1 DEF BoardInv
    <3>2. /\ Priced' = Priced /\ Offered' = Offered /\ BoardTyped'
          /\ \A g : WeekOffers(g)' = WeekOffers(g)
          /\ \A x : Amount(x)' = Amount(x) /\ board'[x] = board[x] /\ (Least(x)' <=> Least(x))
      BY <2>1, <3>1, CardStep
    <3>3. CardsLeft' = CardsLeft
      BY <2>1 DEF CardsLeft
    <3>4. (IdsFound => IdsFound') /\ (IdsFresh => IdsFresh')
      BY <2>1, <3>2, <3>3 DEF IdsFound, IdsFresh
    <3>5. (RowsFresh => RowsFresh') /\ (VotesFresh => VotesFresh')
      BY <2>1, <3>2 DEF RowsFresh, VotesFresh, AsRead
    <3>6. SumsFresh => SumsFresh'
      BY <2>1, <3>1, SumsStay
    <3>7. LowsFresh => LowsFresh'
      <4> SUFFICES ASSUME LowsFresh, NEW x \in DOMAIN reader.rows, NEW g, g = reader.rows[x].goods, g \notin changed
                   PROVE  IF WeekOffers(g)' = {} THEN g \notin DOMAIN reader.lows
                          ELSE g \in DOMAIN reader.lows /\ reader.lows[g] = Min({Amount(z) : z \in WeekOffers(g)}')
        BY <2>1 DEF LowsFresh, AsRead
      <4>1. WeekOffers(g)' = WeekOffers(g) /\ {Amount(z) : z \in WeekOffers(g)}' = {Amount(z) : z \in WeekOffers(g)}
        BY <3>2
      <4>2. IF WeekOffers(g) = {} THEN g \notin DOMAIN reader.lows
            ELSE g \in DOMAIN reader.lows /\ reader.lows[g] = Min({Amount(z) : z \in WeekOffers(g)})
        BY DEF LowsFresh, AsRead
      <4> QED
        BY <4>1, <4>2
    <3>8. CardsOK'
      BY <2>1, <2>3, <3>2, <3>4, <3>5, <3>6, <3>7 DEF CardsOK
    <3> QED
      BY <3>2, <3>8 DEF BoardInv
  <2>4. CASE ListOK
    <3>1. ListHeld' = ListHeld /\ BoardTyped' /\ \A x : HeldBefore(x)' = HeldBefore(x)
      BY <2>1, ListStep DEF BoardInv
    <3>2. RowsRead' = RowsRead
      BY <2>1 DEF RowsRead
    <3>3. \A x : (ShownOnce(x) => ShownOnce(x)') /\ (IsShown(x) => IsShown(x)') /\ (ToBeShown(x) => ToBeShown(x)')
      BY <2>1, <3>1, <3>2 DEF ShownOnce, IsShown, ToBeShown
    <3>4. ListOK'
      BY <2>1, <2>4, <3>1, <3>3 DEF ListOK
    <3> QED
      BY <3>1, <3>4 DEF BoardInv
  <2> QED
    BY <2>2, <2>3, <2>4 DEF BoardInv
<1>14. CASE BoardNext
  <2>1. \/ Changes \/ Merges \/ CardsStart \/ StartList("recent", 0) \/ OfSeller \/ OfGoods \/ OfShop
        \/ CountProducts \/ FindCheapest \/ LoadCheapest \/ Aggregate \/ FindLowest \/ CountConfirms
        \/ ListIds \/ LoadRows \/ CountRows
    BY <1>14, Zenon DEF BoardNext
  <2> HIDE DEF Changes, Merges, CardsStart, OfSeller, OfGoods, OfShop
  <2> QED
    BY <1>1, <1>2, <1>3, <1>4, <1>5, <1>6, <1>7, <1>8, <1>9, <1>10, <1>11, <1>12, <2>1
<1> QED
  BY <1>13, <1>14

LEMMA BoardIsTyped ==
  ASSUME BoardInv
  PROVE  BoardTypeOK
<1>1. /\ board \in [Prices -> BoardRow] /\ writes \in 0..MaxWrites
      /\ changed \subseteq Goods /\ came \subseteq Prices /\ gone \subseteq Prices
  BY DEF BoardInv, BoardTyped
<1>2. CASE reader = NoRead
  BY <1>1, <1>2, ReadsAre DEF BoardTypeOK, CardPcs
<1>3. CASE CardsOK
  <2>1. reader \in CardRead
    BY <1>3 DEF CardsOK
  <2>2. /\ reader.near \in BOOLEAN /\ reader.page \in Nat \ {0} /\ reader.total \in Nat
        /\ reader.ids \in Seq(Prices)
        /\ reader.rows \in UNION {[S -> PricedRow] : S \in SUBSET Prices}
        /\ reader.sums \in UNION {[S -> SumsRow] : S \in SUBSET Goods}
        /\ reader.lows \in UNION {[S -> Nat] : S \in SUBSET Goods}
        /\ reader.votes \in UNION {[S -> Nat] : S \in SUBSET Prices}
    BY <2>1 DEF CardRead
  <2>3. /\ DOMAIN reader.rows \subseteq Prices /\ DOMAIN reader.sums \subseteq Goods
        /\ DOMAIN reader.lows \subseteq Goods /\ DOMAIN reader.votes \subseteq Prices
    BY <2>2
  <2>4. Range(reader.ids) \subseteq Prices
    BY <2>2 DEF Range
  <2>5. reader.pc \in CardPcs \cup {"failed"} /\ reader.pc \notin ListPcs
    BY <2>1, ReadsAre
  <2> QED
    BY <1>1, <2>2, <2>3, <2>4, <2>5 DEF BoardTypeOK, ListPcs
<1>4. CASE ListOK
  <2>1. reader \in ListRead
    BY <1>4 DEF ListOK
  <2>2. reader.pc \in ListPcs /\ reader.pc \notin CardPcs \cup {"failed"}
    BY <2>1, ReadsAre
  <2>3. /\ reader.list \in Lists /\ reader.page \in Nat \ {0} /\ reader.ids \in Seq(Prices)
        /\ reader.shown \in Seq(Prices) /\ reader.stayed \subseteq Prices /\ reader.tied \subseteq Prices
    BY <2>1 DEF ListRead
  <2> QED
    BY <1>1, <2>2, <2>3 DEF BoardTypeOK, ListPcs
<1> QED
  BY <1>2, <1>3, <1>4 DEF BoardInv

THEOREM ReadsFit == BoardSpec => [](BoardTypeOK /\ PricesRead)
<1>1. BoardInv => BoardTypeOK /\ PricesRead
  BY BoardIsTyped, CardsFit, ListsFit DEF PricesRead
<1> QED
  BY <1>1, BoardStarts, BoardSteps, PTL DEF BoardSpec

-----------------------------------------------------------------------------
(* Types and bounds.  An announcement needs a verification of its own, and a *)
(* page that is read ends before the users do.                               *)

Active == {c \in Checks : check[c].pc # "idle"}

AlertsCounted ==
  /\ verified \in 0..MaxVerified /\ losses \in 0..MaxLosses /\ closed \subseteq Verifiers
  /\ IsFiniteSet(Active)
  /\ \A u \in Verifiers :
       /\ verifications[u] <= verified
       /\ \A t \in Thresholds : news[u][t] + Cardinality(Active) <= verified

LEMMA AlertsStart == BadgeAlertsInit => AlertsCounted
<1> SUFFICES ASSUME BadgeAlertsInit PROVE AlertsCounted
  OBVIOUS
<1>1. /\ verified = 0 /\ losses = 0 /\ closed = {}
      /\ verifications = [u \in Verifiers |-> 0] /\ news = [u \in Verifiers |-> [t \in Thresholds |-> 0]]
      /\ \A c \in Checks : check[c].pc = "idle"
  BY DEF BadgeAlertsInit, NoCheck
<1>2. Active = {}
  BY <1>1 DEF Active
<1>3. IsFiniteSet(Active) /\ Cardinality(Active) = 0
  BY <1>2, FS_EmptySet
<1> QED
  BY <1>1, <1>3, BadgeAlertsAssumption DEF AlertsCounted

\* One check less, or none.
LEMMA FewerChecks ==
  ASSUME AlertsCounted, Active' \subseteq Active
  PROVE  IsFiniteSet(Active)' /\ Cardinality(Active)' <= Cardinality(Active)
         /\ Cardinality(Active)' \in Nat /\ Cardinality(Active) \in Nat
<1>1. Active' \in SUBSET Active /\ IsFiniteSet(Active)
  BY DEF AlertsCounted
<1> QED
  BY <1>1, FS_Subset, FS_CardinalityType

LEMMA AlertsStep == IInv /\ AlertsCounted /\ [BadgeAlertsNext]_alertVars => AlertsCounted'
<1> SUFFICES ASSUME IInv, AlertsCounted, [BadgeAlertsNext]_alertVars PROVE AlertsCounted'
  OBVIOUS
<1>t. TableTypes
  BY DEF IInv
<1>b. /\ verifications \in [Verifiers -> Nat] /\ news \in [Verifiers -> [Thresholds -> Nat]]
      /\ check \in [Checks -> CheckType]
      /\ \A u \in Verifiers : verifications[u] \in Nat /\ \A t \in Thresholds : news[u][t] \in Nat
  BY <1>t DEF TableTypes
<1>n. IsFiniteSet(Active) /\ Cardinality(Active) \in Nat /\ verified \in Nat
  BY FS_CardinalityType, BadgeAlertsAssumption DEF AlertsCounted
<1>1. ASSUME NEW c \in Checks, NEW u \in Verifiers, Verify(c, u) PROVE AlertsCounted'
  <2>1. /\ check[c].pc = "idle" /\ verified < MaxVerified /\ verified' = verified + 1
        /\ verifications' = [verifications EXCEPT ![u] = @ + 1]
        /\ check' = [check EXCEPT ![c] = [NoCheck EXCEPT !.pc = "count", !.verifier = u]]
        /\ UNCHANGED <<news, closed, losses>>
    BY <1>1 DEF Verify
  <2>2. \A d \in Checks : d # c => check'[d] = check[d]
    BY <1>b, <2>1
  <2>3. check'[c].pc = "count"
    BY <1>b, <2>1 DEF NoCheck
  <2>4. Active' = Active \cup {c} /\ c \notin Active
    BY <2>1, <2>2, <2>3 DEF Active
  <2>5. IsFiniteSet(Active') /\ Cardinality(Active') = Cardinality(Active) + 1
    BY <1>n, <2>4, FS_AddElement
  <2>6. \A v \in Verifiers : verifications'[v] <= verified'
    BY <1>b, <1>n, <2>1 DEF AlertsCounted
  <2>7. \A v \in Verifiers, t \in Thresholds : news'[v][t] + Cardinality(Active') <= verified'
    BY <1>b, <1>n, <2>1, <2>5 DEF AlertsCounted
  <2>8. verified' \in 0..MaxVerified
    BY <1>n, <2>1, BadgeAlertsAssumption
  <2> QED
    BY <2>1, <2>5, <2>6, <2>7, <2>8 DEF AlertsCounted
<1>2. ASSUME Active' \subseteq Active, UNCHANGED <<verifications, news, closed, verified, losses>> PROVE AlertsCounted'
  BY <1>2, <1>b, <1>n, FewerChecks DEF AlertsCounted
<1>3. ASSUME NEW c \in Checks, check'[c].pc # "idle" => check[c].pc # "idle",
             \A d \in Checks \ {c} : check'[d] = check[d]
      PROVE  Active' \subseteq Active
  BY <1>3 DEF Active
<1>4. ASSUME NEW c \in Checks, CountVerifications(c) \/ LoadVerifier(c) \/ CrashCheck(c) PROVE AlertsCounted'
  <2>1. /\ UNCHANGED <<verifications, news, closed, verified, losses>> /\ check[c].pc # "idle"
    BY <1>4 DEF CountVerifications, LoadVerifier, CrashCheck
  <2>2. \A d \in Checks \ {c} : check'[d] = check[d]
    BY <1>4, <1>b DEF CountVerifications, LoadVerifier, CrashCheck, Forget
  <2> QED
    BY <1>2, <1>3, <2>1, <2>2
<1>5. ASSUME NEW c \in Checks, SaveNews(c) PROVE AlertsCounted'
  <2> DEFINE u == check[c].verifier
             t == check[c].threshold
  <2>1. /\ check[c].pc = "save" /\ news' = IF u \in closed THEN news ELSE [news EXCEPT ![u][t] = @ + 1]
        /\ check' = [check EXCEPT ![c] = NoCheck] /\ UNCHANGED <<verifications, closed, verified, losses>>
    BY <1>5 DEF SaveNews, Forget
  <2>2. u \in Verifiers /\ t \in Thresholds
    BY <1>t, <2>1 DEF TableTypes
  <2> HIDE DEF u, t
  <2>3. Active' = Active \ {c} /\ c \in Active
    <3>1. check'[c].pc = "idle" /\ \A d \in Checks : d # c => check'[d] = check[d]
      BY <1>b, <2>1 DEF NoCheck
    <3> QED
      BY <2>1, <3>1 DEF Active
  <2>4. IsFiniteSet(Active') /\ Cardinality(Active') = Cardinality(Active) - 1
    BY <1>n, <2>3, FS_RemoveElement
  <2>5. \A v \in Verifiers, s \in Thresholds : news'[v][s] <= news[v][s] + 1 /\ news'[v][s] \in Nat
    BY <1>b, <2>1, <2>2
  <2>6. \A v \in Verifiers, s \in Thresholds : news'[v][s] + Cardinality(Active') <= verified'
    BY <1>b, <1>n, <2>1, <2>4, <2>5 DEF AlertsCounted
  <2> QED
    BY <2>1, <2>4, <2>6 DEF AlertsCounted
<1>6. ASSUME NEW us \in SUBSET Verifiers, RemovePrice(us) PROVE AlertsCounted'
  <2>1. /\ losses < MaxLosses /\ losses' = losses + 1 /\ \A u \in us : verifications[u] > 0
        /\ verifications' = [u \in Verifiers |-> verifications[u] - IF u \in us THEN 1 ELSE 0]
        /\ UNCHANGED <<check, news, closed, verified>>
    BY <1>6 DEF RemovePrice
  <2>2. Active' = Active
    BY <2>1 DEF Active
  <2>3. \A u \in Verifiers : verifications'[u] <= verified'
    BY <1>b, <1>n, <2>1 DEF AlertsCounted
  <2>4. losses' \in 0..MaxLosses
    BY <2>1, BadgeAlertsAssumption DEF AlertsCounted
  <2> QED
    BY <2>1, <2>2, <2>3, <2>4 DEF AlertsCounted
<1>7. ASSUME NEW u \in Verifiers, CloseAccount(u) PROVE AlertsCounted'
  <2>1. /\ closed' = closed \cup {u} /\ verifications' = [verifications EXCEPT ![u] = 0]
        /\ news' = [news EXCEPT ![u] = [t \in Thresholds |-> 0]]
        /\ UNCHANGED <<check, verified, losses>>
    BY <1>7 DEF CloseAccount
  <2>2. Active' = Active
    BY <2>1 DEF Active
  <2>3. \A v \in Verifiers : verifications'[v] <= verified'
    BY <1>b, <1>n, <2>1 DEF AlertsCounted
  <2>4. \A v \in Verifiers, t \in Thresholds : news'[v][t] <= news[v][t] /\ news'[v][t] \in Nat
    BY <1>b, <2>1
  <2>5. \A v \in Verifiers, t \in Thresholds : news'[v][t] + Cardinality(Active') <= verified'
    BY <1>b, <1>n, <2>1, <2>2, <2>4 DEF AlertsCounted
  <2> QED
    BY <2>1, <2>2, <2>3, <2>5 DEF AlertsCounted
<1>8. CASE UNCHANGED alertVars
  <2>1. Active' \subseteq Active /\ UNCHANGED <<verifications, news, closed, verified, losses>>
    BY <1>8 DEF Active, alertVars
  <2> QED
    BY <1>2, <2>1
<1> QED
  BY <1>1, <1>4, <1>5, <1>6, <1>7, <1>8 DEF BadgeAlertsNext

LEMMA AlertsAreTyped == IInv /\ AlertsCounted => BadgeAlertsTypeOK
<1> SUFFICES ASSUME IInv, AlertsCounted PROVE BadgeAlertsTypeOK
  OBVIOUS
<1>1. /\ verifications \in [Verifiers -> Nat] /\ news \in [Verifiers -> [Thresholds -> Nat]]
      /\ check \in [Checks -> CheckType] /\ disturbed \in [Verifiers -> SUBSET Thresholds]
  BY DEF IInv, TableTypes
<1>2. /\ verified \in 0..MaxVerified /\ losses \in 0..MaxLosses /\ closed \subseteq Verifiers
      /\ Cardinality(Active) \in Nat /\ verified \in Nat
  BY FS_CardinalityType, BadgeAlertsAssumption DEF AlertsCounted
<1>3. \A u \in Verifiers : verifications[u] \in 0..MaxVerified
  BY <1>1, <1>2, BadgeAlertsAssumption DEF AlertsCounted
<1>4. \A u \in Verifiers, t \in Thresholds : news[u][t] \in 0..MaxVerified
  BY <1>1, <1>2, BadgeAlertsAssumption DEF AlertsCounted
<1>5. verifications \in [Verifiers -> 0..MaxVerified]
  BY <1>1, <1>3
<1>6. news \in [Verifiers -> [Thresholds -> 0..MaxVerified]]
  BY <1>1, <1>4
<1> QED
  BY <1>1, <1>2, <1>5, <1>6 DEF BadgeAlertsTypeOK, CheckType

LEMMA AlertsAlwaysTyped == BadgeAlertsSpec => []BadgeAlertsTypeOK
<1>1. BadgeAlertsSpec => []IInv
  BY Invariance
<1> QED
  BY <1>1, AlertsStart, AlertsStep, AlertsAreTyped, PTL DEF BadgeAlertsSpec

\* So many whole pages have been skipped, and if one is in hand there are users beyond.
SkipOK(r) ==
  \E n \in 0..Cardinality(Users) :
    /\ r.skip = BatchSize * n
    /\ r.kind = "flyer" /\ r.pc \in {"save", "send", "clear"} => n < Cardinality(Users)

SkipsOK == \A p \in Pushes : SkipOK(push[p])

LEMMA SkipStays ==
  ASSUME NEW r, NEW q, SkipOK(r), q.skip = r.skip, q.kind = r.kind,
         q.pc \in {"save", "send", "clear"} => r.pc \in {"save", "send", "clear"}
  PROVE  SkipOK(q)
BY DEF SkipOK

\* The page that a push reads, or ends for want of one.
LEMMA SkipReads ==
  ASSUME BroadcastInv, SkipsOK, NEW p \in Pushes, ReadPage(p)
  PROVE  SkipsOK'
<1> DEFINE R == Receivers(p)
           r == push[p]
           some == IF r.kind = "price" THEN R
                   ELSE {u \in R : Rank(u, R) \in r.skip .. r.skip + BatchSize - 1}
           pc == IF some = {} THEN "done" ELSE "save"
           page == {[user |-> u, token |-> token[u]] : u \in some}
           q == [r EXCEPT !.pc = pc, !.page = page]
<1>1. push' = [push EXCEPT ![p].pc = pc, ![p].page = page]
  BY DEF ReadPage
<1>2. push \in [Pushes -> PushRecord] /\ r \in PushRecord
  BY DEF BroadcastInv, BroadcastTyped
<1>3. push'[p] = q /\ \A d \in Pushes \ {p} : push'[d] = push[d]
  BY <1>1, <1>2
<1>4. q.skip = r.skip /\ q.kind = r.kind /\ q.pc = pc /\ r.kind \in Kinds
  <2> HIDE DEF pc, page, r
  <2> QED
    BY <1>2 DEF PushRecord
<1>5. PICK n \in 0..Cardinality(Users) : r.skip = BatchSize * n
  BY DEF SkipsOK, SkipOK
<1>6. ASSUME r.kind = "flyer", some # {} PROVE n < Cardinality(Users)
  <2>1. PICK u \in R : Rank(u, R) >= r.skip
    <3>1. PICK u \in some : TRUE
      BY <1>6
    <3>2. u \in R /\ Rank(u, R) \in r.skip .. r.skip + BatchSize - 1
      BY <1>6
    <3> QED
      BY <3>2
  <2>2. R \in SUBSET Users
    BY DEF Receivers
  <2> HIDE DEF R
  <2>3. IsFiniteSet(R) /\ IsFiniteSet(Users) /\ u \in Users /\ u \in Nat
    BY <2>2, BroadcastAssumption, FS_Subset
  <2>4. {v \in R : v < u} \in SUBSET (Users \ {u})
    <3>1. \A v \in R : v < u => v # u
      BY <2>2, <2>3, BroadcastAssumption
    <3> QED
      BY <2>2, <3>1
  <2>5. /\ IsFiniteSet(Users \ {u}) /\ Cardinality(Users \ {u}) = Cardinality(Users) - 1
        /\ Cardinality(Users) \in Nat
    BY <2>3, FS_RemoveElement, FS_CardinalityType
  <2>6. Rank(u, R) <= Cardinality(Users \ {u})
    BY <2>4, <2>5, FS_Subset DEF Rank
  <2>7. Rank(u, R) \in Nat
    BY <2>3, RankType
  <2>8. n <= BatchSize * n /\ BatchSize * n \in Nat /\ n \in Nat
    <3>1. n \in Nat /\ BatchSize \in Nat \ {0}
      BY <2>5, BroadcastAssumption
    <3>2. BatchSize - 1 \in Nat
      BY <3>1
    <3>3. PICK m \in Nat : BatchSize = m + 1
      BY <3>1, <3>2
    <3>4. BatchSize * n = m * n + n /\ m * n \in Nat
      BY <3>1, <3>3
    <3> QED
      BY <3>1, <3>4
  <2> HIDE DEF r
  <2> QED
    BY <1>5, <2>1, <2>5, <2>6, <2>7, <2>8
<1>7. pc \in {"save", "send", "clear"} => some # {}
  OBVIOUS
<1> HIDE DEF pc, some, q
<1>8. SkipOK(q)
  BY <1>4, <1>5, <1>6, <1>7 DEF SkipOK
<1> QED
  BY <1>3, <1>8 DEF SkipsOK

LEMMA SkipNext ==
  ASSUME BroadcastInv, SkipsOK, NEW p \in Pushes, push[p].pc \in {"send", "clear"}, NextPage(p)
  PROVE  SkipsOK'
<1> DEFINE r == push[p]
           pc == IF r.kind = "price" \/ Cardinality(r.page) < BatchSize THEN "done" ELSE "read"
           skip == IF r.kind = "price" THEN r.skip ELSE r.skip + BatchSize
           q == [r EXCEPT !.pc = pc, !.skip = skip, !.page = {}, !.failed = {}]
<1>1. push \in [Pushes -> PushRecord] /\ r \in PushRecord
  BY DEF BroadcastInv, BroadcastTyped
<1>2. push'[p] = q /\ \A d \in Pushes \ {p} : push'[d] = push[d]
  BY <1>1 DEF NextPage
<1>3. pc \in {"done", "read"} /\ r.kind \in Kinds
  BY <1>1 DEF PushRecord
<1>4. q.skip = skip /\ q.kind = r.kind /\ q.pc = pc
  <2> HIDE DEF pc, skip, r
  <2> QED
    BY <1>1 DEF PushRecord
<1>5. PICK n \in 0..Cardinality(Users) :
         r.skip = BatchSize * n /\ (r.kind = "flyer" => n < Cardinality(Users))
  BY DEF SkipsOK, SkipOK
<1>6. Cardinality(Users) \in Nat /\ BatchSize \in Nat
  BY BroadcastAssumption, FS_CardinalityType
<1>7. ASSUME r.kind = "price" PROVE SkipOK(q)
  <2> HIDE DEF q, pc
  <2> QED
    BY <1>3, <1>4, <1>5, <1>7 DEF SkipOK
<1>8. ASSUME r.kind = "flyer" PROVE SkipOK(q)
  <2>1. n + 1 \in 0..Cardinality(Users)
    BY <1>5, <1>6, <1>8
  <2>2. BatchSize * (n + 1) = BatchSize * n + BatchSize
    BY <1>5, <1>6
  <2>3. q.skip = BatchSize * (n + 1)
    BY <1>4, <1>5, <1>8, <2>2
  <2> HIDE DEF q, pc
  <2> QED
    BY <1>3, <1>4, <2>1, <2>3 DEF SkipOK
<1>9. SkipOK(q)
  BY <1>3, <1>7, <1>8 DEF Kinds
<1> QED
  BY <1>2, <1>9 DEF SkipsOK

LEMMA SkipsStart == BroadcastInit => SkipsOK
<1> SUFFICES ASSUME BroadcastInit, NEW p \in Pushes PROVE SkipOK(push[p])
  BY DEF SkipsOK
<1>1. push[p].skip = 0 /\ push[p].pc = "idle"
  BY DEF BroadcastInit, NoPush
<1>2. 0 \in 0..Cardinality(Users) /\ 0 = BatchSize * 0
  BY BroadcastAssumption, FS_CardinalityType
<1> QED
  BY <1>1, <1>2 DEF SkipOK

\* One push goes on, no further than it was.
LEMMA SkipsStay ==
  ASSUME SkipsOK, NEW p \in Pushes, NEW r, push' = [push EXCEPT ![p] = r],
         push \in [Pushes -> PushRecord], SkipOK(r)
  PROVE  SkipsOK'
<1>1. \A d \in Pushes : push'[d] = IF d = p THEN r ELSE push[d]
  OBVIOUS
<1> QED
  BY <1>1 DEF SkipsOK

LEMMA NoteSkips ==
  ASSUME SkipsOK, NEW u \in Users, NEW before, NEW after, TakeNote(u, before, after),
         push \in [Pushes -> PushRecord]
  PROVE  SkipsOK'
<1> SUFFICES ASSUME NEW p \in Pushes PROVE SkipOK(push'[p])
  BY DEF SkipsOK
<1> DEFINE r == push[p]
           stayed == IF r.kind \in after THEN r.stayed ELSE r.stayed \ {u}
           arrived == IF r.kind \in after \ before THEN r.came \cup {u} ELSE r.came
           left == IF r.kind \in before \ after THEN r.gone \cup {u} ELSE r.gone
           q == [r EXCEPT !.stayed = stayed, !.came = arrived, !.gone = left]
<1>1. push'[p] = IF r.pc \in {"idle", "done", "crashed"} THEN r ELSE q
  BY DEF TakeNote, Running
<1>2. r \in PushRecord /\ SkipOK(r)
  BY DEF SkipsOK
<1>3. q.skip = r.skip /\ q.kind = r.kind /\ q.pc = r.pc
  <2> HIDE DEF stayed, arrived, left, r
  <2> QED
    BY <1>2 DEF PushRecord
<1> HIDE DEF q, r
<1>4. SkipOK(q)
  BY <1>2, <1>3, SkipStays
<1> QED
  BY <1>1, <1>2, <1>4

LEMMA SkipsStep == BroadcastInv /\ SkipsOK /\ [BroadcastNext]_broadcastVars => SkipsOK'
<1> SUFFICES ASSUME BroadcastInv, SkipsOK, [BroadcastNext]_broadcastVars PROVE SkipsOK'
  OBVIOUS
<1>t. push \in [Pushes -> PushRecord] /\ \A p \in Pushes : push[p] \in PushRecord /\ SkipOK(push[p])
  BY DEF BroadcastInv, BroadcastTyped, SkipsOK
<1>1. ASSUME UNCHANGED push PROVE SkipsOK'
  BY <1>1 DEF SkipsOK
<1>2. ASSUME NEW p \in Pushes, NEW kind \in Kinds, NEW by \in Users \cup {NoReceiver},
             StartPush(p, kind, by)
      PROVE  SkipsOK'
  <2> DEFINE stayed == {u \in Users \ {by} : Gets(u, kind)}
             r == [NoPush EXCEPT !.pc = "read", !.kind = kind, !.registerer = by, !.stayed = stayed]
  <2>1. push' = [push EXCEPT ![p] = r]
    BY <1>2 DEF StartPush
  <2>2. r.skip = 0 /\ r.pc = "read"
    <3> HIDE DEF stayed
    <3> QED
      BY DEF NoPush
  <2> HIDE DEF r
  <2>3. SkipOK(r)
    <3>1. 0 \in 0..Cardinality(Users) /\ 0 = BatchSize * 0
      BY BroadcastAssumption, FS_CardinalityType
    <3> QED
      BY <2>2, <3>1 DEF SkipOK
  <2> QED
    BY <1>t, <2>1, <2>3, SkipsStay
<1>3. ASSUME NEW p \in Pushes, ReadPage(p) PROVE SkipsOK'
  BY <1>3, SkipReads
<1>4. ASSUME NEW p \in Pushes, NEW where, Push(p, where),
             where \in {"save", "send", "clear"} => push[p].pc \in {"save", "send", "clear"}
      PROVE  SkipsOK'
  <2> DEFINE r == push[p]
             q == [r EXCEPT !.pc = where]
  <2>1. push' = [push EXCEPT ![p] = q]
    BY <1>4, <1>t DEF Push
  <2>2. q.skip = r.skip /\ q.kind = r.kind /\ q.pc = where
    <3> HIDE DEF r
    <3> QED
      BY <1>t DEF PushRecord, r
  <2> HIDE DEF q
  <2>3. SkipOK(q)
    BY <1>4, <1>t, <2>2, SkipStays
  <2> QED
    BY <1>t, <2>1, <2>3, SkipsStay
<1>5. ASSUME NEW p \in Pushes, SavePage(p) \/ CrashPush(p) PROVE SkipsOK'
  BY <1>4, <1>5 DEF SavePage, CrashPush, PushAt
<1>6. ASSUME NEW p \in Pushes, Send(p) PROVE SkipsOK'
  <2>1. push[p].pc = "send"
    BY <1>6 DEF Send, PushAt
  <2>2. PICK failed \in SUBSET ({item.token : item \in push[p].page} \cap expired) :
           IF failed = {} THEN NextPage(p)
           ELSE push' = [push EXCEPT ![p].pc = "clear", ![p].failed = failed]
    BY <1>6 DEF Send
  <2>3. CASE NextPage(p)
    BY <2>1, <2>3, SkipNext
  <2>4. CASE push' = [push EXCEPT ![p].pc = "clear", ![p].failed = failed]
    <3> DEFINE r == push[p]
               q == [r EXCEPT !.pc = "clear", !.failed = failed]
    <3>1. push' = [push EXCEPT ![p] = q]
      BY <2>4, <1>t
    <3>2. q.skip = r.skip /\ q.kind = r.kind
      BY <1>t DEF PushRecord
    <3> HIDE DEF q
    <3>3. SkipOK(q)
      BY <1>t, <2>1, <3>2, SkipStays
    <3> QED
      BY <1>t, <3>1, <3>3, SkipsStay
  <2> QED
    BY <2>2, <2>3, <2>4
<1>7. ASSUME NEW p \in Pushes, Clear(p) PROVE SkipsOK'
  BY <1>7, SkipNext DEF Clear, PushAt
<1>8. ASSUME NEW u \in Users, NEW kinds, NEW t,
             Agree(u, kinds) \/ Join(u, kinds, t) \/ RemoveUser(u)
      PROVE  SkipsOK'
  BY <1>8, <1>t, NoteSkips DEF Agree, Join, RemoveUser
<1>9. CASE UNCHANGED broadcastVars
  BY <1>1, <1>9 DEF broadcastVars
<1>10. ASSUME NEW u, NEW t, UpdateFcmToken(u, t) \/ Expire(t) PROVE SkipsOK'
  BY <1>1, <1>10 DEF UpdateFcmToken, Expire
<1> QED
  BY <1>2, <1>3, <1>5, <1>6, <1>7, <1>8, <1>9, <1>10 DEF BroadcastNext

LEMMA BroadcastIsTyped == BroadcastInv /\ SkipsOK => BroadcastTypeOK
<1> SUFFICES ASSUME BroadcastInv, SkipsOK PROVE BroadcastTypeOK
  OBVIOUS
<1> DEFINE Skips_ == {BatchSize * n : n \in 0..Cardinality(Users) + MaxChanges}
<1>1. ASSUME NEW p \in Pushes PROVE push[p].skip \in Skips_
  <2>1. PICK n \in 0..Cardinality(Users) : push[p].skip = BatchSize * n
    BY DEF SkipsOK, SkipOK
  <2>2. n \in 0..Cardinality(Users) + MaxChanges
    BY BroadcastAssumption, FS_CardinalityType
  <2> QED
    BY <2>1, <2>2
<1>2. ASSUME NEW p \in Pushes
      PROVE  /\ push[p].pc \in {"idle", "read", "save", "send", "clear", "done", "crashed"}
             /\ push[p].kind \in Kinds
             /\ push[p].registerer \in Users \cup {NoReceiver}
             /\ push[p].page \subseteq [user : Users, token : Tokens \cup {NoToken}]
             /\ push[p].failed \subseteq Tokens
             /\ push[p].stayed \subseteq Users /\ push[p].came \subseteq Users
             /\ push[p].gone \subseteq Users
  BY DEF BroadcastInv, BroadcastTyped, PushRecord
<1>3. ASSUME NEW p \in Pushes, NEW who \in {"stayed", "came", "gone"}
      PROVE  push[p][who] \subseteq Users
  BY <1>2, <1>3
<1> HIDE DEF Skips_
<1>4. \A p \in Pushes :
       /\ push[p].pc \in {"idle", "read", "save", "send", "clear", "done", "crashed"}
       /\ push[p].kind \in Kinds
       /\ push[p].registerer \in Users \cup {NoReceiver}
       /\ push[p].skip \in Skips_
       /\ push[p].page \subseteq [user : Users, token : Tokens \cup {NoToken}]
       /\ push[p].failed \subseteq Tokens
       /\ \A who \in {"stayed", "came", "gone"} : push[p][who] \subseteq Users
  BY <1>1, <1>2, <1>3
<1> QED
  BY <1>4 DEF BroadcastInv, BroadcastTyped, BroadcastTypeOK, Skips_

LEMMA BroadcastAlwaysTyped == BroadcastSpec => []BroadcastTypeOK
BY BroadcastStart, BroadcastStep, SkipsStart, SkipsStep, BroadcastIsTyped, PTL DEF BroadcastSpec

LEMMA InboxIsTyped == InboxInv => InboxTypeOK
<1> SUFFICES ASSUME InboxInv PROVE InboxTypeOK
  OBVIOUS
<1>1. \A l \in Listings :
       /\ listing[l].pc \in {"idle", "page", "done"}
       /\ listing[l].user \in Readers \cup {NoReader}
       /\ listing[l].cursor \in 0..MaxClock + 1
       /\ listing[l].shown \in Seq([note : Notes, at : 0..MaxClock])
       /\ listing[l].there \subseteq Notes
       /\ listing[l].ends \subseteq 0..MaxClock
  BY DEF InboxInv, InboxTyped, ListingRecord, ShownItem
<1> QED
  BY <1>1 DEF InboxInv, InboxTyped, InboxTypeOK, MarkRecord

LEMMA InboxAlwaysTyped == InboxSpec => []InboxTypeOK
BY InboxStart, InboxSteps, InboxIsTyped, PTL DEF InboxSpec

-----------------------------------------------------------------------------
(* All of it at once.  A component is explored while the others rest, so    *)
(* that each behaviour of the whole is one of every component.             *)

LEMMA AllStart ==
  Init => /\ BroadcastInit /\ BadgeAlertsInit /\ InboxInit /\ CatalogInit /\ StoresInit
          /\ SearchInit /\ BoardInit
BY DEF Init, BroadcastAtRest, CatalogAtRest, SearchAtRest, BoardAtRest

LEMMA AllSteps ==
  [Next]_vars =>
    /\ [BroadcastNext]_broadcastVars /\ [BadgeAlertsNext]_alertVars /\ [InboxNext]_inboxVars
    /\ [CatalogNext]_catalogVars /\ [StoresNext]_storeVars /\ [SearchNext]_searchVars
    /\ [BoardNext]_boardVars
BY Zenon DEF Next, vars

\* A behaviour of the whole is one of each component.
THEOREM AllComponents ==
  Spec => /\ BroadcastSpec /\ BadgeAlertsSpec /\ InboxSpec
          /\ CatalogSpec /\ StoresSpec /\ SearchSpec /\ BoardSpec
BY AllStart, AllSteps, PTL
   DEF Spec, BroadcastSpec, BadgeAlertsSpec, InboxSpec, CatalogSpec, StoresSpec, SearchSpec, BoardSpec

\* Whatever the products, the files and the signs: what is offered stays whole.
THEOREM CatalogIsWhole == Spec => []CatalogWhole
BY AllComponents, ProductsAreWhole, StoresAreWhole, SearchIsWhole, PTL DEF CatalogWhole

\* Whatever the prices and whoever changes them: the cards and the lists that are read
\* meanwhile fit what was there.
THEOREM ReadsFitInMarket == Spec => []PricesRead
BY AllComponents, ReadsFit, PTL

Explored ==
  component \in {"broadcast", "alerts", "inbox", "catalog", "stores", "search", "board"}

\* Every component has its types, whichever is explored.
THEOREM MarketIsTyped == Spec => []TypeOK
<1>1. Init => Explored
  BY DEF Init, Explored
<1>2. Explored /\ [Next]_vars => Explored'
  BY DEF Explored, Next, vars
<1>3. /\ Explored /\ BroadcastTypeOK /\ BadgeAlertsTypeOK /\ InboxTypeOK /\ CatalogTypeOK
      /\ StoresTypeOK /\ SearchTypeOK /\ BoardTypeOK
      => TypeOK
  BY Zenon DEF Explored, TypeOK
<1> QED
  BY <1>1, <1>2, <1>3, AllComponents, BroadcastAlwaysTyped, AlertsAlwaysTyped, InboxAlwaysTyped,
     ProductsAreWhole, StoresAreWhole, SearchIsWhole, ReadsFit, PTL DEF Spec
=============================================================================
