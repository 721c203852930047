------------------------------ MODULE BadgeAlerts ------------------------------
(***************************************************************************)
(* The news of a badge: after a verification has committed,                *)
(* PriceVerificationService (src/src/price-verification) counts the        *)
(* verifications of the verifier and tells them of a badge if the count is *)
(* just its threshold.  Nobody waits for the count; other verifications of *)
(* the same user may commit before it, and the removal of a price takes    *)
(* verifications away.                                                     *)
(***************************************************************************)
EXTENDS Naturals, FiniteSets

CONSTANTS
  Verifiers,    \* ids of users
  Checks,       \* verifications in flight
  Thresholds,   \* 10, 50, 200 and 500 in the code
  MaxVerified,  \* bound: verifications committed
  MaxLosses,    \* bound: prices removed
  NoVerifier

ASSUME BadgeAlertsAssumption ==
  /\ Thresholds \subseteq Nat \ {0} /\ NoVerifier \notin Verifiers
  /\ MaxVerified \in Nat /\ MaxLosses \in Nat

VARIABLES
  verifications,   \* rows of price_verifications, by verifier
  check,           \* the local variables of each check
  news,            \* rows of notifications about a badge, by user and threshold
  closed,          \* accounts deleted
  verified, losses,
  disturbed        \* history: thresholds, by verifier, that a count may miss or repeat

alertVars ==
  <<verifications, check, news, closed, verified, losses, disturbed>>

NoCheck == [pc |-> "idle", verifier |-> NoVerifier, threshold |-> 0]

BadgeAlertsTypeOK ==
  /\ verifications \in [Verifiers -> 0..MaxVerified]
  /\ check \in [Checks -> [pc        : {"idle", "count", "load", "save"},
                           verifier  : Verifiers \cup {NoVerifier},
                           threshold : Thresholds \cup {0}]]
  /\ news \in [Verifiers -> [Thresholds -> 0..MaxVerified]]
  /\ closed \subseteq Verifiers
  /\ verified \in 0..MaxVerified /\ losses \in 0..MaxLosses
  /\ disturbed \in [Verifiers -> SUBSET Thresholds]

BadgeAlertsInit ==
  /\ verifications = [u \in Verifiers |-> 0]
  /\ check = [c \in Checks |-> NoCheck]
  /\ news = [u \in Verifiers |-> [t \in Thresholds |-> 0]]
  /\ closed = {}
  /\ verified = 0 /\ losses = 0
  /\ disturbed = [u \in Verifiers |-> {}]

-----------------------------------------------------------------------------
CheckOf(u) == {c \in Checks : check[c].verifier = u}

Forget(c) == check' = [check EXCEPT ![c] = NoCheck]

Disturbs(u, ts) == disturbed' = [disturbed EXCEPT ![u] = @ \cup ts]

\* A verification commits, and its check starts. One that is still uncounted now misses
\* its own number, and counts the number of this one too.
Verify(c, u) ==
  /\ check[c].pc = "idle" /\ u \notin closed
  /\ verified < MaxVerified
  /\ verified' = verified + 1
  /\ verifications' = [verifications EXCEPT ![u] = @ + 1]
  /\ check' = [check EXCEPT ![c] = [NoCheck EXCEPT !.pc = "count", !.verifier = u]]
  /\ Disturbs(u, {t \in Thresholds :
       t \in {verifications[u], verifications[u] + 1} /\ \E d \in CheckOf(u) : check[d].pc = "count"})
  /\ UNCHANGED <<news, closed, losses>>

\* Faulty variant: any count from the threshold on tells.
PassedThresholds(n) == {t \in Thresholds : t <= n}

\* VERIFICATION_BADGE_THRESHOLDS[n]
ReachedThresholds(n) == {t \in Thresholds : t = n}

CountVerifications(c) ==
  /\ check[c].pc = "count"
  /\ LET reached == ReachedThresholds(verifications[check[c].verifier])
     IN IF reached = {} THEN Forget(c)
        ELSE \E t \in reached :
               check' = [check EXCEPT ![c].pc = "load", ![c].threshold = t]
  /\ UNCHANGED <<verifications, news, closed, verified, losses, disturbed>>

LoadVerifier(c) ==
  /\ check[c].pc = "load"
  /\ IF check[c].verifier \in closed THEN Forget(c)
     ELSE check' = [check EXCEPT ![c].pc = "save"]
  /\ UNCHANGED <<verifications, news, closed, verified, losses, disturbed>>

\* The row is inserted, unless its user is gone; sending it may fail unnoticed.
SaveNews(c) ==
  LET u == check[c].verifier
      t == check[c].threshold
  IN /\ check[c].pc = "save"
     /\ news' = IF u \in closed THEN news ELSE [news EXCEPT ![u][t] = @ + 1]
     /\ Forget(c)
     /\ UNCHANGED <<verifications, closed, verified, losses, disturbed>>

\* The process ends before the check does.
CrashCheck(c) ==
  /\ check[c].pc # "idle"
  /\ LET u == check[c].verifier
     IN Disturbs(u, {t \in Thresholds :
          t = IF check[c].pc = "count" THEN verifications[u] ELSE check[c].threshold})
  /\ Forget(c)
  /\ UNCHANGED <<verifications, news, closed, verified, losses>>

\* A price that users us verified is removed, and their verifications with it.
RemovePrice(us) ==
  /\ losses < MaxLosses
  /\ losses' = losses + 1
  /\ us # {} /\ \A u \in us : verifications[u] > 0
  /\ verifications' = [u \in Verifiers |-> verifications[u] - IF u \in us THEN 1 ELSE 0]
  /\ disturbed' = [u \in Verifiers |-> disturbed[u] \cup
       IF u \in us THEN {t \in Thresholds : t >= verifications[u] - 1} ELSE {}]
  /\ UNCHANGED <<check, news, closed, verified>>

\* The account is deleted, and its verifications and notifications with it.
CloseAccount(u) ==
  /\ u \notin closed
  /\ closed' = closed \cup {u}
  /\ verifications' = [verifications EXCEPT ![u] = 0]
  /\ news' = [news EXCEPT ![u] = [t \in Thresholds |-> 0]]
  /\ UNCHANGED <<check, verified, losses, disturbed>>

BadgeAlertsNext ==
  \/ \E c \in Checks :
       \/ \E u \in Verifiers : Verify(c, u)
       \/ CountVerifications(c) \/ LoadVerifier(c) \/ SaveNews(c) \/ CrashCheck(c)
  \/ \E us \in SUBSET Verifiers : RemovePrice(us)
  \/ \E u \in Verifiers : CloseAccount(u)

BadgeAlertsSpec == BadgeAlertsInit /\ [][BadgeAlertsNext]_alertVars

-----------------------------------------------------------------------------
\* Of each badge whose threshold their verifications have passed, users hear exactly
\* once: never twice, and at least once when every check is through. The exceptions
\* are the number of a verification that another overtook before it was counted, or
\* whose check crashed, and the numbers reached again after a verified price was
\* removed.
BadgesAnnouncedOnce ==
  \A u \in Verifiers \ closed : \A t \in Thresholds \ disturbed[u] :
    /\ news[u][t] <= 1
    /\ CheckOf(u) = {} /\ verifications[u] >= t => news[u][t] = 1
=============================================================================
