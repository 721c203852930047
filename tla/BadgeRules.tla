------------------------------ MODULE BadgeRules ------------------------------
(***************************************************************************)
(* The 23 badges of src/src/badge/data/badge-definitions.ts and their      *)
(* evaluation (src/src/badge/services), free of any state.                 *)
(*                                                                         *)
(* evaluate() asks of some metrics to reach a threshold each (needs);      *)
(* progress() shows one of them (shows), or there is none.  Names, icons   *)
(* and descriptions are left out.                                          *)
(***************************************************************************)
EXTENDS Integers, FiniteSets

\* BadgeEvaluationContext: totalRegistrations, totalVerifications, trustScore,
\* totalPoints, daysSinceJoin.
Metrics == {"registrations", "verifications", "trust", "points", "days"}

Categories == {"REGISTRATION", "VERIFICATION", "TRUST", "POINT"}

Rule(id, category, rank, needs, shows) ==
  [id |-> id, category |-> category, rank |-> rank, needs |-> needs, shows |-> shows]

\* A badge of one metric, which its progress shows.
Simple(id, category, rank, metric, threshold) ==
  Rule(id, category, rank, [m \in {metric} |-> threshold], {metric})

Bronze ==
  {Rule(1, "REGISTRATION", 1, [m \in {} |-> 0], {}),
   Simple(2, "REGISTRATION", 2, "registrations", 1),
   Simple(3, "REGISTRATION", 3, "registrations", 5),
   Simple(4, "REGISTRATION", 4, "registrations", 10)}

Silver ==
  {Simple(5, "REGISTRATION", 5, "verifications", 10),
   Simple(6, "REGISTRATION", 6, "registrations", 30),
   Simple(7, "REGISTRATION", 7, "registrations", 50),
   Simple(8, "VERIFICATION", 8, "verifications", 30)}

Gold ==
  {Simple(9, "REGISTRATION", 9, "registrations", 100),
   Simple(10, "TRUST", 10, "trust", 80),
   Simple(11, "TRUST", 11, "trust", 95),
   Simple(16, "VERIFICATION", 12, "verifications", 1000),
   Simple(17, "TRUST", 13, "days", 365)}

Platinum ==
  {Simple(12, "REGISTRATION", 14, "trust", 90),
   Simple(13, "POINT", 15, "points", 5000),
   Simple(18, "REGISTRATION", 16, "registrations", 200),
   Rule(19, "TRUST", 17, [days |-> 365, registrations |-> 50], {"days"}),
   Simple(20, "TRUST", 18, "trust", 95)}

Mythic ==
  {Simple(14, "POINT", 19, "points", 10000),
   Rule(15, "TRUST", 20, [days |-> 365, trust |-> 95, registrations |-> 100], {"days"}),
   Simple(21, "POINT", 21, "points", 50000),
   Simple(22, "REGISTRATION", 22, "registrations", 1000),
   Rule(23, "TRUST", 23, [verifications |-> 10000, registrations |-> 1000, trust |-> 95], {})}

Badges == Bronze \cup Silver \cup Gold \cup Platinum \cup Mythic

-----------------------------------------------------------------------------
Evaluate(b, ctx) == \A m \in DOMAIN b.needs : ctx[m] >= b.needs[m]

\* getUserBadges: earned.
Earned(ctx) == {b \in Badges : Evaluate(b, ctx)}

\* getEarnedBadgeIds.
EarnedIds(ctx) == {b.id : b \in Earned(ctx)}

\* A badge that getUserBadges may show as in progress.
Pending(b, ctx) == b.shows # {} /\ ~ Evaluate(b, ctx)

\* getUserBadges: progress, the lowest of them in each category.
InProgress(ctx) ==
  {b \in Badges : /\ Pending(b, ctx)
                  /\ \A d \in Badges : d.category = b.category /\ Pending(d, ctx)
                                         => b.rank <= d.rank}
=============================================================================
