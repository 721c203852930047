------------------------------ MODULE TrustRules ------------------------------
(***************************************************************************)
(* The two calculators of src/src/trust-score/services, and what the batch *)
(* of TrustScoreService computes to feed them, free of any state.          *)
(*                                                                         *)
(* The code rounds binary fractions: 0.5 * 92 + 0.3 * 57 + 0.2 * 2 is      *)
(* 63.49999999999999 and rounds to 63, although it is 63.5.  A rounding is *)
(* therefore the set of values it may give, two of them for a tie.         *)
(***************************************************************************)
EXTENDS Integers, FiniteSets

CONSTANTS
  MinVotes,        \* 10: verifications before a price is scored
  MinActivities,   \* 5: registrations and verifications before a user is
  FullDays         \* 15: active days that earn the whole bonus

ASSUME TrustAssumption ==
  /\ MinVotes \in Nat \ {0}
  /\ MinActivities \in Nat \ {0}
  /\ FullDays \in Nat \ {0}

Percent == 0..100

\* Scores of prices have two decimals.
ItemScores == 0..10000

\* Math.round(n / d).
Rounded(n, d) == {k \in {n \div d, n \div d + 1} :
                    /\ 2 * k * d - 2 * n <= d
                    /\ 2 * n - 2 * k * d <= d}

\* calculatePriceTrustScore: a weighted vote is 0.5 + 0.5 * (trust / 100), here in
\* two-hundredths; the score has two decimals, here in hundredths. The weights
\* are those of all verifications, yes the part of them that confirm.
PriceScores(votes, yes, total) ==
  IF votes < MinVotes THEN {} ELSE Rounded(10000 * yes, total)

Weight(trust) == 100 + trust

\* registrationScore: the average of n price scores, given their sum.
RegistrationScores(sum, n) == IF n = 0 THEN {50} ELSE Rounded(sum, 100 * n)

\* verificationScore: the share that agrees with the majority.
VerificationScores(aligned, n) == IF n = 0 THEN {50} ELSE Rounded(100 * aligned, n)

\* calculateConsistencyBonus.
Bonuses(days) == {IF b > 100 THEN 100 ELSE b : b \in Rounded(100 * days, FullDays)}

Clamp(k) == IF k > 100 THEN 100 ELSE IF k < 0 THEN 0 ELSE k

\* trustScore = 0.5 registration + 0.3 verification + 0.2 consistency.
Combined(r, v, c) == {Clamp(k) : k \in Rounded(5 * r + 3 * v + 2 * c, 10)}

\* calculateUserTrustScore. a counts what the user did; a price without a score
\* is not averaged.
UserScores(a) ==
  IF a.registrations + a.verifications < MinActivities
  THEN {50}
  ELSE UNION {Combined(r, v, c) : r \in RegistrationScores(a.scoreSum, a.scored),
                                  v \in VerificationScores(a.aligned, a.verifications),
                                  c \in Bonuses(a.days)}
=============================================================================
