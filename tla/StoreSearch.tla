------------------------------ MODULE StoreSearch ------------------------------
(***************************************************************************)
(* The search for stores near a point (StoreService, src/src/store): by    *)
(* distance, and by a keyword in which the name of a chain may be spelled  *)
(* in Latin or in Korean letters.                                          *)
(*                                                                         *)
(* Names and keywords are sequences of fragments, the Korean ones written  *)
(* in Latin letters here.  Case is left out: the comparison ignores it.    *)
(***************************************************************************)
EXTENDS Naturals, FiniteSets, SequencesExt

CONSTANTS
  Branches,     \* ids of stores
  Signs,        \* their names
  Keywords,     \* what is searched for; <<>> is no keyword
  Distances,    \* from the point of the search
  Radius, MaxFound

ASSUME SearchAssumption ==
  /\ IsFiniteSet(Branches)
  /\ Distances \subseteq Nat /\ Radius \in Nat /\ MaxFound \in Nat \ {0}
  /\ \A s \in Signs \cup Keywords : s \in Seq(STRING)

VARIABLES
  branch,    \* rows of stores, as seen from the point
  search     \* the search and its answer

searchVars == <<branch, search>>

NoSearch == [pc |-> "idle", keyword |-> <<>>, found |-> <<>>]

SearchTypeOK ==
  /\ branch \in [Branches -> [name : Signs, distance : Distances]]
  /\ search.pc \in {"idle", "found", "failed"}
  /\ search.keyword \in Keywords \cup {<<>>}
  /\ search.found \in Seq(Branches) /\ Len(search.found) <= MaxFound

SearchInit ==
  /\ branch \in [Branches -> [name : Signs, distance : Distances]]
  /\ search = NoSearch

-----------------------------------------------------------------------------
\* The chains whose name has two spellings. "emart" is also the end of "lottemart".
Spellings ==
  { {<<"gs">>, <<"jieseu">>}, {<<"cu">>, <<"ssiyu">>},
    {<<"sebeunillebeun">>, <<"koriasebeun">>}, {<<"emart">>, <<"imateu">>},
    {<<"ministop">>, <<"miniseutop">>}, {<<"homeplus">>, <<"hompeulleoseu">>},
    {<<"lott", "emart">>, <<"lottemateu">>}, {<<"deopeuresi">>, <<"thefresh">>} }

\* Each spelling stands for the other.
BRAND_ALIASES == {a \in UNION {S \X S : S \in Spellings} : a[1] # a[2]}

StandsAt(s, i, part) ==
  i + Len(part) - 1 <= Len(s) /\ SubSeq(s, i, i + Len(part) - 1) = part

\* part is replaced wherever it stands in s, from left to right. (ReplaceAllSubSeqs of
\* SequencesExt does this too, by enumeration.)
SplitJoin(s, part, by) ==
  LET from[i \in 1..Len(s) + 1] ==
        IF i > Len(s) THEN <<>>
        ELSE IF StandsAt(s, i, part) THEN by \o from[i + Len(part)]
        ELSE <<s[i]>> \o from[i + 1]
  IN from[1]

\* Faulty variant: Korean spellings are not expanded.
ExpandLatinOnly(keyword) ==
  {keyword} \cup {SplitJoin(keyword, a[1], a[2]) : a \in
     {b \in BRAND_ALIASES : b[1][1] \in {"gs", "cu", "emart", "ministop", "homeplus", "lott"}}}

\* One chain at a time: a keyword that names two is not respelled in both at once.
expandKeywordAliases(keyword) ==
  {keyword} \cup {SplitJoin(keyword, a[1], a[2]) : a \in BRAND_ALIASES}

Like(name, part) == part \in SubSeqs(name)

\* Within the radius, and with the keyword in some spelling if there is one.
Matching(keyword) ==
  LET variants == expandKeywordAliases(keyword)
  IN {b \in Branches : /\ branch[b].distance <= Radius
                       /\ keyword # <<>> => \E v \in variants : Like(branch[b].name, v)}

\* findNearby, and searchNearby with its keyword: the nearest first, in any order if
\* equally near.
SearchNearby(keyword) ==
  /\ search.pc = "idle"
  /\ \E order \in SetToSeqs(Matching(keyword)) :
       /\ \A i \in 1..Len(order) - 1 : branch[order[i]].distance <= branch[order[i + 1]].distance
       /\ search' = [pc |-> "found", keyword |-> keyword,
                     found |-> SubSeq(order, 1, IF Len(order) < MaxFound THEN Len(order) ELSE MaxFound)]
  /\ UNCHANGED branch

\* Of a store at the very point, rounding may give a cosine greater than 1, of which
\* PostgreSQL computes no acos: the whole query fails.
FailNearby(keyword) ==
  /\ search.pc = "idle"
  /\ \E b \in Branches : branch[b].distance = 0
  /\ search' = [pc |-> "failed", keyword |-> keyword, found |-> <<>>]
  /\ UNCHANGED branch

SearchNext == \E keyword \in Keywords \cup {<<>>} : SearchNearby(keyword) \/ FailNearby(keyword)

SearchSpec == SearchInit /\ [][SearchNext]_searchVars

-----------------------------------------------------------------------------
\* A name has the keyword, or has it with one chain spelled the other way.
Spells(name, keyword) ==
  \/ Like(name, keyword)
  \/ \E S \in Spellings : \E x, y \in S : \E i \in 1..Len(keyword) :
       /\ StandsAt(keyword, i, x)
       /\ Like(name, SubSeq(keyword, 1, i - 1) \o y \o SubSeq(keyword, i + Len(x), Len(keyword)))

\* No keyword that a user means names a chain twice: the code would respell both.
NamesNoneTwice(keyword) ==
  \A S \in Spellings : \A x \in S : \A i, j \in 1..Len(keyword) :
    StandsAt(keyword, i, x) /\ StandsAt(keyword, j, x) => i = j

\* What a search finds is within the radius, nothing twice, the nearest first. Whichever
\* way a user spells a chain and whichever way a store does, a search that is answered
\* holds the store: every store within the radius that has the keyword in either spelling
\* is found, unless as many that are no farther fill the answer, and nothing else is.
SearchWhole ==
  search.pc = "found" =>
    LET found == search.found
        near  == {b \in Branches : branch[b].distance <= Radius}
        right == {b \in near : Spells(branch[b].name, search.keyword)}
    IN /\ Range(found) \subseteq near
       /\ \A i, j \in DOMAIN found : i < j =>
            found[i] # found[j] /\ branch[found[i]].distance <= branch[found[j]].distance
       /\ NamesNoneTwice(search.keyword) =>
            /\ Range(found) \subseteq right
            /\ \A b \in right \ Range(found) :
                 /\ Len(found) = MaxFound
                 /\ \A f \in Range(found) : branch[f].distance <= branch[b].distance
=============================================================================
