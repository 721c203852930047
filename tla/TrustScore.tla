------------------------------ MODULE TrustScore ------------------------------
(***************************************************************************)
(* TrustScoreService (src/src/trust-score): the nightly batch that scores  *)
(* prices and then users.  TrustScoreScheduler starts it in every process  *)
(* at the same minute, and outside any transaction: a step is one read or  *)
(* one write of a batch, between which members vote, sign up, save their   *)
(* profile and leave.  Writes that run in chunks of 100 run in any order   *)
(* here, which the chunks only restrict.                                   *)
(***************************************************************************)
EXTENDS TrustRules, Functions

CONSTANTS
  Members,    \* ids of users
  Items,      \* ids of prices
  Batches,    \* processes that run the scheduler
  DayCounts,  \* numbers of active days of a member
  MaxStarts,  \* bound: starts of a batch
  MaxMoves,   \* bound: what members do meanwhile
  NoMember, NoScore

ASSUME BatchAssumption ==
  /\ NoMember \notin Members
  /\ NoScore \notin Int
  /\ IsFiniteSet(Members) /\ IsFiniteSet(Items)
  /\ DayCounts \subseteq Nat /\ DayCounts # {}
  /\ MaxStarts \in Nat /\ MaxMoves \in Nat

VARIABLES
  member,     \* users: "absent", "live", "gone"
  score,      \* users.trustScore
  detail,     \* user_trust_scores.trustScore, or NoScore without a row
  held,       \* the score of a user entity that a request will save
  owner,      \* prices.user_id
  itemScore,  \* prices.trustScore, in hundredths
  vote,       \* rows of price_verifications
  tally,      \* prices.confirmedCount, disputedCount
  batch,      \* the local variables of each batch
  starts,     \* batches started so far
  moves,      \* what members did so far
  settled     \* history: members whose last batch nothing disturbed

trustVars == <<member, score, detail, held, owner, itemScore, vote, tally, batch, starts,
               moves, settled>>
votes == <<owner, itemScore, vote, tally>>

Results == {"confirmed", "disputed"}

Idle == [pc |-> "idle", items |-> {}, users |-> {}, prices |-> <<>>,
         plan |-> <<>>, todo |-> {}, sure |-> {}]

TrustTypeOK ==
  /\ member \in [Members -> {"absent", "live", "gone"}]
  /\ score \in [Members -> Percent]
  /\ detail \in [Members -> Percent \cup {NoScore}]
  /\ \A m \in Members : detail[m] # NoScore => member[m] = "live"   \* foreign key
  /\ held \in [Members -> Percent \cup {NoScore}]
  /\ owner \in [Items -> Members \cup {NoMember}]
  /\ itemScore \in [Items -> ItemScores \cup {NoScore}]
  /\ vote \in [Items -> [Members -> Results \cup {"none"}]]
  /\ tally \in [Items -> [Results -> Nat]]
  /\ \A b \in Batches : /\ batch[b].pc \in {"idle", "votes", "items", "users", "prices",
                                            "verifications", "scores", "insert", "update"}
                        /\ batch[b].items \subseteq Items
                        /\ batch[b].users \subseteq Members
  /\ starts \in 0..MaxStarts /\ moves \in 0..MaxMoves
  /\ settled \subseteq Members

\* Before the first night: every item has an owner, others may have voted, and
\* nobody has been scored.
TrustInit ==
  /\ member \in [Members -> {"absent", "live"}]
  /\ score = [m \in Members |-> 0]
  /\ detail = [m \in Members |-> NoScore]
  /\ held = [m \in Members |-> NoScore]
  /\ owner \in [Items -> {m \in Members : member[m] = "live"}]
  /\ itemScore = [i \in Items |-> NoScore]
  /\ vote \in [Items -> [Members -> Results \cup {"none"}]]
  /\ \A i \in Items, m \in Members :
       member[m] # "live" \/ owner[i] = m => vote[i][m] = "none"
  /\ tally = [i \in Items |-> [r \in Results |-> Cardinality({m \in Members : vote[i][m] = r})]]
  /\ batch = [b \in Batches |-> Idle]
  /\ starts = 0 /\ moves = 0
  /\ settled = {}

-----------------------------------------------------------------------------
On(b, where) == batch[b].pc = where

Become(b, r) == batch' = [batch EXCEPT ![b] = r]

\* The local variables named in r change, the others stay.
Local(b, r) ==
  Become(b, [k \in DOMAIN Idle |-> IF k \in DOMAIN r THEN r[k] ELSE batch[b][k]])

Unwritten == UNCHANGED <<member, score, detail, held, votes>>

(* Prices *)

\* recalculateAllPriceTrustScores: prices.
ReadItems(b) ==
  LET ready == {i \in Items : tally[i]["confirmed"] + tally[i]["disputed"] >= MinVotes} IN
  /\ On(b, "idle")
  /\ starts < MaxStarts
  /\ starts' = starts + 1
  /\ Become(b, IF ready = {} THEN [Idle EXCEPT !.pc = "users"]
                             ELSE [Idle EXCEPT !.pc = "votes", !.items = ready])
  /\ Unwritten /\ UNCHANGED <<moves, settled>>

Voters(i) == {m \in Members : vote[i][m] # "none"}

\* The sum of the weights of a set of verifiers: their score counts.
Weights(S) == SumFunctionOnSet([m \in Members |-> Weight(score[m])], S)

\* What the calculator makes of the rows of a price, fewer than its counters say
\* if verifiers have left.
NewItemScores(i) ==
  PriceScores(Cardinality(Voters(i)),
              Weights({m \in Voters(i) : vote[i][m] = "confirmed"}),
              Weights(Voters(i)))

\* recalculateAllPriceTrustScores: allVerifications and their scores.
ReadVotes(b) ==
  LET scored == {i \in batch[b].items : NewItemScores(i) # {}} IN
  /\ On(b, "votes")
  /\ \E s \in [scored -> UNION {NewItemScores(i) : i \in scored}] :
       /\ \A i \in scored : s[i] \in NewItemScores(i)
       /\ Local(b, [pc |-> IF scored = {} THEN "users" ELSE "items",
                    todo |-> {[item |-> i, value |-> s[i]] : i \in scored}])
  /\ Unwritten /\ UNCHANGED settled

\* recalculateAllPriceTrustScores: one update.
UpdateItem(b) ==
  /\ On(b, "items")
  /\ \E w \in batch[b].todo :
       /\ itemScore' = [itemScore EXCEPT ![w.item] = w.value]
       /\ Local(b, [pc |-> IF batch[b].todo = {w} THEN "users" ELSE "items",
                    todo |-> batch[b].todo \ {w}])
  /\ UNCHANGED <<member, score, detail, held, owner, vote, tally, settled>>

-----------------------------------------------------------------------------
(* Users *)

\* recalculateAllUserTrustScores: users. Without users it returns.
ReadUsers(b) ==
  LET live == {m \in Members : member[m] = "live"} IN
  /\ On(b, "users")
  /\ Become(b, IF live = {} THEN Idle
               ELSE [Idle EXCEPT !.pc = "prices", !.users = live])
  /\ Unwritten /\ UNCHANGED settled

\* recalculateAllUserTrustScores: allRecentPrices.
ReadPrices(b) ==
  /\ On(b, "prices")
  /\ Local(b, [pc |-> "verifications",
               prices |-> [i \in Items |-> [owner |-> owner[i], score |-> itemScore[i]]]])
  /\ Unwritten /\ UNCHANGED settled

\* An undecided price counts as confirmed.
Aligned(i, m) ==
  (vote[i][m] = "confirmed") <=> (tally[i]["confirmed"] >= tally[i]["disputed"])

ScoreSum(prices, S) == SumFunctionOnSet([i \in Items |-> prices[i].score], S)

\* What the batch hands to the calculator for member m.
Activity(prices, m, days) ==
  LET mine == {i \in Items : prices[i].owner = m}
      scored == {i \in mine : prices[i].score # NoScore}
      voted == {i \in Items : vote[i][m] # "none"}
  IN  [registrations |-> Cardinality(mine),
       scored        |-> Cardinality(scored),
       scoreSum      |-> ScoreSum(prices, scored),
       verifications |-> Cardinality(voted),
       aligned       |-> Cardinality({i \in voted : Aligned(i, m)}),
       days          |-> days]

\* recalculateAllUserTrustScores: allRecentVerifications, and the scores. What is
\* recent is all there is.
ReadVerifications(b) ==
  /\ On(b, "verifications")
  /\ \E d \in DayCounts :
       LET scores(m) == UserScores(Activity(batch[b].prices, m, d)) IN
       \E plan \in [batch[b].users -> UNION {scores(m) : m \in batch[b].users}] :
         /\ \A m \in batch[b].users : plan[m] \in scores(m)
         /\ Local(b, [pc |-> "scores", prices |-> <<>>, plan |-> plan])
  /\ Unwritten /\ UNCHANGED settled

Writes(b, table, S) == {[table |-> table, user |-> m, value |-> batch[b].plan[m]] : m \in S}

Writing == {b \in Batches : batch[b].pc \in {"insert", "update"}}

\* Faulty variant: a member whose row is inserted is not updated.
WritesOfOldMembers(b, old) == Writes(b, "detail", old) \cup Writes(b, "user", old)

\* allUpdates: the rows that exist, and every user.
AllUpdates(b, old) == Writes(b, "detail", old) \cup Writes(b, "user", batch[b].users)

\* recalculateAllUserTrustScores: existingScores, and with it what will be
\* inserted and updated. From here on batches disturb each other.
ReadScores(b) ==
  LET old == {m \in batch[b].users : detail[m] # NoScore} IN
  /\ On(b, "scores")
  /\ batch' = [c \in Batches |->
       IF c = b
       THEN [batch[b] EXCEPT !.pc = IF old = batch[b].users THEN "update" ELSE "insert",
                             !.todo = AllUpdates(b, old),
                             !.sure = IF Writing = {} THEN batch[b].users ELSE {}]
       ELSE [batch[c] EXCEPT !.sure = {}]]
  /\ settled' = IF Writing = {} THEN settled ELSE settled \ batch[b].users
  /\ Unwritten

\* The rows without an update are new.
Inserts(b) == {m \in batch[b].users : \A w \in batch[b].todo : w.table = "detail" => w.user # m}

\* The batch throws: the scheduler reports it and waits for the next night.
Abort(b) ==
  /\ Become(b, Idle)
  /\ settled' = IF batch[b].pc = "update" THEN settled \ batch[b].users ELSE settled
  /\ Unwritten

\* Faulty variant: user_id refers to no user.
InsertUnreferenced(b) ==
  /\ On(b, "insert")
  /\ detail' = [m \in Members |-> IF m \in Inserts(b) THEN batch[b].plan[m] ELSE detail[m]]
  /\ Local(b, [pc |-> "update"])
  /\ UNCHANGED <<member, score, held, votes, settled>>

\* save(trustScoreInserts): one transaction, refused as a whole by the foreign key
\* of a member who left or by the unique user_id of a row inserted since.
InsertScores(b) ==
  /\ On(b, "insert")
  /\ IF \E m \in Inserts(b) : member[m] # "live" \/ detail[m] # NoScore
     THEN Abort(b)
     ELSE /\ detail' = [m \in Members |->
                          IF m \in Inserts(b) THEN batch[b].plan[m] ELSE detail[m]]
          /\ Local(b, [pc |-> "update"])
          /\ UNCHANGED <<member, score, held, votes, settled>>

\* One of allUpdates; that of a row which is gone changes nothing.
UpdateScore(b) ==
  /\ On(b, "update")
  /\ \E w \in batch[b].todo :
       LET hit == member[w.user] = "live"
           last == batch[b].todo = {w} IN
       /\ detail' = IF w.table = "detail" /\ hit
                    THEN [detail EXCEPT ![w.user] = w.value] ELSE detail
       /\ score' = IF w.table = "user" /\ hit
                   THEN [score EXCEPT ![w.user] = w.value] ELSE score
       /\ IF last THEN Become(b, Idle) ELSE Local(b, [todo |-> batch[b].todo \ {w}])
       /\ settled' = IF last THEN (settled \ batch[b].users) \cup batch[b].sure ELSE settled
  /\ UNCHANGED <<member, held, votes>>

\* The process dies.
CrashBatch(b) == batch[b].pc # "idle" /\ Abort(b)

-----------------------------------------------------------------------------
(* The members *)

\* createVerification, of somebody else's price: row and counter.
Vote(m, i, r) ==
  /\ member[m] = "live"
  /\ owner[i] # m
  /\ vote[i][m] = "none"
  /\ vote' = [vote EXCEPT ![i][m] = r]
  /\ tally' = [tally EXCEPT ![i][r] = @ + 1]
  /\ UNCHANGED <<member, score, detail, held, owner, itemScore, batch, settled>>

SignUp(m) ==
  /\ member[m] = "absent"
  /\ member' = [member EXCEPT ![m] = "live"]
  /\ UNCHANGED <<score, detail, held, votes, batch, settled>>

\* A request loads the user to save the whole entity: updateNickname and others.
\* One of them at a time is a bound.
HoldUser(m) ==
  /\ member[m] = "live"
  /\ \A n \in Members : held[n] = NoScore
  /\ held' = [held EXCEPT ![m] = score[m]]
  /\ UNCHANGED <<member, score, detail, votes, batch, settled>>

\* Its save: the score it loaded goes back if the row has another.
SaveUser(m) ==
  LET differs == member[m] = "live" /\ held[m] # score[m] IN
  /\ held[m] # NoScore
  /\ held' = [held EXCEPT ![m] = NoScore]
  /\ score' = IF differs THEN [score EXCEPT ![m] = held[m]] ELSE score
  /\ batch' = IF differs THEN [b \in Batches |-> [batch[b] EXCEPT !.sure = @ \ {m}]] ELSE batch
  /\ settled' = IF differs THEN settled \ {m} ELSE settled
  /\ UNCHANGED <<member, detail, votes>>

\* deleteAccount: rows of the member go, prices and counters stay.
Leave(m) ==
  /\ member[m] = "live"
  /\ member' = [member EXCEPT ![m] = "gone"]
  /\ detail' = [detail EXCEPT ![m] = NoScore]
  /\ owner' = [i \in Items |-> IF owner[i] = m THEN NoMember ELSE owner[i]]
  /\ vote' = [i \in Items |-> [vote[i] EXCEPT ![m] = "none"]]
  /\ UNCHANGED <<score, held, itemScore, tally, batch, settled>>

Continue(b) ==
  \/ ReadVotes(b) \/ UpdateItem(b)
  \/ ReadUsers(b) \/ ReadPrices(b) \/ ReadVerifications(b) \/ ReadScores(b)
  \/ InsertScores(b) \/ UpdateScore(b) \/ CrashBatch(b)

Move ==
  \/ \E m \in Members : SignUp(m) \/ HoldUser(m) \/ Leave(m)
  \/ \E m \in Members, i \in Items, r \in Results : Vote(m, i, r)

TrustNext ==
  \/ \E b \in Batches : ReadItems(b)
  \/ (\E b \in Batches : Continue(b)) /\ UNCHANGED <<starts, moves>>
  \/ Move /\ moves < MaxMoves /\ moves' = moves + 1 /\ UNCHANGED starts
  \/ (\E m \in Members : SaveUser(m)) /\ UNCHANGED <<starts, moves>>

TrustSpec == TrustInit /\ [][TrustNext]_trustVars

-----------------------------------------------------------------------------
\* Once a batch has come to its end beside no other, and until one is cut off or
\* overlapped or an older user entity is saved, the two tables that hold a score
\* hold the same one for everybody it read: a failed insert, a member who left
\* and a vote in between change nothing of it, and a torn night is repaired by
\* the next whole one.
ScoresAgree ==
  Writing = {} =>
    \A m \in settled : member[m] = "live" => detail[m] # NoScore /\ detail[m] = score[m]
=============================================================================
