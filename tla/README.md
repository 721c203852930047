# A TLA+ model of the NearPrice API

This directory holds TLA+ modules that model the NearPrice (마실) server, the TLC
configurations that check them on small instances, and theorems that TLAPS
proves for every instance. The server is a NestJS application (`src/src`) over
PostgreSQL (TypeORM) and Redis, run as several processes of one program
(`src/ecosystem.config.js`), so every two requests may interleave between any
two awaited statements.

Contents: 1 inventory, 2 how the models read the code, 3 modules, 4 runs,
5 fairness, 6 proofs, 7 what the checks found, 8 not modelled, 9 plan.

## 1. Inventory

| Component (directory under `src/src`) | State | Operations that change it | Hard behaviour | What makes it correct |
|---|---|---|---|---|
| Point ledger (`point`) | `point_wallets` (one row per user), `point_transactions` (append-only, unique `idempotencyKey`) | reward a registration, revoke it on removal, deduct on dispute, open a wallet | nobody awaits these calls; two rows per transaction; row locks in two orders; cascade of a deleted account | wallet = sum of the ledger; one row per key; cap per price; nothing overdrawn |
| Prices (`price`) | `prices`, with three vote counters | create, update, deactivate, remove | update and remove work on an entity loaded earlier; `save` re-inserts a row that is gone | counters cover votes; a removed price stays removed |
| Price verification (`price-verification`) | `price_verifications`, unique (price, verifier) | createVerification: one transaction of up to five statements, then three calls nobody awaits | FOR UPDATE that finds nothing locks nothing; owner checked before the transaction | one verification per user; a dispute is whole; no deduction without dispute |
| Accounts (`user`) | `users`, `user_oauth`; cascades to almost every table | profile, nickname (3-day limit, none by PATCH), settings, FCM token, deleteAccount | whole-entity saves; deletion against everything else | nothing outlives an account; limits hold |
| Sessions (`auth`, `redis`) | one Redis key per user, JWTs at the clients | kakaoLogin, adminLogin, refresh, logout | read, compare and replace in three round trips; two tokens of one second are equal | a revoked token stays revoked |
| Price reactions (`price-reaction`) | `price_reactions`, unique (user, price) | confirm (a toggle), report | two first reactions both insert | one reaction per user, counts agree |
| Owner applications (`owner-application`) | one application per user, status pending / approved / rejected | create, update, remove, approve, reject | whole-entity saves on both sides of the review | what is approved is what was reviewed |
| Flyers (`flyer`) | `flyers`, `owner_posts` | create, update, remove; push to every consenting user, paged by offset | approval read before the save; paging while rows move | flyers only by approved owners; nobody pushed twice |
| Trust score (`trust-score`) | `prices.trustScore`, `users.trustScore`, `user_trust_scores` | nightly batch, in every process of the cluster | two batches at once, beside votes and saves; inserts that fail together | both tables hold one score |
| Badges (`badge`) | none but the representative badge of a user, with a one-hour cool-down; badges are computed when asked for | evaluate, set the representative badge | cool-down on a loaded row; news counted after the commit | a badge is announced once |
| Notifications (`notification`) | `notifications` | create, push, mark read, remove; cursor pagination | the cursor while rows arrive; saves of removed rows; one failing row of a page | nothing skipped, nothing twice |
| Products (`product`) | `products`, without a unique index | findOrCreate, update, remove; merged by a migration | two creations; the merge beside requests | one product per name; a merge loses nothing |
| Wishlist (`wishlist`) | `wishlists`, unique (user, product) | add, remove | the merge moves wishes between products | no wish is lost |
| Stores and reviews (`store`, `scripts`) | `stores`, unique `externalPlaceId`; `store_reviews`, unique (store, user) | create, update, remove, review; import of a public register; search by distance and keyword | the import crashes and starts again beside users | every place imported, none twice; what is searched is found |
| Reading prices (`price`) | none of its own | cards from six statements; lists by page | rows that change between statements and pages | a card agrees with itself; pages miss and repeat nothing without cause |
| Inquiries, notices, FAQ, uploads, Naver search, HTTP shell, deployment | single inserts or none | CRUD, I/O, wiring | none a model would add to | |

Interactions. `PriceService.create`, `PriceService.remove` and
`createVerification` call `PointService` after their own commit, without
awaiting it and logging its failure. `createVerification` reads and locks rows
that `PriceService.update/remove` and `UserService.deleteAccount` change.
`deleteAccount` makes a user's prices anonymous and deletes the user; the
database cascades to wallet, ledger, verifications and the rest, but not to
Redis. A new price and a new flyer push to many users after their own commit, and
a verification counts for a badge after its own; nobody waits for either.
Every authenticated request reads the user again, so a deleted account
can finish requests already past that read and start no new ones.

`PROJECT.json` lists every component with its status, and under `hazards` each
place in the code where one of these behaviours bites, with the properties
that watch it.

## 2. How the models read the code

* **One action is one awaited statement.** A service method becomes a small
  program over `pc[c]`, one SQL statement or Redis command per step; between two
  steps anything else may run. A method whose effect on the model's state is one
  statement is one action.
* **READ COMMITTED.** A read sees what is committed. A row written in an open
  transaction is invisible, and its writer is the only one who may write it:
  the models keep committed rows in the state and read uncommitted ones off
  `pc`, so a rollback is simply a jump to the end.
* **Locks.** `SELECT ... FOR UPDATE` locks the row it finds and nothing when it
  finds none; an `UPDATE` or `DELETE` locks its row; an `INSERT` waits for an
  uncommitted row with the same unique key and shares the rows its foreign keys
  name. A cycle of waiting is broken by aborting one side (`DeadlockVictim`).
* **TypeORM.** `repository.save(entity)` reads the row again, writes the columns
  in which the entity differs from it, and inserts the entity when there is no
  row. `repository.remove(entity)` clears the id of the entity. A condition on a
  missing value is left out of a `where`.
* **Crashes.** Any call may die before any statement; its transaction is rolled
  back and what it had not started never starts.
* **Faulty variants.** Before some definitions stands one marked *Faulty
  variant*, with a plausible mistake in it. No specification uses it; replacing
  the real definition with it breaks the property named in `PROJECT.json`
  `mutants`, which shows that the property depends on that line of the code.

Two spots depend on parts outside this repository. `FOR UPDATE` is requested on
queries that join the `users` table, which is modelled as the code intends it; if
TypeORM or PostgreSQL refuses such a statement, the call always takes the path of its
rollback, which the models contain (`Crash`). And `price-verification.service.ts:153`
names the counter `verification_count` in raw SQL, where the column of the entity is
`verificationCount` and no naming strategy makes them one. In the schema that the
entities and migrations make, this UPDATE, and with it every vote, fails: the constant
`CountOutcomes` of PriceVerification says whether the UPDATE leads to the commit, to
the rollback, or, for what holds in either schema, to both. Section 7 says what
follows from the failure. `CountOutcomes = {"commit"}` is the code in a schema with
the names it uses.

## 3. Modules

### PointRules, AtomicLedger, PointLedger

`PointRules` is the data and the arithmetic: a request, its idempotency key, a
ledger row, and what a request is worth (`Payable`: 12 for a registration; at
most that, and at most what is available, for a removal; 2, limited by the rest
of the cap of 10 and by what is available, for a dispute).

`AtomicLedger` is what the point system promises: a request is booked in one
step, against the wallet and the ledger of that moment, at most once per key.

`PointLedger` is what the code does.

| Model | Code |
|---|---|
| `wallet`, `walletRow`, `txs` | `point_wallets`, `point_transactions` (committed) |
| `walletLock` | who locked, or inserted and has not committed, a wallet row |
| `entity`, `amount` | the wallet entity a call loaded, the amount it computed |
| `CreatePrice`, `LoadPrice`, `RemovePrice`, `DisputePrice`, `GetSummary` | the requests that start a call |
| `FindEarned` | `deductPriceDelete`, the look-up outside any transaction |
| `FindExisting`, `LockWallet`, `MissWallet`, `InsertWallet`, `ComputeAmount`, `InsertRow`, `SaveWallet` | the statements of `applyTransaction` and `deductPriceDisputed` |
| `ReadSummary`, `SaveEmptyWallet` | `getOrCreateWallet` of GET /points/me |
| `LockAccount`, `CloseAccount`, `AbortClose` | `deleteAccount` |

`RemoveKeepsId` says whether `repository.remove(price)` leaves `price.id` set:
`price.service.ts` reads it after the call. TypeORM clears it; both values are
run, since a deduction with no price id takes another way through the code (its
`where` loses the price, its insert violates NOT NULL).

### PriceVerification

`createVerification` against every other writer of the rows it touches.

| Model | Code |
|---|---|
| `price` | rows of `prices`: existence, owner, the three counters |
| `rows` | `price_verifications` |
| `held` | price rows updated by an open `deleteAccount` |
| `seen`, `dirty` | the entity a call loaded; the columns a `save` will write |
| `jobs` | deductions started after a commit (`PointLedger` runs them) |
| `overwritten` | history: prices whose counters an edit wrote |
| `LoadPrice`, `FindExisting`, `InsertVerification`, `CountVote`, `Commit`, `Rollback`, `StartJobs` | `createVerification` |
| `CountOutcomes` | whether the table has the columns that the raw SQL of `CountVote` names |
| `EditPrice`, `Reload`, `WriteEdit`, `Reinsert` | `PriceService.update`: load, then the statements of `save` |
| `RemovePrice`, `DeletePrice` | `PriceService.remove` |
| `Anonymise`, `CloseAccount`, `AbortClose` | `deleteAccount` |

The price a dispute spawns has the id of the call that spawned it and is a
price like any other: it can be verified, edited and removed.

### RefreshSession

Login, renewal and logout over the Redis key `rt:<user>`. A token is its user
and the second of its signature, which is all a JWT of this service holds: two
tokens of one user signed in one second are equal. `store` is Redis, `held` what
clients have, `signed` what a call will write. `revoked` and `late` are history
variables: tokens replaced or deleted while no other call was past its check,
and renewals that started after their account had gone. A user who logs in
again after deleting the account is a new user with a new id, so `"gone"` is
final. Redis is taken to be configured, as `RedisService` demands in production.

### ReactionRegister, PriceReaction

`ReactionRegister` is what `confirm` and `report` promise: per user and price a
register of "none", "confirm" and "report", on which every request is one step
with one answer. A second confirm takes the first back; a report is not
repeated; a request that meets a reaction made at the same moment may be
ignored (confirm) or told of a conflict (report).

`PriceReaction` is what the code does. A row is named after the call that
inserted it, so that two rows of one user and price can be told apart.

| Model | Code |
|---|---|
| `row`, `request` | `price_reactions`: the type, and the user and price, of each row |
| `found`, `Locked` | the row a call holds FOR UPDATE |
| `account`, `listed`, `owner` | `users`, `prices` and `prices.user_id` |
| `answer` | result or exception of the request ("refused" for 403, 404 and failures) |
| `Find` (`Miss`, `Judge`) | `findOne` FOR UPDATE and the decisions on the row |
| `Change` | `remove` or `save` of the locked row, and the commit |
| `LoadPrice`, `Insert`, `Commit` | the path without a row: price, insert with its `catch`, commit |
| `RemovePrice`, `DeleteAccount` (`Cascade`) | ON DELETE CASCADE, waiting for locks and open inserts |

The `catch` of the insert runs in a transaction that PostgreSQL has already
aborted; its COMMIT is a rollback, which `Insert` models by ending the call
without a change. No migration creates `price_reactions`; the constraints are
those of the entity.

### OwnerReview

Applications of shop owners, their review by administrators, and the flyers of
approved owners. All of them are loaded, changed and saved outside
transactions, so what matters is the three statements of `save`.

| Model | Code |
|---|---|
| `app`, `flyer` | rows of `owner_applications` and `flyers` |
| `seen`, `draft` | the application and the flyer entity a request loaded and changed |
| `dirty` | the columns in which `save` found it different |
| `StartApplication`, `InsertApplication` | `createMyApplication` |
| `UpdateApplication`, `Approve`, `RejectApplication` | load, check and change, up to the `save` |
| `Reload`, `Write`, `Reinsert` | `save`: the read, the UPDATE, the INSERT of a row that is gone |
| `RemoveApplication`, `Delete` | `removeMyApplication` |
| `ApprovedApplication` | `getApprovedOwnerApplication` |
| `PostFlyer`, `FindMyFlyer`, `FindFlyer`, `CreateFlyer`, `ReloadFlyer`, `WriteFlyer`, `ReinsertFlyer`, `DeleteFlyer` | the flyer requests of owners and administrators |
| `judged`, `raced` | history: what approvals loaded; applications written between another save's read and write |

`store` stands for everything the owner submits, since every submitted column
is loaded, compared and written alike; of `rejectionReason` and `reviewedAt`
the model keeps whether they are NULL. A slot of `Calls` is used again when its
request has ended, so any number of requests run, `Calls` of them at once.

### TrustRules, BadgeRules

Free of state: what the two score calculators and the badge evaluator compute.
Scores are sets: JavaScript computes them in binary floating point and rounds, so
that where a value lies half-way between two results either may come out (63.5 is
computed as 63.4999... and gives 63). `BadgeRules` lists the 23 badges with their
thresholds; `InProgress` is the next one of each category.

### TrustScore

| Model | Code |
|---|---|
| `member`, `score`, `detail` | `users`, `users.trustScore`, `user_trust_scores` |
| `owner`, `itemScore`, `vote`, `tally` | `prices` and `price_verifications` |
| `batch` | the local variables of one run of `recalculateAll` |
| `ReadItems`, `ReadVotes`, `UpdateItem` | scores of prices |
| `ReadUsers`, `ReadPrices`, `ReadVerifications`, `ReadScores` | the reads for scores of users |
| `InsertScores`, `UpdateScore`, `Abort` | the writes, and the `catch` of the scheduler |
| `Vote`, `SignUp`, `HoldUser`, `SaveUser`, `Leave` | members meanwhile |
| `settled` | history: members whose last batch nothing disturbed |

The code writes in chunks of 100 with `Promise.all`; the model lets the updates
run in any order, which contains every order of the chunks.

### Profile

The row of a user and all who write it: requests that load, change and save the entity
(`StartNickname`, `StartBadge`, `StartPatch`, then `ReloadUser`, `WriteUser`,
`ReinsertUser`), those that write one column (`UpdateSetting`), logins (`FindOauth`,
`SyncImage`, `SignUpUser`), `CreateUser` and `DeleteUser`. `wanted` is the row as the
last intended writes would leave it, `stale` the columns written while another request
held the entity, `rivals` the persons of whom two first logins overlapped: the
histories in which the properties say what may go wrong, and only that.
`EvaluateBadge` reads what `BadgeRules` needs; `Contexts` are its possible finds.
`LimitsHold` is about the nickname as well as the time of its last change: a request
that is sent a nickname by PATCH (`PatchesNickname`) has no limit and leaves the time
alone, and is named as the exception. `OneNicknamePerMonth` states what the documents
promise (section 7).

### Broadcast, BadgeAlerts, Inbox

| Model | Code |
|---|---|
| `StartPush`, `ReadPage`, `SavePage`, `Send`, `Clear` | `sendFlyerNotifications` page by page; `notifyWishlistUsers` at once |
| `Join`, `Agree`, `RemoveUser`, `UpdateFcmToken`, `Expire` | users and their devices meanwhile |
| `stayed`, `came`, `gone` in `push` | history: who would get the push all the time, who began to, who ceased |
| `Verify`, `CountVerifications`, `LoadVerifier`, `SaveNews` | `checkAndNotifyBadge` after the commit of a verification |
| `disturbed` | history: thresholds that an overtaken or crashed check, or a removed price, may miss or repeat |
| `FindByUser` (`Page`) | one page of the listing by cursor |
| `MarkAsRead`, `ReloadNote`, `UpdateNote`, `InsertNote` | load, then the statements of `save` |
| `CreateAndPush`, `MarkAllAsRead`, `RemoveNote` | the others |

`now` counts microseconds, as the column does; `ToDate` drops them, as the cursor
does. `device` in Broadcast is history: the token each user registered last.

### Catalog

Products, wishes and prices under requests and under the migration
`MovePriceUnitType`, which the deployment runs beside the new version. `tables` is
what requests see and `draft` what the migration sees: each of its statements
takes in what requests have committed since (`MergeStep`), and `CommitMerge` makes
`draft` visible. `StartMerge` locks `prices` (ALTER TABLE); products and wishes are
locked row by row (`LocksProduct`, `LocksWish`).

### Stores, StoreSearch

Stores under requests and under the import of a public register, which reads files
row by row into a buffer and inserts it when full and at the end of a file
(`ReadRow`, `EndFile`, `FlushBuffer`), may crash anywhere and starts again.
`StoreSearch` is the search near a point: distance, and a keyword in which chains
have two spellings (`expandKeywordAliases`, with the eight chains of the code). Names
are sequences of fragments, fine enough that "emart" is a part of "lottemart". The
code respells a chain wherever it stands in the keyword; `SearchWhole` says which
stores are right for keywords that name no chain twice (`NamesNoneTwice`), and of
all of them that what is found is near, in order and nothing twice.

### PriceBoard

`findRecentByProduct`, statement by statement (`CountProducts` to `CountConfirms`),
and the lists by page (`ListIds`, `LoadRows`, `CountRows`: the statements of
`findAndCount` with joins), while the table changes: a price is registered, repriced,
deactivated, deleted or confirmed, grows older than a week, or is brought back by a
late save (`Reinsert`); the migration repoints all prices of a product to another
(`MergeGoods`). `Late` bounds the rows that may come back: what a deleted row held is
not remembered, so any of them may. `changed`, `came` and `gone` are the histories in
which a stale card or a shifted page is excused; a product shows twice on a page only
if it is in `changed`. A page is cut from any order that the statement's `order`
allows (`Ordered`, `PageOf`), the lists of a product having no tie-break; a new
price never takes an id used before (`Register`).

### Proof modules

`PointLedgerProofs`, `PriceVerificationProofs`, `RefreshSessionProofs`,
`PriceReactionProofs` and `OwnerReviewProofs` extend the module they are named after
and hold its theorems; `AccountsProofs` extends `MCAccounts`, and with it Profile and
TrustScore; `MarketProofs` extends `MCMarket`, and with it all modules of Broadcast to
PriceBoard above. `SumLemmas` says what `SumFunctionOnSet`, of which
both the ledger's and the scores' sums are made, computes on a finite set. Section
6 tells the arguments.

## 4. Runs

| Run | Instance | Checks | Shows |
|---|---|---|---|
| `ledger_one` | 1 user, 2 prices, 2 disputes, 4 calls; 5 / 2 / cap 3 points | all safety properties of PointLedger and `ImplementsAtomicLedger` | every interleaving of four calls, with crashes, deadlocks and a deletion, keeps wallet and ledger right |
| `ledger_live` | 1 user, 2 prices, 1 dispute, 3 calls; price id cleared | `CallsSettle`, `ClosingEnds` | nothing waits forever although locks are taken in two orders |
| `verification_safe` | 3 users, 1 price, 3 calls; the UPDATE of the counters succeeds or fails | safety of PriceVerification | three overlapping requests of any kind, by owner, verifiers and leavers |
| `verification_live` | 2 users, 2 prices, 2 calls; the UPDATE succeeds, the longer way through the locks | `CallsEnd` | two users verify each other while both delete their accounts: the cycle is broken |
| `session_safe` | 1 user, 4 calls, 2 seconds | safety of RefreshSession | revocation under any overlap, equal tokens included |
| `session_race` | 1 user, 3 calls, 3 seconds | `RotationInvalidates` (violated) | section 7 |
| `reaction_safe` | 2 users, 1 price, 4 calls | safety of PriceReaction and `ImplementsRegister` | four overlapping toggles, with removals, act one by one |
| `owner_safe` | 1 user, 2 stores, 2 applications, 1 flyer, 2 calls at once, any number of requests | safety of OwnerReview | reviews, edits, withdrawals and new applications that overlap in pairs |
| `owner_race` | the same with 1 application | `EditsAreReviewed` (violated) | section 7 |
| `accounts_safe` | 2 users, 2 requests at once, 3 in all, 2 processes with 3 batches | `TypeOK`, `UnracedWritesStand`, `OneAccountPerPerson`, `LimitsHold`, `ScoresAgree` | what was written last stands, limits hold, one account per person, both score tables agree; and exactly when not |
| `market_safe` | see below | `TypeOK`, `PushesReachOnce`, `BadgesAnnouncedOnce`, `InboxWhole`, `CatalogWhole`, `PricesRead` | pushes, badge news, listings, the merge, the import, the search and the cards, each while its rows change |
| `nickname_days` | 1 user, 3 requests one after the other, a unit of time of three days, limit 1 | `OneNicknamePerMonth` (violated) | section 7 |

Why the bounds are enough to be interesting. Point calls meet only at a wallet
row and at an idempotency key, both of one user, so one user is the general case
for safety; four calls allow a reward, a duplicate removal and two disputes of
one price in any order. The amounts are scaled so that both limits bite in two
disputes: a cap of 3 cuts the second penalty of 2 to 1, and a removal of 5 after
a penalty is cut to the balance. Verification needs three users (owner and two
verifiers) and three calls (two votes and an edit or a removal); a dispute among
them adds a second price. Four session calls allow a login, two overlapping
renewals and a logout; two seconds allow equal and different tokens.
Reactions meet at one user and price, where four calls allow two inserts, a
change and a removal; the second user is the owner, who is refused. In
OwnerReview one user with two application ids can withdraw and apply again, and
a uniqueness bug would show; two calls at once are enough, since every conflict
there is one between two saves, and slots are used again.

`accounts_safe` and `market_safe` each explore several components in one run, apart
from each other: the initial state chooses one, the others rest. They share no
variable - what one component does to the columns of another is an action of that
other module - so their interleavings would only multiply the states. Profile needs
two requests at once, since every conflict is one between two saves, and a third one
after them to meet what they left; a limit of 2 and a cool-down of 1 within 3 units of
time let a change come too early and in time. Two batches that overlap and a third
that repairs are the shortest story in which `ScoresAgree` says something. Broadcast
has three users and pages of two, so that a push has a full page and a rest, with two
changes meanwhile. The listing has pages of one, three notes and two microseconds to a
millisecond, so that a page may end within one. Badge thresholds 1 and 3 can be
skipped and reached again with four verifications. Three products of one name give the
merge two duplicates of a keeper. The import has two files, a row outside Korea, a
repeated place and a buffer of two; it may crash once and run again. Cards have two
products, shops near and far, two amounts, pages of one and one change during the
read: what a statement found is compared with one other state of the table, and a
merge, which moves several prices, is one change. What a late save brings back there
is an offer near by (`MCLate`). The search has two stores with nine names against
twelve keywords.

In `CatalogAtRest` and the like, and where the code draws a random id (`CHOOSE` of
an unused one), one choice stands for all: no definition tells the ids apart.
`UnitsInOrder` fixes the units of the products before the merge up to their
names, which nothing orders.

Symmetry is used only in safety runs, over sets whose members no definition
tells apart; in `accounts_safe` and `market_safe` the sets of all components are
permuted together. Deadlock is checked in every run but those two and `nickname_days`:
`Quiet` lets a system stop only
when every call has ended or not begun, so a call stuck on a lock is an error
even in the safety runs. In the three nothing waits for
another but requests for the merge, and the bounded requests just come to an end.
The clock of RefreshSession stops at `LastSecond`; nothing else in the other runs
is bounded but by the number of calls and, in OwnerReview, of ids.

## 5. Fairness

`FairSpec` of PointLedger and PriceVerification states strong fairness of each
call's statements: PostgreSQL queues the waiters of a lock, so a statement that
can run again and again does run, though others keep taking the lock before it.
`CloseAccount`, the last statement of a deletion, is fair for the same reason
(weakly in PointLedger, where only one wallet lock can delay it), and
`DeadlockVictim` is weakly fair: a cycle stays until the detector breaks it.
Clients, crashes and aborts are not fair: nobody has to send a request and
nothing has to fail. RefreshSession and OwnerReview have no locks to wait for and
no liveness property; in PriceReaction the holder of a lock waits for nothing.
Pushes, batches, checks and imports may die at any statement and nothing in the
code starts them again, but the next night or an operator: no liveness is claimed.

## 6. Proofs

All theorems hold for any sets of users, prices, applications, requests, batches and
so on, and any amounts, thresholds, limits and bounds that satisfy the assumptions of
the modules: `PointAssumption`, `LedgerAssumption`, `VerificationAssumption`,
`SessionAssumption`, `ReactionAssumption`, `ReviewAssumption`, `BadgeAlertsAssumption`,
`BroadcastAssumption`, `InboxAssumption`, `CatalogAssumption`, `StoresAssumption`,
`SearchAssumption`, `PriceBoardAssumption`, `TrustAssumption`, `ProfileAssumption` and
`BatchAssumption`. They say that amounts, thresholds and bounds are numbers (positive
where zero would mean nothing), that the null values are outside the sets they
complete, that the files of the import are sequences of rows and names and keywords
sequences of fragments, and, where a statement orders or counts all rows - the members
and items of a batch, the users a push pages through, the stores of a search, the
prices and products of a card - that these are finitely many. No set of users, calls or
rows need be finite elsewhere; that finitely many rows exist at any time is proved
where a sum or
a count needs it.

**PointLedgerProofs.** `Invariance` proves the inductive invariant `IInv`: `TypeOK`,
`NoLostUpdate`, `OneRowPerKey`, `RevokeFollowsEarn`, `NothingOutlivesAccount` and what
they rest on - that the three columns of a wallet add up (`WalletBalances`), which
call may hold which lock at which statement, that an amount computed is the amount
payable now because only the lock's holder changes the rows it depends on, and that a
removal past its look-up has its registration in the ledger. None of the listed
properties is inductive alone: that no update is lost needs the lock table, and that
the CHECK never fails needs the amount to be still payable when it is applied. The
theorems `TypeCorrect`, `NoUpdateLost`, `BookedOnce`, `RevokesOnlyPaid` and
`AccountLeavesNothing` follow from it, and `RefinesAtomicLedger` shows with it that
every step of the service is a step of `AtomicLedger` or leaves its variables alone.

`RewardsBooked` adds what keeps a reward that resolved: an ended call stays as it is,
and a row goes only with the account it belongs to. The sums of `WalletIsSum` and
`DisputesCapped` are those of `SumFunctionOnSet`, a recursive function whose order
CHOOSE settles. The prover cannot do induction over such data, so `SumLemmas` argues
by a smallest set: of the finite sets for which a statement fails one has no smaller
such set in it (a strict subset order is well-founded, a theorem of the library
without an operator parameter), and there it is refuted in one step. From
`SumOfOneMore`, `SumOfPart` and their like follows that a row inserted changes the sums
of its user by its amount, which is what `SaveWallet` adds to the wallet in the same
commit (`SumInv`), and that a dispute's amount, computed under the lock from the
rows of that price, leaves them within the cap.

**RefreshSessionProofs.** `RevokedStaysRevoked` is not inductive: a call that
passes the check carries what Redis held, so the invariant adds that a key holds
a token of its own user that is not revoked (`StoreOK`), that what a call is
about to write it has signed for that user (`SignedOK`), that only a renewal
reads the key (`KindOK`), and that a late renewal gets no further than the
look-up of its user (`LateOK`). `RevocationIsFinal` and `DeletionEndsSessions`
follow.

**PriceReactionProofs.** Uniqueness rests on what `IInv` adds: a row inserted
and not committed is the only one of its key (`OpenOK`), and a row about to
change exists, is the caller's and is locked by no other call (`LockOK`).
`ReactionTypeCorrect`, `ReactsOnce` and `ReactionsHaveSubjects` follow. For
`RefinesRegister`, a change (`Change`, `Commit`) sets the reaction of one key
from what is shown at that moment, because the lock, or the open insert, keeps
all others from it; `ShownRow` and `ShownSame` say what is shown of a key.

**MarketProofs.** `BadgesAnnouncedOnce` speaks of a user with no check on its
way; the invariant says what holds on the way (`Announced`). Before a threshold is
reached there is no news of it and no check that brings it (`Ahead`); at most one
check ever brings it (`OneBrings`), and none once the news is there (`NewsOnce`);
and from the threshold on the news is there or a check brings it (`Told`). A check
brings a threshold if the count it will read is that threshold, which another
verification, a removal or a crash would change: those are the steps that put
the threshold into `disturbed`, and the proof shows no other step needs to.
`AnnouncedOnce` follows.

`PushesReachOnce` compares the offset of the next page with the rank of a user, the
number of receivers before them (`Rank`). Whoever stays a receiver and has no row yet
has a rank of at least the offset, or is on the page in hand (`Reaches`); whoever has
a row has a lower one (`ReachedOnce`); both unless somebody before them came, left or
was deleted. A page takes the receivers of the ranks from the offset on: a full one
moves the offset by as many as it holds (`PageIsFull`, `FirstOnes`), one that is not
full holds the last. A user who comes or leaves moves only ranks behind
them (`ShiftOK`). `ReachOnce` follows.

`InboxWhole` needs that a note keeps its date, whatever removes it and brings it back:
there is a function `d` from notes to dates with which the rows, the entities that
marks hold and the items that listings have shown agree (`Dated`). A listing that goes
on has shown nothing before its cursor (`InOrder`), and of what was there at its start
all that it has not shown is before the cursor or of the date of a page's last item
(`Covers`). Since a new item's time lies before the cursor and the dates of the shown
ones do not, it is none of them. A removed note is there only if a mark held it when
it was removed (`MarksOK`). `InboxIsWhole` follows.

`CatalogIsWhole` has three parts, proved apart. *Stores* (`StoresInv`). The import is
about places, not rows: a place the script has read past is in its buffer, or a store
has it, or a user moved it during a run (`Kept`), whatever the script has flushed,
forgotten in a crash and read again (`NothingLost`). A flush puts the new places of the
buffer into unused ids, each its own, which exist because there are at least as many
(`InjectionExists`). A place has one row since the flush skips those that are there
(`PlacesApart`). *Products* (`CatalogInv`). While the migration runs, `draft` has the
products that requests see, until it deletes (`InStep`); a price or a wish that it moved
is at the oldest product of its name (`Oldest`), so what was its owner is found by the
name (`PricesKept`, `WishesKept`). Of names that no creation or update doubled this
product is the only one left (`NamesApart`), and a creation that nothing crossed finds
there is still none of its name (`CreationsSeen`); the excuses `doubled` and `late` are
the histories that the model keeps of exactly such steps. *Search*. `SplitJoin` replaces
every occurrence of a spelling, which in a keyword that names no chain twice is at most
one (`Respells`); so the keywords tried are those that `Spells` asks for. What is found
is a sorted part of what matches, cut at the limit.

`ReadsFit` is about cards and lists that are put together from statements without a
snapshot (`BoardInv`), while a change is any table that the old one may become
(`MayBecome`): one other row, or a merge of products, which changes no amount. What a
statement of a card found of a product stays right until one of its prices changes,
and then the product is in `changed`: so for the ids and rows (`IdsFresh`,
`RowsFresh`), the aggregates (`SumsFresh`), the week's lowest (`LowsFresh`) and the
votes (`VotesFresh`), each from the statement on that reads it. A card is right
because the least offer, the sums and the week's lowest were all taken of the same
offers; its average lies between the least and the greatest (`AverageBetween`) since a
sum lies between as many times each (`SumBetween`). For a list, the number of prices
that come before x (`HeldBefore`) is beside `RowsRead`: what stays and has been shown
has fewer before it than rows were read, unless something came (`ShownOnce`); what has
not has at least as many, unless something left or changed its amount (`ToBeShown`).
Prices tied with others are excused where the order leaves them open. `PositionOf`
ties the two: in any order that `Before` allows, an untied price has as many places
before it as it has prices before it, so `PageOf` shows it exactly if its number falls
on the page.

Types. `BroadcastTypeOK` bounds the offset of a push, which takes that a page in hand
means there are users beyond it (`SkipsOK`); `BadgeAlertsTypeOK` bounds the news of a
threshold, which takes that each check under way, and each news, has a verification of
its own (`AlertsCounted`). The other types are parts of the invariants above.

`AllComponents` shows that a behaviour of `Spec` is one of each component, of which one
takes the steps and the others rest; `CatalogIsWhole`, `ReadsFitInMarket` and
`MarketIsTyped` compose with it what is proved of the components.

**PriceVerificationProofs.** `Typed` types the tables and says what a call carries at
each statement, on which the type depends (an edit holds a listed price, a
verifier is not the owner). For `OneEach`, a verification that is inserted
and not committed locks the price and the user it names and is the only one of its
pair (`Locks`, `PairsApart`). `DisputesWhole` and `DeductionsStand` follow from
`Whole`: a row is that of a call that has committed (`Made`) and names the price it
spawned until that is deleted (`Linked`); what a call committed is there, or its user
or its price went, or an edit brought the price back (`Lost`). `Counters` compares
numbers of rows, so it adds that they are finite (`Counts`) and needs of each step
that a counter moves with the rows it counts: together in `Commit`, while an account
that leaves takes rows and leaves counters, which is why they cover and do not equal.

**OwnerReviewProofs.** A slot of `Calls` carries ids, entities and columns, and
`Carries` types them by statement. `FlyersFollow` rests on whose an id is: owners of
applications and flyers never change, so there are functions `o` and `w` from ids to
owners that the rows, and whatever a request carries, agree with (`Owned`); they grow
when an id is first used. Without them a flyer re-inserted by a late `save` could be
anybody's. For `UnracedStand`, a `save` past its read of an application that is not
`raced` leaves out only columns in which its entity and the row still agree
(`Saves`), so that what it writes makes the row the entity it judged.

**AccountsProofs.** `UnracedStand` is about writes of whole entities from loads long
ago. Its invariant says what a request knows: of a field not stale, and not its own,
the entity it holds says what was last meant of it (`Agrees`), because whoever writes
a field marks it stale for all who hold that user (`Follows`). The limits
(`LimitsKept`) are the same knowledge, of `nicknameAt` and `badgeAt`, read at the
write that moves them; and a request means
to change both the nickname and its time or, by a PATCH, the nickname alone (`Intents`). `OneAccountEach`: a first login in progress has found nobody
and finds nobody still, unless another of the same person overlaps, and then both are
`rivals` (`Apart`). `ScoresStayTogether`: what a batch may write it has planned; while
it is sure of a member it alone writes, and of each of the two tables it has written
the member's score or will (`WillAgree`); a settled member's scores agree or a batch
is between the two (`SettledAgree`). `AccountsType` composes the types of both parts,
with the calculators' results between 0 and 100 for any votes (`PriceScoresType`,
`UserScoresType`): the weights of the votes that agree are a part of those of all
votes (`SumOfPart`).

Only model-checked: every liveness property (`CallsSettle`, `ClosingEnds`, `CallsEnd`),
since fairness and ENABLED are outside the prover. Every invariant and action property of a
passing run is stated by a theorem. What the recursive functions and folds compute is
proved only as far as the theorems need it (bounds, one member more, a part of a set).
The three violated properties are false, and there is nothing to prove of them.

## 7. What the checks found

* **Rotation does not always invalidate** (`session_race`). `PROGRESS.md:56` says
  that a renewal invalidates the previous token. Two renewals that overlap both
  read it before either replaces it, and both succeed. `RevokedStaysRevoked`
  states what remains true.
* **An edit can stand approved unseen** (`owner_race`). An edit resets the status
  "재심사를 위해" (`owner-application.service.ts:156`), to be reviewed again. When the
  saves of an edit and of an approval have both read the pending row before either
  writes, the approval writes the status and the edit only what it edited: for it
  the status did not differ. `UnracedReviewStands` states what remains true where
  no write falls between another save's read and write.
* **Thirty days are three** (`nickname_days`). `PROGRESS.md:24` and `PROJECT.md:94`
  promise that a nickname is kept for thirty days; `updateNickname` asks for three
  (`user.service.ts:138-149`). `LimitsHold` states what remains true.

Two more disagreements with documents and messages, which need no run to be seen:

* **No vote is counted.** `PROGRESS.md:138` says that a verification increments
  `verificationCount` atomically. The UPDATE that should do so
  (`price-verification.service.ts:153-158`) names `verification_count` and the others in
  raw SQL; the columns are `verificationCount` and so on (`price.entity.ts:125-132`).
  PostgreSQL refuses it and the vote is rolled back after all its checks: in the schema
  of the entities no verification is ever committed. What the properties say of votes
  that commit is about a schema with the names of the raw SQL; they hold in both
  (`verification_safe`).
* **A PATCH changes a nickname at any time.** The service answers "닉네임은 3일에 한 번만
  변경할 수 있습니다" (`user.service.ts:147`), only once in three days.
  `PATCH /users/:id` (`user.service.ts:85-98`) takes a nickname too, asks for no limit and
  leaves `nicknameChangedAt` as it was. `LimitsHold` names it as its exception.

Behaviour that no document rules out and that the models contain: where votes do
commit, an edit that loaded a price before them writes their counts back, since its
`save` writes every column in which the entity differs from the row (`WriteEdit`;
`CountersCoverVotes` excuses such prices); an edit that overlaps a removal brings the
price back without its verifications (`Reinsert`); a removal before the reward commits
leaves the reward (`FindEarned`); a first reward that loses the race for the wallet
row is logged and lost (`InsertWallet`); a confirm that loses the race against a first
report of the same user is ignored although the reaction there is a report, and a
report that loses against a confirm is told that it was reported already (`Repeated`);
an approval brings a withdrawn application back (`OwnerReview!Reinsert`).

The same of the modules of `accounts_safe` and `market_safe`; the properties name
these cases and allow no others:

* A save of a user writes old values back, or a deleted user (`WriteUser`,
  `ReinsertUser`); a login that loaded the user before they chose an image of their
  own replaces it with that of Kakao (`SyncImage`).
* Two nickname changes that overlap both pass the limit of three days.
* A score row that the other process inserted first, or a user who is gone, fails
  all inserts of a batch and the updates after them (`InsertScores`); the next
  night repairs it.
* A push skips users when others before them leave, reaches some twice when others
  come, and drops a whole page when one of its users is deleted before the save.
  `price.service.ts:147` names the column `fcm_token` in raw SQL, which is
  `fcmToken` in the entity, as the counters above: tokens that Firebase no longer knows
  are cleared after flyers only.
* Two verifications that commit before either is counted skip a badge's news.
* A notification of the millisecond that ends a page may be skipped, and a mark
  brings a removed one back.
* `findOrCreate` twice at once creates a product twice. The merge fails, and with
  it every further deployment, when a user wishes for two duplicates of a product
  but not for the one kept: the statement that removes double wishes
  (`ForgetWishes`) looks only for those beside a wish for the keeper, though the
  comment of the migration (lines 13-14) says they are removed before the move. A
  wish added during the merge may go with its product.
* With a location, every page of cards holds all products: TypeORM applies `skip` and
  `take` to a raw query only if it joins no table (`FindCheapest`). A product that loses
  its last price between two statements leaves an empty `IN ()`, and the request
  fails (`Aggregate`). `isLowest7d` is true whenever the week had an offer, since
  the cheapest of all offers is at most the week's cheapest. The lists of a
  product have no tie-break: equal prices may repeat or hide between pages.
* A search at the very point of a store may fail, as the cosine is not clamped
  there as it is in `price.service.ts:577` (`FailNearby`). A keyword that names
  two chains is respelled in one of them at a time, and one for "emart" finds
  "lottemart" too.

## 8. Not modelled

* Reads that are one statement (a price by id, counts, popular tags, the wishes of a
  user, lists of stores by name) and change nothing; formatting and DTO validation.
* The arithmetic of distances and its bounding box: `StoreSearch` takes distances
  as given. The box is drawn with 111,000 metres to a degree, less than there are
  (111,195), so it cuts nothing off.
* The product search index: `product-search.service.ts` is a stub in this version.
* Images, mail, the delivery of messages by Firebase, the Naver proxy,
  encryption and masking of registration numbers: pure input and output.
* Inquiries, notices, FAQ and owner posts: single-row CRUD on which nothing depends.
* Throttling, guards, health checks and deployment: configuration. It matters here
  only in that several processes run the same code and that a migration may run
  beside them.
* Migrations other than `MovePriceUnitType` only create tables, columns and
  indexes; where a model relies on a constraint, its map names the migration.
* The `pendingPoints` column, which no code writes.

## 9. Plan

Order of work, most important behaviour first.

1. *Done.* PointLedger with AtomicLedger as its abstract specification; proofs.
2. *Done.* PriceVerification; proofs.
3. *Done.* RefreshSession; proofs.
4. *Done.* PriceReaction with ReactionRegister as its abstract specification;
   proofs.
5. *Done.* OwnerReview; proofs.
6. *Done.* TrustRules, BadgeRules, TrustScore, Profile (`accounts_safe`); proofs.
7. *Done.* Broadcast, BadgeAlerts, Inbox, Catalog, Stores, StoreSearch,
   PriceBoard, checked (`market_safe`).
8. *Done.* Proofs: every invariant and action property of the passing runs, and both
   refinements.
9. *Open.* Nothing of the parts above. Owner posts and inquiries would be modelled
   should another part come to depend on them.
