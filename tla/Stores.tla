--------------------------------- MODULE Stores ---------------------------------
(***************************************************************************)
(* Stores and their reviews: StoreService (src/src/store), and the script  *)
(* that reads stores from the files of a public register                   *)
(* (src/src/scripts/ingest-public-stores.ts) while users create, change    *)
(* and remove them.  The script may crash and be started again.            *)
(***************************************************************************)
EXTENDS Naturals, FiniteSets, SequencesExt

CONSTANTS
  StoreIds,
  Places,       \* values of externalPlaceId; NoPlace is NULL
  Files,        \* the files in order, each a sequence of rows
  Chunk,        \* 1000 in the code
  Reviewers,    \* ids of users
  Clients,      \* requests that may run at once
  MaxVisits,    \* bound: requests
  MaxRuns,      \* bound: runs of the script
  NoPlace, NoStore, NoClient

ASSUME StoresAssumption ==
  /\ Chunk \in Nat \ {0} /\ MaxVisits \in Nat /\ MaxRuns \in Nat
  /\ NoPlace \notin Places /\ NoStore \notin StoreIds
  /\ Files \in Seq(Seq([place : Places \cup {NoPlace},
                        inKorea : BOOLEAN, named : BOOLEAN, typed : BOOLEAN]))

VARIABLES
  store,     \* rows of stores
  review,    \* rows of store_reviews: who has reviewed which store
  visit,     \* the local variables of each request
  visits,
  ingest,    \* the local variables of the script
  runs,
  moved      \* history: places that users gave a store or took from one during a run

storeVars == <<store, review, visit, visits, ingest, runs, moved>>

\* The name stands for the other columns; that of the register is "public".
NoStoreRow == [place |-> NoPlace, name |-> "none"]

StoreRow == [place : Places \cup {NoPlace}, name : {"public", "own"}]

NoVisit == [pc |-> "idle", store |-> NoStore, row |-> NoStoreRow, by |-> NoClient]

NoIngest == [pc |-> "off", file |-> 1, row |-> 1, buffer |-> <<>>]

StoresTypeOK ==
  /\ store \in [StoreIds -> StoreRow \cup {NoStoreRow}]
  /\ review \subseteq StoreIds \X Reviewers
  /\ visit \in [Clients -> [pc    : {"idle", "reload", "update", "reinsert", "review"},
                            store : StoreIds \cup {NoStore},
                            row   : StoreRow \cup {NoStoreRow},
                            by    : Reviewers \cup {NoClient}]]
  /\ visits \in 0..MaxVisits
  /\ ingest.pc \in {"off", "read", "flush", "done"}
  /\ ingest.file \in 1..Len(Files) + 1 /\ ingest.row \in Nat
  /\ ingest.buffer \in Seq(Places) /\ Len(ingest.buffer) <= Chunk
  /\ runs \in 0..MaxRuns
  /\ moved \subseteq Places

StoresInit ==
  /\ store = [s \in StoreIds |-> NoStoreRow]
  /\ review = {}
  /\ visit = [c \in Clients |-> NoVisit]
  /\ visits = 0
  /\ ingest = NoIngest
  /\ runs = 0
  /\ moved = {}

-----------------------------------------------------------------------------
Opened == {s \in StoreIds : store[s] # NoStoreRow}

PlacesOf(stores) == {store[s].place : s \in stores} \ {NoPlace}

\* externalPlaceId is unique, but for NULL.
PlaceTaken(s, place) == place \in PlacesOf(Opened \ {s})

Visits == visits < MaxVisits /\ visits' = visits + 1

Leaves(c) == visit' = [visit EXCEPT ![c] = NoVisit]

\* Ids that no row and no request has. Any of them stands for a random one.
Fresh == StoreIds \ (Opened \cup {visit[c].store : c \in Clients})

FreshFor(places) ==
  CHOOSE ids \in [places -> Fresh] : \A p, q \in places : ids[p] = ids[q] => p = q

Write(s, row) ==
  /\ store' = [store EXCEPT ![s] = row]
  /\ moved' = moved \cup ({store[s].place, row.place} \ {NoPlace})

\* One INSERT; a place that is taken is an error.
CreateStore(place) ==
  /\ Visits
  /\ Fresh # {} /\ place \notin PlacesOf(Opened)
  /\ Write(FreshFor({place})[place], [place |-> place, name |-> "own"])
  /\ UNCHANGED <<review, visit, ingest, runs>>

\* Update: the entity is loaded, changed and saved.
LoadStore(c, s, place) ==
  /\ visit[c].pc = "idle" /\ Visits
  /\ s \in Opened
  /\ visit' = [visit EXCEPT ![c] = [NoVisit EXCEPT !.pc = "reload", !.store = s,
                                     !.row = [place |-> place, name |-> "own"]]]
  /\ UNCHANGED <<store, review, ingest, runs, moved>>

ReloadStore(c) ==
  /\ visit[c].pc = "reload"
  /\ visit' = [visit EXCEPT ![c].pc =
       IF visit[c].store \in Opened THEN "update" ELSE "reinsert"]
  /\ UNCHANGED <<store, review, visits, ingest, runs, moved>>

\* The row is updated, or inserted again if it was gone; unless its place is taken.
SaveStore(c) ==
  LET s == visit[c].store
  IN /\ visit[c].pc \in {"update", "reinsert"}
     /\ IF (visit[c].pc = "update" <=> s \in Opened) /\ ~ PlaceTaken(s, visit[c].row.place)
        THEN Write(s, visit[c].row)
        ELSE UNCHANGED <<store, moved>>
     /\ Leaves(c)
     /\ UNCHANGED <<review, visits, ingest, runs>>

\* Its reviews go with it.
RemoveStore(s) ==
  /\ Visits
  /\ s \in Opened
  /\ Write(s, NoStoreRow)
  /\ review' = {r \in review : r[1] # s}
  /\ UNCHANGED <<visit, ingest, runs>>

FindReviewed(c, s, u) ==
  /\ visit[c].pc = "idle" /\ Visits
  /\ s \in Opened
  /\ visit' = [visit EXCEPT ![c] = [NoVisit EXCEPT !.pc = "review", !.store = s, !.by = u]]
  /\ UNCHANGED <<store, review, ingest, runs, moved>>

\* A second review is a conflict, and a store that is gone an error.
AddReview(c) ==
  /\ visit[c].pc = "review"
  /\ review' = review \cup ({visit[c].store} \cap Opened) \X {visit[c].by}
  /\ Leaves(c)
  /\ UNCHANGED <<store, visits, ingest, runs, moved>>

-----------------------------------------------------------------------------
(* The script *)

\* Rows outside of Korea, without a name, of a kind that sells nothing to compare, or
\* without a number are skipped.
Admitted(row) == row.inKorea /\ row.named /\ row.typed /\ row.place # NoPlace

Step(pc, i) ==
  /\ ingest' = [i EXCEPT !.pc = pc]
  /\ UNCHANGED <<store, review, visit, visits, runs, moved>>

StartIngest ==
  /\ ingest.pc \in {"off", "done"}
  /\ runs < MaxRuns /\ runs' = runs + 1
  /\ ingest' = [NoIngest EXCEPT !.pc = "read"]
  /\ moved' = {}
  /\ UNCHANGED <<store, review, visit, visits>>

InFile == ingest.file <= Len(Files) /\ ingest.row <= Len(Files[ingest.file])

\* Faulty variant: the buffer is flushed only once it is more than full.
ReadRowLate ==
  /\ ingest.pc = "read" /\ InFile
  /\ LET row == Files[ingest.file][ingest.row]
         buffer == IF Admitted(row) THEN Append(ingest.buffer, row.place) ELSE ingest.buffer
     IN Step(IF Len(buffer) > Chunk THEN "flush" ELSE "read",
             [ingest EXCEPT !.row = @ + 1, !.buffer = buffer])

\* A row goes to the buffer, which is flushed when full.
ReadRow ==
  /\ ingest.pc = "read" /\ InFile
  /\ LET row == Files[ingest.file][ingest.row]
         buffer == IF Admitted(row) THEN Append(ingest.buffer, row.place) ELSE ingest.buffer
     IN Step(IF Len(buffer) >= Chunk THEN "flush" ELSE "read",
             [ingest EXCEPT !.row = @ + 1, !.buffer = buffer])

NextFile == [ingest EXCEPT !.file = @ + 1, !.row = 1]

\* Faulty variant: what is left in the buffer is dropped.
EndFileUnflushed ==
  /\ ingest.pc = "read" /\ ingest.file <= Len(Files) /\ ~ InFile
  /\ Step("read", [NextFile EXCEPT !.buffer = <<>>])

\* At the end of a file, what is left in the buffer is flushed.
EndFile ==
  /\ ingest.pc = "read" /\ ingest.file <= Len(Files) /\ ~ InFile
  /\ IF ingest.buffer = <<>> THEN Step("read", NextFile) ELSE Step("flush", ingest)

EndIngest ==
  /\ ingest.pc = "read" /\ ingest.file > Len(Files)
  /\ Step("done", ingest)

\* One INSERT of the buffer; rows whose place is taken, by a store or by another of
\* these rows, are ignored.
FlushBuffer ==
  /\ ingest.pc = "flush"
  /\ LET new == Range(ingest.buffer) \ PlacesOf(Opened)
         ids == FreshFor(new)
     IN /\ Cardinality(new) <= Cardinality(Fresh)
        /\ store' = [s \in StoreIds |->
             IF s \in Range(ids)
             THEN [place |-> CHOOSE p \in new : ids[p] = s, name |-> "public"] ELSE store[s]]
  /\ ingest' = [ingest EXCEPT !.pc = "read", !.buffer = <<>>]
  /\ UNCHANGED <<review, visit, visits, runs, moved>>

CrashIngest ==
  /\ ingest.pc \in {"read", "flush"}
  /\ Step("off", NoIngest)

StoresNext ==
  \/ \E place \in Places \cup {NoPlace} :
       CreateStore(place) \/ \E c \in Clients, s \in StoreIds : LoadStore(c, s, place)
  \/ \E s \in StoreIds :
       \/ RemoveStore(s)
       \/ \E c \in Clients, u \in Reviewers : FindReviewed(c, s, u)
  \/ \E c \in Clients : ReloadStore(c) \/ SaveStore(c) \/ AddReview(c)
  \/ StartIngest \/ ReadRow \/ EndFile \/ EndIngest \/ FlushBuffer \/ CrashIngest

StoresSpec == StoresInit /\ [][StoresNext]_storeVars

-----------------------------------------------------------------------------
\* Every place that the register admits.
Registered == {row.place : row \in {r \in UNION {Range(file) : file \in Range(Files)} : Admitted(r)}}

\* When a run of the script ends, however many crashed before it, each admitted place
\* of the register has a store and no place has two; but for places that users gave a
\* store, or took from one, since the run began. A review never outlives its store.
StoresWhole ==
  /\ ingest.pc = "done" => Registered \ moved \subseteq PlacesOf(Opened)
  /\ \A s, t \in Opened : s # t /\ store[s].place # NoPlace => store[s].place # store[t].place
  /\ \A r \in review : r[1] \in Opened
=============================================================================
