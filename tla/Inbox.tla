--------------------------------- MODULE Inbox ---------------------------------
(***************************************************************************)
(* The notifications of users: NotificationService                         *)
(* (src/src/notification), its listing, its marks and its removals, beside *)
(* the single notifications that other services create.                    *)
(*                                                                         *)
(* A listing continues from a cursor, the time of its last item.  The      *)
(* database counts microseconds, the cursor milliseconds.  A mark loads    *)
(* the entity and saves it: save reads the row again, and inserts the      *)
(* entity if the row is gone.                                              *)
(***************************************************************************)
EXTENDS Integers, FiniteSets, SequencesExt

CONSTANTS
  Readers,      \* ids of users
  Notes,        \* ids of notifications
  Listings,     \* listings of a user's notifications, page by page
  Marks,        \* requests to mark a notification as read
  Limit,        \* items of a page
  Millisecond,  \* microseconds in it: 1000
  MaxClock,     \* bound: microseconds
  MaxMarks,     \* bound: requests to mark or remove
  NoReader, NoNote

ASSUME InboxAssumption ==
  /\ Limit \in Nat \ {0} /\ Millisecond \in Nat \ {0}
  /\ MaxClock \in Nat /\ MaxMarks \in Nat
  /\ NoReader \notin Readers /\ NoNote \notin Notes

VARIABLES
  note,      \* rows of notifications
  now,
  listing,   \* each listing: what its pages have shown so far
  mark,      \* the local variables of each mark
  asks,      \* requests so far
  removed,   \* history: notes that were removed
  held       \* history: notes that were removed while a mark held them

inboxVars == <<note, now, listing, mark, asks, removed, held>>

Absent == [user |-> NoReader, at |-> 0, isRead |-> FALSE]

NoListing == [pc |-> "idle", user |-> NoReader, cursor |-> 0, shown |-> <<>>,
              there |-> {}, ends |-> {}]

NoMark == [pc |-> "idle", note |-> NoNote, seen |-> Absent]

NoteRow == [user : Readers \cup {NoReader}, at : 0..MaxClock, isRead : BOOLEAN]

InboxTypeOK ==
  /\ note \in [Notes -> NoteRow]
  /\ now \in 0..MaxClock
  /\ \A l \in Listings :
       /\ listing[l].pc \in {"idle", "page", "done"}
       /\ listing[l].user \in Readers \cup {NoReader}
       /\ listing[l].cursor \in 0..MaxClock + 1
       /\ listing[l].shown \in Seq([note : Notes, at : 0..MaxClock])
       /\ listing[l].there \subseteq Notes
       /\ listing[l].ends \subseteq 0..MaxClock
  /\ mark \in [Marks -> [pc   : {"idle", "reload", "update", "insert"},
                         note : Notes \cup {NoNote},
                         seen : NoteRow]]
  /\ asks \in 0..MaxMarks
  /\ removed \subseteq Notes /\ held \subseteq removed

InboxInit ==
  /\ note = [n \in Notes |-> Absent]
  /\ now = 0
  /\ listing = [l \in Listings |-> NoListing]
  /\ mark = [m \in Marks |-> NoMark]
  /\ asks = 0
  /\ removed = {} /\ held = {}

-----------------------------------------------------------------------------
Exists(n) == note[n] # Absent

NotesOf(u) == {n \in Notes : note[n].user = u}

\* A Date drops the microseconds.
ToDate(at) == at - (at % Millisecond)

Used(n) == Exists(n) \/ n \in removed

\* Another service tells the user: the row has the time of its transaction. Any unused
\* id stands for the random one.
CreateAndPush(u) ==
  /\ \E n \in Notes : ~ Used(n)
  /\ LET new == CHOOSE n \in Notes : ~ Used(n)
     IN note' = [note EXCEPT ![new] = [user |-> u, at |-> now, isRead |-> FALSE]]
  /\ UNCHANGED <<now, listing, mark, asks, removed, held>>

PassMicrosecond ==
  /\ now < MaxClock
  /\ now' = now + 1
  /\ UNCHANGED <<note, listing, mark, asks, removed, held>>

-----------------------------------------------------------------------------
(* Listing *)

StartListing(l, u) ==
  /\ listing[l].pc = "idle"
  /\ listing' = [listing EXCEPT ![l] =
       [NoListing EXCEPT !.pc = "page", !.user = u, !.cursor = MaxClock + 1,
                         !.there = NotesOf(u)]]
  /\ UNCHANGED <<note, now, mark, asks, removed, held>>

\* Faulty variant: the item that only shows there is more stays on the page.
PageKeepsExtra(l, order) ==
  LET more == Len(order) > Limit
      items == SubSeq(order, 1, IF more THEN Limit + 1 ELSE Len(order))
      last == note[items[Limit]].at
  IN listing' = [listing EXCEPT
       ![l].pc = IF more THEN "page" ELSE "done",
       ![l].shown = @ \o [i \in DOMAIN items |-> [note |-> items[i], at |-> note[items[i]].at]],
       ![l].cursor = IF more THEN ToDate(last) ELSE @,
       ![l].ends = IF more THEN @ \cup {last} ELSE @]

\* limit + 1 rows are read; if there are so many, the last is cut off and the last that
\* remains gives the next cursor.
Page(l, order) ==
  LET more == Len(order) > Limit
      items == SubSeq(order, 1, IF more THEN Limit ELSE Len(order))
      last == note[items[Limit]].at
  IN listing' = [listing EXCEPT
       ![l].pc = IF more THEN "page" ELSE "done",
       ![l].shown = @ \o [i \in DOMAIN items |-> [note |-> items[i], at |-> note[items[i]].at]],
       ![l].cursor = IF more THEN ToDate(last) ELSE @,
       ![l].ends = IF more THEN @ \cup {last} ELSE @]

FindByUser(l) ==
  /\ listing[l].pc = "page"
  /\ \E order \in SetToSeqs({n \in NotesOf(listing[l].user) : note[n].at < listing[l].cursor}) :
       /\ \A i, j \in 1..Len(order) : i < j => note[order[i]].at >= note[order[j]].at
       /\ Page(l, order)
  /\ UNCHANGED <<note, now, mark, asks, removed, held>>

-----------------------------------------------------------------------------
(* Marks and removals *)

Ask == asks < MaxMarks /\ asks' = asks + 1

MarkAsRead(m, n, u) ==
  /\ mark[m].pc = "idle"
  /\ Ask
  /\ note[n].user = u /\ ~ note[n].isRead
  /\ mark' = [mark EXCEPT ![m] =
       [pc |-> "reload", note |-> n,
        seen |-> [note[n] EXCEPT !.isRead = TRUE, !.at = ToDate(@)]]]
  /\ UNCHANGED <<note, now, listing, removed, held>>

ReloadNote(m) ==
  /\ mark[m].pc = "reload"
  /\ mark' = [mark EXCEPT ![m].pc = IF Exists(mark[m].note) THEN "update" ELSE "insert"]
  /\ UNCHANGED <<note, now, listing, asks, removed, held>>

\* The columns that differ: isRead and readAt. A row that is gone is not missed.
UpdateNote(m) ==
  /\ mark[m].pc = "update"
  /\ note' = IF Exists(mark[m].note) THEN [note EXCEPT ![mark[m].note].isRead = TRUE] ELSE note
  /\ mark' = [mark EXCEPT ![m] = NoMark]
  /\ UNCHANGED <<now, listing, asks, removed, held>>

\* The whole entity; the primary key refuses a second one.
InsertNote(m) ==
  /\ mark[m].pc = "insert"
  /\ note' = IF Exists(mark[m].note) THEN note
             ELSE [note EXCEPT ![mark[m].note] = mark[m].seen]
  /\ mark' = [mark EXCEPT ![m] = NoMark]
  /\ UNCHANGED <<now, listing, asks, removed, held>>

MarkAllAsRead(u) ==
  /\ Ask
  /\ note' = [n \in Notes |-> IF note[n].user = u THEN [note[n] EXCEPT !.isRead = TRUE] ELSE note[n]]
  /\ UNCHANGED <<now, listing, mark, removed, held>>

\* Loaded, checked and deleted by its id.
RemoveNote(n, u) ==
  /\ Ask
  /\ note[n].user = u
  /\ note' = [note EXCEPT ![n] = Absent]
  /\ removed' = removed \cup {n}
  /\ held' = IF \E m \in Marks : mark[m].note = n THEN held \cup {n} ELSE held
  /\ UNCHANGED <<now, listing, mark>>

InboxNext ==
  \/ \E u \in Readers :
       \/ CreateAndPush(u) \/ MarkAllAsRead(u)
       \/ \E n \in Notes : RemoveNote(n, u) \/ \E m \in Marks : MarkAsRead(m, n, u)
  \/ PassMicrosecond
  \/ \E l \in Listings : FindByUser(l) \/ \E u \in Readers : StartListing(l, u)
  \/ \E m \in Marks : ReloadNote(m) \/ UpdateNote(m) \/ InsertNote(m)

InboxSpec == InboxInit /\ [][InboxNext]_inboxVars

-----------------------------------------------------------------------------
ShownBy(l) == {item.note : item \in Range(listing[l].shown)}

\* A listing shows nothing twice, newest first, and by its end every note that was
\* there from its beginning; except notes of the same millisecond as the last item of
\* some page, which the cursor, a rounded time, may skip.
ListsWhole ==
  \A l \in Listings :
    LET shown == listing[l].shown
    IN /\ \A i, j \in DOMAIN shown : i < j =>
            shown[i].note # shown[j].note /\ shown[i].at >= shown[j].at
       /\ listing[l].pc = "done" =>
            \A n \in listing[l].there \ removed :
              n \in ShownBy(l) \/ \E end \in listing[l].ends : ToDate(end) = ToDate(note[n].at)

\* A removed note comes back only if a request to mark it was under way.
RemovedStaysAway == \A n \in removed : Exists(n) => n \in held

InboxWhole == ListsWhole /\ RemovedStaysAway
=============================================================================
