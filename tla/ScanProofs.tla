------------------------------- MODULE ScanProofs -------------------------------
(***************************************************************************)
(* Theorems of InboundPoll about the mail a scan has yet to see: none is   *)
(* outside its window, behind a boundary, or forgotten when it completes.  *)
(* They need the overlap of ClocksAssumption, a provider whose days, if it *)
(* searches by day, are those of UTC, and, of one that lists by date, that *)
(* dates do not lag: mail that arrives is then the first of the listing.   *)
(***************************************************************************)
EXTENDS InboundProofs

DaysAgree == SearchesByDay => Zone = 0

ListsInOrder == ListsByDate => Skew = 0

(* What the variables hold, where arithmetic is about to be done on it. *)
LEMMA RowNumbers ==
  ASSUME TypeOK, row # Null
  PROVE  /\ row \in Rows
         /\ row.lastOk \in Nat /\ row.started \in Nat /\ row.updated \in Nat
         /\ row.epoch \in Nat /\ row.generation \in Nat
         /\ row.cursor # Null => row.cursor \in Marks /\ row.cursor.place \in Int
  <1>1. row \in Rows
    BY DEF TypeOK, TablesOK
  <1>2. row.cursor # Null => row.cursor \in Marks
    BY <1>1 DEF Rows, Cursors
  <1>3. QED
    BY <1>1, <1>2 DEF Rows, Stamps, Epochs, Generations, Marks

(* And so for the clock, the mailbox and what is remembered of the scan.  *)
LEMMA WorldNumbers ==
  ASSUME TypeOK, BoundsAssumption
  PROVE  /\ now \in Nat /\ scanFrom \in Nat /\ Len(inbox) \in Nat
         /\ validity \in Nat /\ 1 <= validity /\ validity <= MaxValidity
         /\ Mails = 1 .. Len(inbox)
         /\ \A m \in Mails : m \in Nat /\ 1 <= m /\ m <= Len(inbox)
                             /\ inbox[m] \in Letters /\ inbox[m].date \in Int
                             /\ Place(m) \in Int
  <1>1. inbox \in Seq(Letters)
    BY DEF TypeOK, WorldOK
  <1>2. Len(inbox) \in Nat /\ Mails = 1 .. Len(inbox)
        /\ \A m \in Mails : inbox[m] \in Letters
    BY <1>1 DEF Mails
  <1>3. \A m \in Mails : m \in Nat /\ 1 <= m /\ m <= Len(inbox)
    BY <1>2
  <1>4. /\ now \in Nat /\ scanFrom \in Nat
        /\ validity \in Nat /\ 1 <= validity /\ validity <= MaxValidity
    BY DEF TypeOK, WorldOK, HistoryOK, Stamps, Numbers, Epochs, BoundsAssumption
  <1>5. QED
    BY <1>2, <1>3, <1>4, PlaceType DEF Letters

-------------------------------------------------------------------------------
(* The page. *)

(* Received mail behind the cursor and in the window is on the page, or    *)
(* listed behind all of it and left to the next page.                      *)
LEMMA PageReach ==
  ASSUME TypeOK, SizesAssumption, BoundsAssumption, NullAssumption,
         NEW b \in Mailboxes, NEW since, NEW cursor,
         NEW page, page = Page(b, since, cursor),
         NEW m \in Mails, inbox[m].mailbox = b,
         inbox[m].present, inbox[m].received, InWindow(inbox[m].date, since),
         cursor = Null \/ Place(m) < cursor.place
  PROVE  \/ IdAt(m, Epoch) \in page.items
         \/ /\ \A id \in page.items : Place(m) < Place(id.mail)
            /\ page.next # Null /\ Place(m) < page.next.place
  <1> DEFINE S == {n \in Listed(b, since) : cursor = Null \/ Place(n) < cursor.place}
             next == IF Cardinality(S) > PageSize
                       THEN [mailbox |-> b, epoch |-> Epoch,
                             place |-> Place(Oldest(Newest(S)))]
                       ELSE Null
             ahead(x) == {n \in S : Place(n) > Place(x)}
  <1>1. S \subseteq Mails /\ S \in SUBSET (1 .. MaxMail)
        /\ \A n \in S : Place(n) \in Int
    BY IdType, PlaceType DEF Listed
  <1>2. page = [items |-> {Id(n) : n \in Kept(Newest(S))}, next |-> next,
                epoch |-> Epoch]
    BY DEF Page
  <1>3. page.items = {Id(n) : n \in Kept(Newest(S))} /\ page.next = next
    BY <1>2
  <1>4. m \in S
    BY DEF Listed
  <1>5. Id(m) = IdAt(m, Epoch) /\ \A n : Id(n).mail = n
    BY DEF Id, IdAt
  <1>6. CASE m \in Newest(S)
    <2>1. m \in Kept(Newest(S))
      BY <1>6 DEF Kept
    <2> HIDE DEF S
    <2>2. QED
      BY <1>3, <1>5, <2>1
  <1>7. CASE m \notin Newest(S)
    <2> HIDE DEF S
    <2>1. ~(Cardinality(ahead(m)) < PageSize)
      BY <1>4, <1>7 DEF Newest
    <2>2. S \in SUBSET Nat /\ (\A n \in S : n \in Nat /\ n <= MaxMail) /\ MaxMail \in Nat
      BY <1>1, BoundsAssumption DEF BoundsAssumption
    <2>3. IsFiniteSet(S)
      BY <2>2, FS_BoundedSetOfNaturals
    <2>4. \A x : /\ IsFiniteSet(ahead(x)) /\ Cardinality(ahead(x)) \in Nat
                 /\ Cardinality(ahead(x)) <= Cardinality(S)
      <3>1. \A x : ahead(x) \subseteq S
        OBVIOUS
      <3> HIDE DEF ahead
      <3>2. QED
        BY <2>3, <3>1, FS_Subset, FS_CardinalityType
    <2>5. Cardinality(S) \in Nat
      BY <2>3, FS_CardinalityType
    <2>6. Cardinality(ahead(m)) # Cardinality(S)
      <3>1. m \notin ahead(m) /\ ahead(m) \subseteq S
        BY <1>1, <1>4
      <3>2. ahead(m) # S
        BY <1>4, <3>1
      <3> HIDE DEF ahead
      <3>3. QED
        BY <2>3, <3>1, <3>2, FS_Subset
    <2>7. Cardinality(S) > PageSize
      <3> HIDE DEF ahead
      <3> QED
        BY <2>1, <2>4, <2>5, <2>6, SizesAssumption DEF SizesAssumption
    <2>8. ASSUME NEW o \in Newest(S)
          PROVE  Place(m) < Place(o)
      <3>1. o \in S /\ Cardinality(ahead(o)) < PageSize
        BY DEF Newest
      <3>2. ~(Place(o) <= Place(m))
        <4> SUFFICES ASSUME Place(o) <= Place(m) PROVE FALSE
          OBVIOUS
        <4>1. ahead(m) \subseteq ahead(o)
          <5>1. \A n \in S : Place(n) > Place(m) => Place(n) > Place(o)
            BY <1>1, <1>4, <3>1
          <5>2. QED
            BY <5>1
        <4> HIDE DEF ahead
        <4>2. Cardinality(ahead(m)) <= Cardinality(ahead(o))
          BY <2>4, <4>1, FS_Subset
        <4>3. QED
          BY <2>1, <2>4, <3>1, <4>2, SizesAssumption DEF SizesAssumption
      <3>3. QED
        BY <1>1, <1>4, <3>1, <3>2
    <2>9. Oldest(Newest(S)) \in Newest(S) /\ Newest(S) \subseteq S
      BY <1>1, <1>4, NewestMails
    <2>10. page.next = [mailbox |-> b, epoch |-> Epoch, place |-> Place(Oldest(Newest(S)))]
      BY <1>3, <2>7
    <2>11. page.next \in Marks
      <3> DEFINE o == Place(Oldest(Newest(S)))
      <3>1. o \in Int /\ Epoch \in Epochs
        BY <1>1, <2>9, EpochFacts
      <3> HIDE DEF o
      <3>2. page.next = [mailbox |-> b, epoch |-> Epoch, place |-> o]
        BY <2>10 DEF o
      <3>3. QED
        BY <3>1, <3>2 DEF Marks
    <2>12. page.next # Null /\ page.next.place = Place(Oldest(Newest(S)))
      BY <2>10, <2>11, NullAssumption
    <2>13. \A id \in page.items : id.mail \in Newest(S)
      BY <1>3, <1>5 DEF Kept
    <2>14. QED
      BY <2>8, <2>9, <2>12, <2>13
  <1>8. QED
    BY <1>6, <1>7

(* A page shows mail from behind the cursor only. *)
LEMMA PageBeforeCursor ==
  ASSUME NEW b \in Mailboxes, NEW since, NEW cursor, cursor # Null,
         NEW id \in Page(b, since, cursor).items
  PROVE  Place(id.mail) < cursor.place
  <1> DEFINE S == {n \in Listed(b, since) : cursor = Null \/ Place(n) < cursor.place}
  <1>1. Page(b, since, cursor).items = {Id(n) : n \in Kept(Newest(S))}
    BY DEF Page
  <1>2. PICK n \in Kept(Newest(S)) : id = Id(n)
    BY <1>1
  <1>3. n \in S
    BY <1>2 DEF Kept, Newest
  <1>4. QED
    BY <1>2, <1>3 DEF Id

(* Mail no older than the overlap allows is in the window of the search. *)
LEMMA WindowReaches ==
  ASSUME SizesAssumption, DaysAgree, NEW r \in Rows, NEW date \in Int,
         r.lastOk # 0 => date >= r.lastOk - Overlap
  PROVE  InWindow(date, Since(r))
  <1>1. r.lastOk \in Nat /\ Overlap \in Nat /\ Day \in Nat \ {0}
    BY SizesAssumption DEF SizesAssumption, Rows, Stamps
  <1>2. CASE r.lastOk = 0
    BY <1>2 DEF InWindow, Since
  <1>3. CASE r.lastOk # 0
    <2> DEFINE s == r.lastOk - Overlap
    <2>1. s \in Int /\ date >= s /\ Since(r) = s
      BY <1>1, <1>3 DEF Since
    <2> HIDE DEF s
    <2>2. (s \div Day) * Day <= s /\ (s \div Day) * Day \in Int
      BY <1>1, <2>1
    <2>3. SearchesByDay => (s \div Day) * Day + Zone = (s \div Day) * Day
      BY <2>2 DEF DaysAgree
    <2>4. SearchesByDay => date >= (s \div Day) * Day + Zone
      BY <2>1, <2>2, <2>3
    <2>5. QED
      BY <2>1, <2>4 DEF InWindow
  <1>4. QED
    BY <1>2, <1>3

-------------------------------------------------------------------------------
(* Steps that leave the scan alone. *)

(* The epoch that the stamps of the row are measured by. *)
RowClock == IF row.epoch # 0 THEN row.epoch ELSE validity

(* Stamps that are near stay so. *)
LEMMA LaterClock ==
  ASSUME NEW s \in Nat, NEW a \in Nat, NEW b \in Nat, NEW d \in Nat, NEW e \in Nat,
         NEW f \in Nat, a <= b, e <= f, s <= a + d + e - 1
  PROVE  s <= b + d + f - 1
  OBVIOUS

LEMMA StampsStay ==
  ASSUME TypeOK, BoundsAssumption, row # Null, row' = row, now' \in Nat, now' >= now,
         NEW e \in Nat, NEW f \in Nat, e <= f, StampsNear(e)
  PROVE  /\ row'.updated <= now' + Drift + f - 1
         /\ row'.started <= now' + Drift + f - 1
         /\ row'.lastOk <= now' + Drift + f - 1
  <1>1. /\ now \in Nat /\ Drift \in Nat /\ now <= now'
        /\ row.updated \in Nat /\ row.started \in Nat /\ row.lastOk \in Nat
    BY WorldNumbers, RowNumbers, SizesAssumption DEF SizesAssumption
  <1>2. /\ row.updated <= now + Drift + e - 1 /\ row.started <= now + Drift + e - 1
        /\ row.lastOk <= now + Drift + e - 1
    BY DEF StampsNear, Ahead
  <1>3. /\ row.updated <= now' + Drift + f - 1 /\ row.started <= now' + Drift + f - 1
        /\ row.lastOk <= now' + Drift + f - 1
    BY <1>1, <1>2, LaterClock
  <1>4. QED
    BY <1>3

(* The clock and the epoch only move the stamps of a row further back. *)
LEMMA ClockMoves ==
  ASSUME TypeOK, BoundsAssumption, ClockKept, UNCHANGED <<row, scanFrom>>,
         now' \in Nat, now' >= now, validity' \in Nat, validity' >= validity,
         Len(inbox') \in Nat, Len(inbox') >= Len(inbox),
         \A m \in Mails' : \/ m \in Mails /\ inbox'[m].date = inbox[m].date
                           \/ /\ inbox'[m].date <= now'
                              /\ row # Null => inbox'[m].date >= row.started - Overlap
  PROVE  ClockKept'
  <1> USE DEF ClockKept
  <1>1. now' >= 1 /\ scanFrom' <= Len(inbox') /\ \A m \in Mails' : inbox'[m].date <= now'
    BY WorldNumbers
  <1>2. ASSUME row # Null
        PROVE  /\ row.epoch <= validity' /\ StampsNear(RowClock)'
               /\ row.started = 0 => row.cursor = Null
    <2>1. RowClock \in Nat /\ RowClock' \in Nat /\ RowClock <= RowClock'
      BY <1>2, WorldNumbers, RowNumbers DEF RowClock
    <2>2. StampsNear(RowClock)
      BY <1>2 DEF RowClock
    <2>3. row.epoch <= validity'
      BY <1>2, WorldNumbers, RowNumbers
    <2>4. StampsNear(RowClock)'
      <3>1. PICK e, f \in Nat : e = RowClock /\ f = RowClock'
        BY <2>1
      <3>2. e <= f /\ StampsNear(e)
        BY <2>1, <2>2, <3>1
      <3>3. /\ row'.updated <= now' + Drift + f - 1
            /\ row'.started <= now' + Drift + f - 1
            /\ row'.lastOk <= now' + Drift + f - 1
        BY <1>2, <3>2, StampsStay
      <3> HIDE DEF RowClock
      <3>4. QED
        BY <3>1, <3>3 DEF StampsNear, Ahead
    <2>5. QED
      BY <1>2, <2>3, <2>4
  <1>3. ASSUME row # Null, NEW m \in Mails', m > scanFrom
        PROVE  inbox'[m].date >= row.started - Overlap
    BY <1>3
  <1>4. QED
    BY <1>1, <1>2, <1>3 DEF RowClock

(* Without a page in hand, nothing is promised of it. *)
LEMMA NoPoll == pc' \notin {"fetching", "answered"} => PollKeepsPace' /\ AnswerComplete'
  BY DEF PollKeepsPace, AnswerComplete

(* A poll that has not begun to fetch, or has just ended. *)
LEMMA IdleScan ==
  ASSUME TypeOK, BoundsAssumption, ScanInv, pc' \notin {"fetching", "answered"},
         UNCHANGED <<account, tables, now, inbox, validity, scanFrom>>
  PROVE  ScanInv'
  <1>1. PendingReachable'
    BY PlacesKept DEF tables, ScanInv, PendingReachable, RowCurrent, Pending, Mails, IdAt
  <1>2. ClockKept'
    BY DEF tables, ScanInv, ClockKept, StampsNear, Ahead, Mails
  <1>3. QED
    BY <1>1, <1>2, NoPoll DEF ScanInv

(* An account of a new generation has no row of its own. *)
LEMMA GenerationScan ==
  ASSUME TypeOK, FeedInv, ScanInv, account'.generation = account.generation + 1,
         UNCHANGED <<tables, poller, now, inbox, validity, scanFrom>>
  PROVE  ScanInv'
  <1> USE DEF tables, poller
  <1>1. row # Null => row.generation <= account.generation
    BY DEF FeedInv, PollTracksRow
  <1>2. account.generation \in Nat
    BY DEF TypeOK, Accounts, Generations
  <1>3. ~RowCurrent'
    BY <1>1, <1>2, RowNumbers DEF RowCurrent
  <1>4. PendingReachable' /\ AnswerComplete'
    BY <1>3 DEF PendingReachable, AnswerComplete
  <1>5. ClockKept' /\ PollKeepsPace'
    BY DEF ScanInv, ClockKept, PollKeepsPace, StampsNear, Ahead, Mails, Since
  <1>6. QED
    BY <1>4, <1>5 DEF ScanInv

(* Nor has a deleted account any row. *)
LEMMA DeletedScan ==
  ASSUME ScanInv, DeleteAccount
  PROVE  ScanInv'
  <1>1. row' = Null /\ UNCHANGED <<now, inbox, scanFrom>>
    BY DEF DeleteAccount, world, history
  <1>2. QED
    BY <1>1 DEF ScanInv, PendingReachable, ClockKept, PollKeepsPace, AnswerComplete,
       RowCurrent, Mails

(* A row that starts over with an empty table and all the mail there is.   *)
LEMMA FreshScan ==
  ASSUME TypeOK, BoundsAssumption, SizesAssumption, ScanInv,
         NEW start \in Nat, NEW epoch \in Nat, row' = NewScan(start, epoch),
         start # 0, epoch <= validity,
         start <= now + Drift + (IF epoch # 0 THEN epoch ELSE validity) - 1,
         DOMAIN firstSeen' = {}, scanFrom' = Len(inbox),
         UNCHANGED <<now, inbox, validity>>, pc' # "answered",
         pc' = "fetching" => poll'.since = Since(row')
  PROVE  ScanInv'
  <1>1. /\ row'.lastOk = 0 /\ row'.cursor = Null /\ row'.started = start
        /\ row'.updated = start /\ row'.epoch = epoch
    BY DEF NewScan
  <1>2. PendingReachable'
    BY <1>1 DEF PendingReachable
  <1>3. ClockKept'
    <2>1. now \in Nat /\ now >= 1 /\ Drift \in Nat /\ validity \in Nat /\ validity >= 1
      BY WorldNumbers DEF ScanInv, ClockKept, SizesAssumption
    <2>2. StampsNear(IF epoch # 0 THEN epoch ELSE validity)'
      BY <1>1, <2>1 DEF StampsNear, Ahead
    <2>3. \A m \in Mails' : ~(m > scanFrom')
      BY WorldNumbers DEF Mails
    <2>4. scanFrom' <= Len(inbox') /\ \A m \in Mails' : inbox'[m].date <= now'
      BY WorldNumbers DEF ScanInv, ClockKept, Mails
    <2>5. QED
      BY <1>1, <2>1, <2>2, <2>3, <2>4 DEF ClockKept
  <1>4. PollKeepsPace' /\ AnswerComplete'
    BY <1>1 DEF PollKeepsPace, AnswerComplete, Since
  <1>5. QED
    BY <1>2, <1>3, <1>4 DEF ScanInv

(* The catch block: the scan starts over on page one, inside its window. *)
LEMMA FailedScan ==
  ASSUME TypeOK, BoundsAssumption, SizesAssumption, ScanInv, FailScan,
         UNCHANGED <<account, now, inbox, validity>>
  PROVE  ScanInv'
  <1>1. /\ pc' = "idle" /\ UNCHANGED <<firstSeen, scanFrom>>
        /\ \/ row' = row
           \/ row # Null /\ row' = [row EXCEPT !.cursor = Null, !.updated = now]
    BY DEF FailScan, MarkError, Stop, history
  <1>2. CASE row' = row
    BY <1>1, <1>2, IdleScan DEF FailScan, tables
  <1>3. CASE row # Null /\ row' = [row EXCEPT !.cursor = Null, !.updated = now]
    <2>1. /\ row'.cursor = Null /\ row'.updated = now
          /\ row'.lastOk = row.lastOk /\ row'.started = row.started
          /\ row'.epoch = row.epoch /\ row'.generation = row.generation
      BY <1>3, RowNumbers DEF Rows
    <2>2. PendingReachable'
      <3>1. RowCurrent' => RowCurrent
        BY <1>3, <2>1 DEF RowCurrent
      <3>2. \A m \in Mails : Pending(m)' => Pending(m)
        BY <1>1, <2>1 DEF Pending, IdAt
      <3>3. Mails' = Mails /\ \A m, e : IdAt(m, e)' = IdAt(m, e)
        BY DEF Mails, IdAt
      <3>4. QED
        BY <1>1, <2>1, <3>1, <3>2, <3>3, PlacesKept DEF ScanInv, PendingReachable
    <2>3. ClockKept'
      <3>1. RowClock \in Nat /\ RowClock >= 1 /\ RowClock' = RowClock
        <4>1. row # Null
          BY <1>3
        <4>2. row.epoch \in Nat /\ validity \in Nat /\ 1 <= validity
          BY <4>1, WorldNumbers, RowNumbers
        <4>3. QED
          BY <2>1, <4>2 DEF RowClock
      <3>2. StampsNear(RowClock)
        BY <1>3 DEF ScanInv, ClockKept, RowClock
      <3>3. StampsNear(RowClock)'
        <4>1. row # Null
          BY <1>3
        <4>2. /\ now \in Nat /\ row.started \in Nat /\ row.lastOk \in Nat
              /\ Drift \in Nat
          BY <4>1, WorldNumbers, RowNumbers DEF SizesAssumption
        <4>3. QED
          BY <2>1, <3>1, <3>2, <4>2 DEF StampsNear, Ahead
      <3>4. QED
        BY <1>1, <1>3, <2>1, <3>3 DEF ScanInv, ClockKept, RowClock, Mails
    <2>4. QED
      BY <1>1, <2>2, <2>3, NoPoll DEF ScanInv
  <1>4. QED
    BY <1>1, <1>2, <1>3

-------------------------------------------------------------------------------
(* The mailbox and the clock. *)

(* A mail is removed, the mailbox rebuilt, a tick passes. *)
LEMMA WorldScan ==
  ASSUME TypeOK, BoundsAssumption, FeedInv, ScanInv,
         UNCHANGED <<account, tables, poller, scanFrom>>,
         now' \in Nat, now' >= now, validity' \in Nat, validity' >= validity,
         Len(inbox') = Len(inbox), Mails' = Mails,
         \A m \in Mails : /\ inbox'[m].mailbox = inbox[m].mailbox
                          /\ inbox'[m].received = inbox[m].received
                          /\ inbox'[m].date = inbox[m].date
                          /\ inbox'[m].present => inbox[m].present
  PROVE  ScanInv'
  <1> USE DEF tables, poller
  <1>1. \A m \in Mails : Place(m)' = Place(m) /\ \A e : IdAt(m, e)' = IdAt(m, e)
    BY DEF IdAt, Place
  <1>2. PendingReachable'
    <2>1. RowCurrent' => RowCurrent
      BY DEF RowCurrent
    <2>2. \A m \in Mails : Pending(m)' => Pending(m)
      BY <1>1 DEF Pending
    <2>3. QED
      BY <1>1, <2>1, <2>2 DEF ScanInv, PendingReachable
  <1>3. ClockKept'
    <2>1. Len(inbox) \in Nat /\ Len(inbox) >= Len(inbox)
      BY WorldNumbers
    <2>2. QED
      BY <2>1, ClockMoves DEF ScanInv
  <1>4. PollKeepsPace'
    <2> SUFFICES ASSUME row # Null, pc \in {"fetching", "answered"}
                 PROVE  PollKeepsPace'
      BY DEF PollKeepsPace
    <2>1. row.started # 0 /\ poll.since = Since(row)
      BY DEF ScanInv, PollKeepsPace
    <2>2. ASSUME pc = "answered", answer.epoch # 0
          PROVE  /\ row.epoch <= answer.epoch /\ answer.epoch <= validity'
                 /\ StampsNear(answer.epoch)'
      <3>1. /\ row.epoch <= answer.epoch /\ answer.epoch <= validity
            /\ StampsNear(answer.epoch)
        BY <2>2 DEF ScanInv, PollKeepsPace
      <3>2. answer.epoch \in Nat /\ Drift \in Nat /\ answer' = answer /\ row' = row
        BY <2>2, SizesAssumption DEF TypeOK, PollerOK, Answers, Epochs, SizesAssumption
      <3>3. answer.epoch <= validity'
        BY <3>1, <3>2, WorldNumbers
      <3>4. StampsNear(answer.epoch)'
        <4>1. PICK e \in Nat : e = answer.epoch
          BY <3>2
        <4>2. /\ row'.updated <= now' + Drift + e - 1
              /\ row'.started <= now' + Drift + e - 1
              /\ row'.lastOk <= now' + Drift + e - 1
          BY <3>1, <3>2, <4>1, StampsStay
        <4>3. QED
          BY <3>2, <4>1, <4>2 DEF StampsNear, Ahead
      <3>5. QED
        BY <3>1, <3>3, <3>4
    <2>3. QED
      BY <2>1, <2>2 DEF PollKeepsPace, Since
  <1>5. AnswerComplete'
    <2>1. /\ RowCurrent' => RowCurrent
          /\ EpochDisappeared' <=> EpochDisappeared
          /\ EpochChanged' <=> EpochChanged
      BY DEF RowCurrent, EpochDisappeared, EpochChanged
    <2>2. pc = "answered" => \A id \in answer.items \cup DOMAIN firstSeen : id.mail \in Mails
      BY DEF FeedInv, IdsName, Answered
    <2>3. QED
      BY <1>1, <2>1, <2>2 DEF ScanInv, AnswerComplete
  <1>6. QED
    BY <1>2, <1>3, <1>4, <1>5 DEF ScanInv

(* Mail that arrives is dated so late that the overlap brings it into the  *)
(* window of the next scan, however far the clocks are apart.              *)
LEMMA ArrivalInWindow ==
  ASSUME TypeOK, BoundsAssumption, SizesAssumption, ClocksAssumption, ClockKept,
         row # Null, NEW date \in Int, date >= now - Skew
  PROVE  /\ date >= row.lastOk - Overlap
         /\ date >= row.started - Overlap
  <1>1. RowClock \in Nat /\ RowClock <= MaxValidity
    BY WorldNumbers, RowNumbers DEF RowClock, ClockKept
  <1>2. StampsNear(RowClock)
    BY DEF ClockKept, RowClock
  <1>3. /\ now \in Nat /\ row.started \in Nat /\ row.lastOk \in Nat
        /\ Drift \in Nat /\ Skew \in Nat /\ Overlap \in Nat /\ MaxValidity \in Nat
    BY WorldNumbers, RowNumbers DEF SizesAssumption, BoundsAssumption
  <1> HIDE DEF RowClock
  <1>4. /\ row.started <= now + Drift + RowClock - 1
        /\ row.lastOk <= now + Drift + RowClock - 1
    BY <1>2 DEF StampsNear, Ahead
  <1>5. QED
    BY <1>1, <1>3, <1>4 DEF ClocksAssumption

(* Of two dates, mail of the later one is listed first, and of one date    *)
(* the mail that has arrived later.                                        *)
LEMMA ScaledOrder ==
  ASSUME NEW a \in Int, NEW b \in Int, a <= b, NEW k \in Nat
  PROVE  a * k <= b * k
  <1>1. PICK c \in Nat : b = a + c
    <2>1. b - a \in Nat /\ b = a + (b - a)
      OBVIOUS
    <2>2. QED
      BY <2>1
  <1>2. b * k = a * k + c * k /\ c * k >= 0 /\ a * k \in Int /\ c * k \in Int
    BY <1>1
  <1>3. QED
    BY <1>2

(* Mail that arrives is pending, and listed before everything there is. *)
LEMMA ArriveScan ==
  ASSUME TypeOK, BoundsAssumption, SizesAssumption, ClocksAssumption,
         ListsInOrder, FeedInv, ScanInv, NEW b \in Mailboxes, NEW d \in (now - Skew) .. now,
         NEW received \in BOOLEAN, Arrive(b, d, received)
  PROVE  ScanInv'
  <1> USE DEF tables, poller
  <1> DEFINE letter == [mailbox |-> b, date |-> d, present |-> TRUE,
                        received |-> received]
  <1>0. inbox \in Seq(Letters) /\ now \in Nat /\ Skew \in Nat
    BY DEF TypeOK, WorldOK, Stamps, SizesAssumption
  <1>last. PICK last \in Nat : last = Len(inbox) + 1
    BY <1>0
  <1>1. /\ inbox' = Append(inbox, letter)
        /\ UNCHANGED <<account, tables, poller, now, validity, scanFrom>>
    BY DEF Arrive, history
  <1>2. letter.date = d /\ d \in Int /\ d >= now - Skew /\ d <= now
    BY <1>0
  <1> HIDE DEF letter
  <1>3. /\ Len(inbox') = last /\ Len(inbox) \in Nat
        /\ \A m \in Mails : inbox'[m] = inbox[m]
        /\ inbox'[last] = letter
        /\ Mails = 1 .. Len(inbox) /\ Mails' = 1 .. last
    BY <1>0, <1>last, <1>1 DEF Mails
  <1>4. \A m \in Mails' : m \in Mails \/ m = last
    BY <1>last, <1>3
  <1>5. last \notin Mails /\ \A m \in Mails : m < last
    BY <1>last, <1>3
  <1>6. \A m \in Mails : Place(m)' = Place(m) /\ \A e : IdAt(m, e)' = IdAt(m, e)
    BY <1>3 DEF IdAt, Place
  <1>6a. ASSUME NEW m \in Mails
         PROVE  Place(m) < Place(last)'
    <2>1. m \in Nat /\ m < last /\ inbox[m].date \in Int /\ inbox[m].date <= now
      BY <1>5, WorldNumbers DEF ScanInv, ClockKept
    <2>2. CASE ListsByDate
      <3>1. d = now
        BY <1>0, <1>2, <2>2 DEF ListsInOrder
      <3>2. MaxMail + 1 \in Nat
        BY BoundsAssumption DEF BoundsAssumption
      <3> DEFINE k == MaxMail + 1
      <3> HIDE DEF k
      <3>3. inbox[m].date * k <= d * k
        BY <1>2, <2>1, <3>1, <3>2, ScaledOrder DEF k
      <3>4. inbox[m].date * k \in Int /\ d * k \in Int
        BY <1>2, <2>1, <3>2 DEF k
      <3>5. Place(m) = inbox[m].date * k + m /\ Place(last)' = d * k + last
        BY <1>2, <1>3, <2>2 DEF Place, k
      <3>6. QED
        BY <2>1, <3>3, <3>4, <3>5
    <2>3. CASE ~ListsByDate
      BY <2>1, <2>3 DEF Place
    <2>4. QED
      BY <2>2, <2>3
  <1>6b. \A m \in Mails : Place(m) \in Int
    BY WorldNumbers
  <1>7. \A m, e : IdAt(m, e)'.mail = m
    BY DEF IdAt
  <1>8. \A id \in DOMAIN firstSeen \cup Answered : id.mail \in Mails
    BY DEF FeedInv, IdsName
  <1>9. ASSUME NEW e
        PROVE  IdAt(last, e)' \notin DOMAIN firstSeen
    <2>1. IdAt(last, e)'.mail = last
      BY <1>7
    <2>2. QED
      BY <1>5, <1>8, <2>1
  <1>10. row # Null => d >= row.lastOk - Overlap /\ d >= row.started - Overlap
    BY <1>2, ArrivalInWindow DEF ScanInv
  <1>11. scanFrom < last /\ ~(last <= scanFrom)
    <2>1. scanFrom \in Nat /\ scanFrom <= Len(inbox)
      BY WorldNumbers DEF ScanInv, ClockKept
    <2>2. QED
      BY <1>last, <1>3, <2>1
  <1>12. PendingReachable'
    <2>1. RowCurrent' => RowCurrent
      BY <1>1 DEF RowCurrent
    <2> SUFFICES ASSUME RowCurrent, RowCurrent', NEW m \in Mails', Pending(m)'
                 PROVE  (/\ row.lastOk # 0 => inbox[m].date >= row.lastOk - Overlap
                         /\ row.cursor # Null /\ m <= scanFrom => Place(m) < row.cursor.place
                         /\ \A n \in Mails :
                              /\ inbox[n].mailbox = account.mailbox /\ Place(n) > Place(m)
                              /\ IdAt(n, row.epoch) \in DOMAIN firstSeen
                              => /\ row.started # 0
                                 /\ firstSeen[IdAt(n, row.epoch)] >= row.started
                                 /\ row.cursor # Null => Place(m) < row.cursor.place)'
      BY <2>1 DEF PendingReachable
    <2>2. CASE m \in Mails
      <3>1. Pending(m)
        BY <1>1, <1>3, <1>6, <2>2 DEF Pending
      <3>2. /\ row.lastOk # 0 => inbox[m].date >= row.lastOk - Overlap
            /\ row.cursor # Null /\ m <= scanFrom => Place(m) < row.cursor.place
            /\ \A n \in Mails :
                 /\ inbox[n].mailbox = account.mailbox /\ Place(n) > Place(m)
                 /\ IdAt(n, row.epoch) \in DOMAIN firstSeen
                 => /\ row.started # 0
                    /\ firstSeen[IdAt(n, row.epoch)] >= row.started
                    /\ row.cursor # Null => Place(m) < row.cursor.place
        BY <2>2, <3>1 DEF ScanInv, PendingReachable
      <3>3. /\ UNCHANGED <<account, row, firstSeen, scanFrom>>
            /\ inbox'[m] = inbox[m]
        BY <1>1, <1>3, <2>2
      <3>4. ASSUME NEW n \in Mails', IdAt(n, row.epoch)' \in DOMAIN firstSeen'
            PROVE  /\ n \in Mails /\ inbox'[n] = inbox[n]
                   /\ IdAt(n, row.epoch)' = IdAt(n, row.epoch)
        <4>1. n # last
          BY <1>9, <3>3, <3>4
        <4>2. QED
          BY <1>3, <1>4, <1>6, <3>3, <4>1
      <3>5. QED
        BY <1>6, <2>2, <3>2, <3>3, <3>4
    <2>3. CASE m = last
      <3>1. inbox'[m].date = d /\ row # Null
        BY <1>2, <1>3, <2>3 DEF RowCurrent
      <3>2. ASSUME NEW n \in Mails', Place(n)' > Place(last)',
                   IdAt(n, row.epoch)' \in DOMAIN firstSeen
            PROVE  FALSE
        <4>1. n \in Mails
          BY <1>4, <1>9, <3>2
        <4>2. Place(n)' < Place(last)'
          BY <1>6, <1>6a, <4>1
        <4>3. Place(last)' \in Int /\ Place(n)' \in Int
          <5>1. last \in Int /\ MaxMail \in Int /\ Place(n)' \in Int
            BY <1>6, <1>6b, <4>1, BoundsAssumption DEF BoundsAssumption
          <5>2. Place(last)' = d * (MaxMail + 1) + last \/ Place(last)' = last
            BY <1>2, <1>3 DEF Place
          <5>3. d * (MaxMail + 1) + last \in Int
            BY <1>2, <5>1
          <5>4. QED
            BY <5>1, <5>2, <5>3
        <4>4. QED
          BY <3>2, <4>2, <4>3
      <3>3. QED
        BY <1>1, <1>10, <1>11, <2>3, <3>1, <3>2
    <2>4. QED
      BY <1>4, <2>2, <2>3
  <1>13. ClockKept'
    <2>1. Len(inbox') \in Nat /\ Len(inbox') >= Len(inbox)
      BY <1>last, <1>3
    <2>2. now >= now /\ validity >= validity /\ now \in Nat /\ validity \in Nat
      BY WorldNumbers
    <2>3. \A m \in Mails' : \/ m \in Mails /\ inbox'[m].date = inbox[m].date
                            \/ /\ inbox'[m].date <= now'
                               /\ row # Null => inbox'[m].date >= row.started - Overlap
      BY <1>1, <1>2, <1>3, <1>4, <1>10
    <2>4. QED
      BY <1>1, <2>1, <2>2, <2>3, ClockMoves DEF ScanInv
  <1>14. PollKeepsPace'
    BY <1>1 DEF ScanInv, PollKeepsPace, StampsNear, Ahead, Since
  <1>15. AnswerComplete'
    <2>1. /\ RowCurrent' <=> RowCurrent
          /\ EpochDisappeared' <=> EpochDisappeared
          /\ EpochChanged' <=> EpochChanged
      BY <1>1 DEF RowCurrent, EpochDisappeared, EpochChanged
    <2> SUFFICES ASSUME pc = "answered", RowCurrent, ~EpochDisappeared, ~EpochChanged
                 PROVE  AnswerComplete'
      BY <1>1, <2>1 DEF AnswerComplete
    <2>2. \A id \in answer.items \cup DOMAIN firstSeen :
            id.mail \in Mails /\ Place(id.mail)' < Place(last)'
      BY <1>6, <1>6a, <1>8 DEF Answered
    <2>3. QED
      BY <1>1, <1>3, <1>4, <1>6, <1>11, <2>1, <2>2 DEF ScanInv, AnswerComplete
  <1>16. QED
    BY <1>12, <1>13, <1>14, <1>15 DEF ScanInv

-------------------------------------------------------------------------------
(* The scan. *)

(* The start of a scan is a stamp, and not too far ahead of the clock. *)
LEMMA ScanStart ==
  ASSUME TypeOK, BoundsAssumption, SizesAssumption, ScanInv,
         NEW start, start = NextScanStart
  PROVE  start \in Nat /\ start # 0
  <1>1. start \in Nat
    BY NextStartType DEF Stamps
  <1>2. now \in Nat /\ now >= 1
    BY WorldNumbers DEF ScanInv, ClockKept
  <1>3. CASE row = Null
    BY <1>2, <1>3 DEF NextScanStart
  <1>4. CASE row # Null
    <2>1. row.updated \in Nat /\ row.lastOk \in Nat
      BY <1>4, RowNumbers
    <2>2. Larger(row.updated, row.lastOk) \in Nat
      BY <2>1 DEF Larger
    <2>3. start >= now
      BY <1>2, <1>4, <2>2 DEF NextScanStart, Larger
    <2>4. QED
      BY <1>1, <1>2, <2>3
  <1>5. QED
    BY <1>1, <1>3, <1>4

(* beginInboundScan: a new scan begins with all the mail that is pending,  *)
(* one that was left open goes on where it was.                            *)
LEMMA BegunScan ==
  ASSUME TypeOK, BoundsAssumption, SizesAssumption, NullAssumption,
         FeedInv, ScanInv, BeginScan
  PROVE  ScanInv'
  <1> DEFINE fresh == row = Null \/ row.generation # poll.generation
  <1>0. PICK started : started = IF row # Null /\ row.started # 0
                                   THEN row.started ELSE NextScanStart
    OBVIOUS
  <1>1. /\ row' = IF fresh THEN NewScan(started, 0) ELSE ResumeScan(started)
        /\ firstSeen' = IF fresh THEN NothingSeen ELSE firstSeen
        /\ scanFrom' = IF fresh \/ row.started = 0 THEN Len(inbox) ELSE scanFrom
        /\ pc' = "fetching" /\ pc = "captured" /\ poll'.since = Since(row')
        /\ row # Null /\ row.started = 0 => started <= now + Drift
        /\ UNCHANGED <<account, now, inbox, validity>>
    BY <1>0 DEF BeginScan, world
  <1>2. started \in Nat /\ started # 0
    BY <1>0, RowNumbers, ScanStart
  <1>3. /\ now \in Nat /\ now >= 1 /\ Drift \in Nat /\ validity \in Nat /\ validity >= 1
        /\ Len(inbox) \in Nat
    BY WorldNumbers DEF ScanInv, ClockKept, SizesAssumption
  <1>4. row # Null => RowClock \in Nat /\ 1 <= RowClock /\ RowClock <= validity
    <2>1. row # Null => row.epoch \in Nat /\ row.epoch <= validity
      BY RowNumbers DEF ScanInv, ClockKept
    <2>2. QED
      BY <1>3, <2>1 DEF RowClock
  <1>5. row # Null => started <= now + Drift + RowClock - 1
    <2> SUFFICES ASSUME row # Null PROVE started <= now + Drift + RowClock - 1
      OBVIOUS
    <2>1. CASE row.started = 0
      <3> HIDE DEF RowClock
      <3>1. started <= now + Drift
        BY <1>1, <2>1
      <3>2. QED
        BY <1>2, <1>3, <1>4, <3>1
    <2>2. CASE row.started # 0
      <3>1. started = row.started
        BY <1>0, <2>2
      <3>2. QED
        BY <3>1 DEF ScanInv, ClockKept, RowClock, StampsNear, Ahead
    <2>3. QED
      BY <2>1, <2>2
  <1> HIDE DEF RowClock
  <1>6. CASE fresh
    <2>1. row' = NewScan(started, 0) /\ DOMAIN firstSeen' = {} /\ scanFrom' = Len(inbox)
      BY <1>1, <1>6 DEF NothingSeen
    <2>2. started <= now + Drift + validity - 1
      <3>1. CASE row = Null
        <4>1. started = now
          BY <1>0, <3>1 DEF NextScanStart
        <4>2. QED
          BY <1>3, <4>1
      <3>2. CASE row # Null
        BY <1>2, <1>3, <1>4, <1>5, <3>2
      <3>3. QED
        BY <3>1, <3>2
    <2>3. QED
      BY <1>1, <1>2, <1>3, <2>1, <2>2, FreshScan
  <1>7. CASE ~fresh
    <2>1. /\ row # Null /\ row.generation = poll.generation
          /\ row' = ResumeScan(started) /\ firstSeen' = firstSeen
          /\ scanFrom' = IF row.started = 0 THEN Len(inbox) ELSE scanFrom
      BY <1>1, <1>7
    <2>2. /\ row'.lastOk = row.lastOk /\ row'.cursor = row.cursor
          /\ row'.epoch = row.epoch /\ row'.generation = row.generation
          /\ row'.started = started /\ row'.updated = started
          /\ row.started # 0 => row.started = started
      BY <1>0, <2>1, RowNumbers DEF ResumeScan, Rows
    <2>3. row.started = 0 => row.cursor = Null
      BY <2>1 DEF ScanInv, ClockKept
    <2>4. PendingReachable'
      <3>1. RowCurrent' => RowCurrent
        BY <1>1, <2>1, <2>2 DEF RowCurrent
      <3>2. Mails' = Mails /\ \A m, e : IdAt(m, e)' = IdAt(m, e)
        BY <1>1 DEF Mails, IdAt
      <3>3. \A m \in Mails : Pending(m)' => Pending(m)
        BY <1>1, <2>1, <2>2, <3>2 DEF Pending
      <3>4. CASE row.started = 0
        BY <1>1, <2>1, <2>2, <2>3, <3>1, <3>2, <3>3, <3>4, PlacesKept
        DEF ScanInv, PendingReachable
      <3>5. CASE row.started # 0
        BY <1>1, <2>1, <2>2, <3>1, <3>2, <3>3, <3>5, PlacesKept
        DEF ScanInv, PendingReachable
      <3>6. QED
        BY <3>4, <3>5
    <2>5. ClockKept'
      <3>1. RowClock' = RowClock
        BY <1>1, <2>2 DEF RowClock
      <3>2. row.lastOk <= now + Drift + RowClock - 1
        BY <2>1 DEF ScanInv, ClockKept, RowClock, StampsNear, Ahead
      <3>3. StampsNear(RowClock)'
        BY <1>1, <1>5, <2>1, <2>2, <3>1, <3>2 DEF StampsNear, Ahead
      <3>4. row'.epoch <= validity' /\ row'.started # 0
        BY <1>1, <1>2, <2>1, <2>2 DEF ScanInv, ClockKept
      <3>5. ASSUME NEW m \in Mails', m > scanFrom'
            PROVE  inbox'[m].date >= row'.started - Overlap
        <4>1. CASE row.started = 0
          BY <1>1, <2>1, <3>5, <4>1, WorldNumbers DEF Mails
        <4>2. CASE row.started # 0
          BY <1>1, <2>1, <2>2, <3>5, <4>2 DEF ScanInv, ClockKept, Mails
        <4>3. QED
          BY <4>1, <4>2
      <3>6. /\ now' >= 1 /\ scanFrom' <= Len(inbox')
            /\ \A m \in Mails' : inbox'[m].date <= now'
        BY <1>1, <1>3, <2>1 DEF ScanInv, ClockKept, Mails
      <3>7. QED
        BY <3>3, <3>4, <3>5, <3>6 DEF ClockKept, RowClock
    <2>6. PollKeepsPace' /\ AnswerComplete'
      BY <1>1, <1>2, <2>2 DEF PollKeepsPace, AnswerComplete
    <2>7. QED
      BY <2>4, <2>5, <2>6 DEF ScanInv
  <1>8. QED
    BY <1>6, <1>7

(* rebaselineInboundIdentity: the scan of a rebuilt mailbox begins at most *)
(* one tick later than any stamp of the epoch before.                      *)
LEMMA RebaselinedScan ==
  ASSUME TypeOK, BoundsAssumption, SizesAssumption, FeedInv, ScanInv, Rebaseline
  PROVE  ScanInv'
  <1>0. PICK start : start = NextScanStart
    OBVIOUS
  <1>1. /\ pc = "answered" /\ pc' = "idle" /\ row # Null /\ row.epoch = poll.epoch
        /\ row' = NewScan(start, answer.epoch)
        /\ DOMAIN firstSeen' = {} /\ scanFrom' = Len(inbox)
        /\ UNCHANGED <<now, inbox, validity>>
    BY <1>0 DEF Rebaseline, HandlingPage, ScanUnchanged, NothingSeen, Stop, world
  <1>2. start \in Nat /\ start # 0
    BY <1>0, ScanStart
  <1>3. /\ answer.epoch \in Nat /\ answer.epoch # 0 /\ row.epoch # 0
        /\ answer.epoch # row.epoch /\ row.epoch <= answer.epoch
        /\ answer.epoch <= validity
    BY <1>1 DEF Rebaseline, EpochChanged, ScanInv, PollKeepsPace, TypeOK, PollerOK,
       Answers, Epochs
  <1>4. /\ row.updated <= now + Drift + row.epoch - 1
        /\ row.lastOk <= now + Drift + row.epoch - 1
    BY <1>1, <1>3 DEF ScanInv, ClockKept, StampsNear, Ahead
  <1>5. /\ row.epoch \in Nat /\ row.updated \in Nat /\ row.lastOk \in Nat
        /\ now \in Nat /\ Drift \in Nat
    BY <1>1, RowNumbers, WorldNumbers DEF SizesAssumption
  <1>6. start <= now + Drift + answer.epoch - 1
    <2>1. start = Larger(now, Larger(row.updated, row.lastOk) + 1)
      BY <1>0, <1>1 DEF NextScanStart
    <2>2. QED
      BY <1>3, <1>4, <1>5, <2>1 DEF Larger
  <1>7. QED
    BY <1>1, <1>2, <1>3, <1>6, FreshScan

(* Under one epoch, mail that the answer's ids leave unseen is pending.    *)
LEMMA PendingUnder ==
  ASSUME TypeOK, FeedInv, row # Null, NEW e,
         HasEpochs <=> e # 0, row.epoch = 0 \/ row.epoch = e, NEW m
  PROVE  IdAt(m, e) \notin DOMAIN firstSeen => IdAt(m, row.epoch) \notin DOMAIN firstSeen
  <1>1. CASE row.epoch = e
    BY <1>1
  <1>2. CASE row.epoch = 0 /\ e # 0
    <2>1. \A id \in DOMAIN firstSeen : id.epoch = 0 /\ id.epoch # 0
      BY <1>2 DEF FeedInv, EpochsAgree, IdsName
    <2>2. QED
      BY <2>1
  <1>3. QED
    BY <1>1, <1>2

(* What an answer shows, and what it leaves to the next page. *)
LEMMA FetchedScan ==
  ASSUME TypeOK, PollerAimed, FeedInv, ScanInv, SizesAssumption,
         BoundsAssumption, NullAssumption, DaysAgree, FetchPage \/ FetchGarbled
  PROVE  ScanInv'
  <1>0. PICK page : page = Page(poll.mailbox, poll.since, poll.cursor)
    OBVIOUS
  <1>1. /\ pc = "fetching" /\ pc' = "answered"
        /\ UNCHANGED <<account, row, firstSeen, poll, now, inbox, validity, scanFrom>>
    BY DEF FetchPage, FetchGarbled, tables, world, history
  <1>2. poll \in Scans /\ poll.mailbox \in Mailboxes
    BY <1>1 DEF TypeOK, PollerOK, Scans
  <1>3. page \in Answers
    BY <1>0, <1>2, PageType
  <1>4. /\ answer'.items = page.items
        /\ \/ answer'.next = page.next /\ answer'.epoch = page.epoch
           \/ answer'.next \in poll.cursors /\ answer'.epoch = page.epoch
           \/ poll.epoch # 0 /\ answer'.epoch = 0
    <2>1. \/ answer' = page
          \/ \E c \in poll.cursors : answer' = [page EXCEPT !.next = c]
          \/ poll.epoch # 0 /\ answer' = [page EXCEPT !.epoch = 0]
      BY <1>0 DEF FetchPage, FetchGarbled
    <2>2. QED
      BY <1>3, <2>1 DEF Answers
  <1>5. /\ page.epoch = Epoch
        /\ \A id \in page.items : id.mail \in Mails /\ id = IdAt(id.mail, Epoch)
    BY <1>0, <1>2, PageFeed
  <1>6. (HasEpochs <=> Epoch # 0) /\ (Epoch = 0 \/ Epoch = validity)
    BY EpochFacts DEF Epoch
  <1>7. Mails' = Mails /\ \A m, e : IdAt(m, e)' = IdAt(m, e)
    BY <1>1 DEF Mails, IdAt
  <1>8. PendingReachable' /\ ClockKept'
    BY <1>1, <1>7, PlacesKept DEF ScanInv, PendingReachable, RowCurrent, Pending, ClockKept,
       StampsNear, Ahead
  <1>9. PollKeepsPace'
    <2> SUFFICES ASSUME row # Null
                 PROVE  PollKeepsPace'
      BY <1>1 DEF PollKeepsPace
    <2>1. row.started # 0 /\ poll.since = Since(row)
      BY <1>1 DEF ScanInv, PollKeepsPace
    <2>2. ASSUME answer'.epoch # 0
          PROVE  /\ row.epoch <= answer'.epoch /\ answer'.epoch <= validity
                 /\ StampsNear(answer.epoch)'
      <3>1. answer'.epoch = validity
        BY <1>4, <1>5, <1>6, <2>2
      <3>2. row.epoch <= validity /\ StampsNear(RowClock)
        BY DEF ScanInv, ClockKept, RowClock
      <3>3. /\ row.epoch \in Nat /\ validity \in Nat /\ now \in Nat /\ Drift \in Nat
            /\ row.updated \in Nat /\ row.started \in Nat /\ row.lastOk \in Nat
        BY RowNumbers, WorldNumbers DEF SizesAssumption
      <3>4. RowClock \in Nat /\ RowClock <= validity
        BY <3>2, <3>3 DEF RowClock
      <3> HIDE DEF RowClock
      <3>5. StampsNear(validity)
        BY <3>2, <3>3, <3>4 DEF StampsNear, Ahead
      <3>6. StampsNear(answer.epoch)'
        BY <1>1, <3>1, <3>5 DEF StampsNear, Ahead
      <3>7. QED
        BY <3>1, <3>2, <3>3, <3>6
    <2>3. QED
      BY <1>1, <2>1, <2>2 DEF PollKeepsPace, Since
  <1>10. AnswerComplete'
    <2> SUFFICES ASSUME RowCurrent', ~EpochDisappeared', ~EpochChanged'
                 PROVE  AnswerComplete'
      BY DEF AnswerComplete
    <2>1. /\ row # Null /\ row.generation = account.generation
          /\ row.cursor = poll.cursor /\ row.epoch = poll.epoch
          /\ poll.mailbox = account.mailbox
      BY <1>1 DEF RowCurrent, FeedInv, PollTracksRow, PollerAimed
    <2>2. /\ answer'.epoch = Epoch
          /\ (IF answer'.epoch # 0 THEN answer'.epoch ELSE poll.epoch) = Epoch
          /\ poll.epoch = 0 \/ poll.epoch = Epoch
      BY <1>1, <1>4, <1>5 DEF EpochDisappeared, EpochChanged
    <2>3. ASSUME NEW id \in page.items
          PROVE  id.epoch = Epoch /\ (poll.cursor # Null => Place(id.mail) < poll.cursor.place)
      BY <1>0, <1>2, <1>5, PageBeforeCursor DEF IdAt
    <2>4. ASSUME NEW m \in Mails,
                 inbox[m].mailbox = account.mailbox, inbox[m].present, inbox[m].received,
                 IdAt(m, Epoch) \notin DOMAIN firstSeen,
                 poll.cursor = Null \/ Place(m) < poll.cursor.place
          PROVE  \/ IdAt(m, Epoch) \in page.items
                 \/ /\ \A id \in page.items : Place(m) < Place(id.mail)
                    /\ page.next # Null /\ Place(m) < page.next.place
      <3>1. Pending(m) /\ RowCurrent
        BY <1>1, <1>6, <2>1, <2>2, <2>4, PendingUnder DEF Pending, RowCurrent
      <3>2. row.lastOk # 0 => inbox[m].date >= row.lastOk - Overlap
        BY <3>1 DEF ScanInv, PendingReachable
      <3>3. poll.since = Since(row)
        BY <1>1, <2>1 DEF ScanInv, PollKeepsPace
      <3>4. InWindow(inbox[m].date, poll.since)
        BY <2>1, <3>2, <3>3, RowNumbers, WorldNumbers, WindowReaches
      <3>5. QED
        BY <1>0, <1>2, <2>1, <2>4, <3>4, PageReach
    <2>5. answer'.next = page.next \/ answer'.next \in poll.cursors
      BY <1>4, <2>2
    <2>6. QED
      BY <1>1, <1>4, <1>7, <2>2, <2>3, <2>4, <2>5, PlacesKept DEF AnswerComplete
  <1>11. QED
    BY <1>8, <1>9, <1>10 DEF ScanInv

(* What a page that is committed has left unseen: mail from behind the     *)
(* cursor has just arrived, or is left to a later page; and a page that    *)
(* ends the scan leaves none of what had arrived when the scan began.      *)
LEMMA PageLeaves ==
  ASSUME TypeOK, PollerAimed, FeedInv, ScanInv, NullAssumption, RecordPage,
         NEW m \in Mails,
         inbox[m].mailbox = account.mailbox, inbox[m].present, inbox[m].received,
         IdAt(m, answer.epoch) \notin DOMAIN firstSeen \cup answer.items
  PROVE  /\ Pending(m) /\ RowCurrent
         /\ row.cursor = Null \/ Place(m) < row.cursor.place =>
              \/ /\ m > scanFrom
                 /\ \A id \in answer.items \cup DOMAIN firstSeen : Place(id.mail) < Place(m)
              \/ /\ ~Complete
                 /\ \A id \in answer.items : Place(m) < Place(id.mail)
                 /\ Place(m) < answer.next.place
         /\ row.cursor # Null /\ m <= scanFrom => Place(m) < row.cursor.place
         /\ \A id \in answer.items : row.cursor # Null => Place(id.mail) < row.cursor.place
  <1>1. /\ pc = "answered" /\ row # Null
        /\ account.generation = poll.generation /\ row.generation = poll.generation
        /\ row.started = poll.started /\ row.cursor = poll.cursor
        /\ row.epoch = poll.epoch /\ poll.mailbox = account.mailbox
        /\ ~EpochDisappeared /\ ~EpochChanged /\ ~RepeatedCursor
    BY DEF RecordPage, HandlingPage, MayCommit, AccountUnchanged, ScanUnchanged,
       PollerAimed
  <1>2. RowCurrent
    BY <1>1 DEF RowCurrent
  <1>3. /\ HasEpochs <=> answer.epoch # 0
        /\ (IF answer.epoch # 0 THEN answer.epoch ELSE poll.epoch) = answer.epoch
        /\ \A id \in answer.items \cup DOMAIN firstSeen : id.epoch = answer.epoch
    BY PageEpochs
  <1>4. row.epoch = 0 \/ row.epoch = answer.epoch
    BY <1>1, <1>3 DEF EpochDisappeared, EpochChanged
  <1>5. Pending(m)
    BY <1>1, <1>3, <1>4, PendingUnder DEF Pending
  <1>6. /\ row.cursor # Null /\ m <= scanFrom => Place(m) < row.cursor.place
        /\ \A n \in Mails :
             /\ inbox[n].mailbox = account.mailbox /\ Place(n) > Place(m)
             /\ IdAt(n, row.epoch) \in DOMAIN firstSeen
             => firstSeen[IdAt(n, row.epoch)] >= row.started
    BY <1>2, <1>5 DEF ScanInv, PendingReachable
  <1>7. \A id \in answer.items : poll.cursor # Null => Place(id.mail) < poll.cursor.place
    BY <1>1, <1>2 DEF ScanInv, AnswerComplete
  <1>8. ASSUME poll.cursor = Null \/ Place(m) < poll.cursor.place
        PROVE  \/ /\ m > scanFrom
                  /\ \A id \in answer.items \cup DOMAIN firstSeen : Place(id.mail) < Place(m)
               \/ /\ \A id \in answer.items : Place(m) < Place(id.mail)
                  /\ answer.next \notin poll.cursors =>
                       answer.next # Null /\ Place(m) < answer.next.place
    BY <1>1, <1>2, <1>3, <1>8 DEF ScanInv, AnswerComplete
  <1>9. ASSUME \A id \in answer.items : Place(m) < Place(id.mail),
               answer.next \notin poll.cursors => answer.next # Null /\ Place(m) < answer.next.place
        PROVE  ~Complete /\ Place(m) < answer.next.place
    <2>1. Null \notin poll.cursors
      BY <1>1, NullAssumption DEF NullAssumption, TypeOK, PollerOK, Scans
    <2>2. answer.next # Null
      BY <1>9, <2>1
    <2>3. ~ReachedSeenBoundary
      <3> SUFFICES ASSUME NEW id \in answer.items, SeenBefore(id, poll.started)
                   PROVE  FALSE
        BY DEF ReachedSeenBoundary
      <3>1. id \in DOMAIN firstSeen /\ firstSeen[id] < row.started
        BY <1>1 DEF SeenBefore
      <3>2. id.epoch = row.epoch /\ id.mail \in Mails /\ id = IdAt(id.mail, row.epoch)
        BY <1>1, <3>1 DEF FeedInv, EpochsAgree, IdsName
      <3>3. inbox[id.mail].mailbox = account.mailbox
        BY <1>1, <3>2 DEF PollerAimed, IdAt
      <3>4. Place(id.mail) > Place(m)
        BY <1>9, <3>2, WorldNumbers, BoundsAssumption
      <3>5. firstSeen[id] >= row.started
        BY <1>6, <3>1, <3>2, <3>3, <3>4
      <3>6. firstSeen[id] \in Nat /\ row.started \in Nat
        BY <1>1, <3>1, RowNumbers DEF TypeOK, TablesOK, Stamps
      <3>7. QED
        BY <3>1, <3>5, <3>6
    <2>4. ~Complete
      BY <2>2, <2>3 DEF Complete
    <2>5. QED
      BY <1>1, <1>9, <2>4 DEF RepeatedCursor
  <1>10. QED
    BY <1>1, <1>2, <1>5, <1>6, <1>7, <1>8, <1>9

(* recordInboundPage: the columns it writes. *)
LEMMA PageRow ==
  ASSUME TypeOK, FeedInv, RecordPage
  PROVE  /\ row # Null /\ row'.generation = row.generation
         /\ row'.epoch = answer.epoch /\ row'.updated = Larger(now, row.started)
         /\ Complete => /\ row'.lastOk = row.started /\ row'.cursor = Null
                        /\ row'.started = 0 /\ pc' = "idle"
         /\ ~Complete => /\ row'.lastOk = row.lastOk /\ row'.cursor = answer.next
                         /\ row'.started = row.started
                         /\ answer.next # Null
         /\ pc' \in {"idle", "fetching"}
         /\ pc' = "fetching" => poll'.since = poll.since
  <1> DEFINE epoch == IF answer.epoch # 0 THEN answer.epoch ELSE poll.epoch
  <1>1. /\ row # Null /\ row \in Rows /\ row.started = poll.started
        /\ epoch = answer.epoch /\ poll \in Scans
    BY PageEpochs DEF RecordPage, HandlingPage, MayCommit, ScanUnchanged, TypeOK,
       PollerOK
  <1>2. CASE Complete
    <2>1. /\ row' = [row EXCEPT !.initialized = TRUE, !.lastOk = poll.started,
                       !.cursor = Null, !.started = 0, !.epoch = epoch,
                       !.updated = Larger(now, poll.started)]
          /\ pc' = "idle"
      BY <1>2 DEF RecordPage, ScannedUntil, Stop
    <2> HIDE DEF epoch
    <2>2. QED
      BY <1>1, <1>2, <2>1 DEF Rows
  <1>3. CASE ~Complete
    <2>1. /\ row' = [row EXCEPT !.cursor = answer.next, !.epoch = epoch,
                       !.updated = Larger(now, poll.started)]
          /\ \/ pc' = "idle"
             \/ /\ pc' = "fetching"
                /\ poll' = [poll EXCEPT !.epoch = epoch,
                     !.cursor = answer.next, !.pages = @ + 1,
                     !.cursors = @ \cup {answer.next}]
      BY <1>3 DEF RecordPage, Stop
    <2> HIDE DEF epoch
    <2>2. answer.next # Null
      BY <1>3 DEF Complete
    <2>3. pc' = "fetching" => poll'.since = poll.since
      BY <1>1, <2>1 DEF Scans
    <2>4. QED
      BY <1>1, <1>3, <2>1, <2>2, <2>3 DEF Rows
  <1>4. QED
    BY <1>2, <1>3

(* A page that is committed leaves what it has missed within reach. *)
LEMMA RecordedScan ==
  ASSUME TypeOK, PollerAimed, FeedInv, ScanInv, SizesAssumption, BoundsAssumption,
         NullAssumption, RecordPage
  PROVE  ScanInv'
  <1> DEFINE at == Larger(now, poll.started)
  <1>1. /\ pc = "answered" /\ row.started = poll.started
        /\ account.generation = poll.generation /\ row.generation = poll.generation
        /\ row.epoch = poll.epoch /\ poll.mailbox = account.mailbox
        /\ DOMAIN firstSeen' = DOMAIN firstSeen \cup answer.items
        /\ \A id \in DOMAIN firstSeen' :
             firstSeen'[id] = IF id \in DOMAIN firstSeen THEN firstSeen[id] ELSE at
        /\ UNCHANGED <<account, now, inbox, validity, scanFrom>>
    BY DEF RecordPage, HandlingPage, MayCommit, AccountUnchanged, ScanUnchanged,
       PollerAimed, See, world, history
  <1>2. /\ row # Null /\ row'.generation = row.generation
        /\ row'.epoch = answer.epoch /\ row'.updated = at
        /\ Complete => /\ row'.lastOk = row.started /\ row'.cursor = Null
                       /\ row'.started = 0 /\ pc' = "idle"
        /\ ~Complete => /\ row'.lastOk = row.lastOk /\ row'.cursor = answer.next
                        /\ row'.started = row.started
                        /\ answer.next # Null
        /\ pc' \in {"idle", "fetching"}
        /\ pc' = "fetching" => poll'.since = poll.since
    BY <1>1, PageRow
  <1>3. Mails' = Mails /\ \A m, e : IdAt(m, e)' = IdAt(m, e)
    BY <1>1 DEF Mails, IdAt
  <1>4. /\ now \in Nat /\ row.started \in Nat /\ row.lastOk \in Nat /\ at \in Nat
        /\ row.updated \in Nat /\ at >= row.started /\ (at = now \/ at = row.started)
        /\ Drift \in Nat /\ Overlap \in Nat /\ row.epoch \in Nat
        /\ validity \in Nat /\ validity >= 1
        /\ answer.epoch \in Nat /\ now >= 1
    BY <1>1, <1>2, RowNumbers, WorldNumbers
    DEF SizesAssumption, Larger, TypeOK, PollerOK, Answers, Epochs, ScanInv, ClockKept
  <1>5. row.started # 0 /\ poll.since = Since(row)
    BY <1>1, <1>2 DEF ScanInv, PollKeepsPace
  <1>6. /\ HasEpochs <=> answer.epoch # 0
        /\ \A id \in answer.items \cup DOMAIN firstSeen : id.epoch = answer.epoch
    BY PageEpochs
  <1> HIDE DEF at
  <1>7. PendingReachable'
    <2> SUFFICES ASSUME NEW m \in Mails, Pending(m)'
                 PROVE  (/\ row.lastOk # 0 => inbox[m].date >= row.lastOk - Overlap
                         /\ row.cursor # Null /\ m <= scanFrom => Place(m) < row.cursor.place
                         /\ \A n \in Mails :
                              /\ inbox[n].mailbox = account.mailbox /\ Place(n) > Place(m)
                              /\ IdAt(n, row.epoch) \in DOMAIN firstSeen
                              => /\ row.started # 0
                                 /\ firstSeen[IdAt(n, row.epoch)] >= row.started
                                 /\ row.cursor # Null => Place(m) < row.cursor.place)'
      BY <1>3 DEF PendingReachable
    <2>1. /\ inbox[m].mailbox = account.mailbox /\ inbox[m].present /\ inbox[m].received
          /\ IdAt(m, answer.epoch) \notin DOMAIN firstSeen \cup answer.items
      BY <1>1, <1>2, <1>3 DEF Pending
    <2>2. /\ Pending(m) /\ RowCurrent
          /\ row.cursor = Null \/ Place(m) < row.cursor.place =>
               \/ /\ m > scanFrom
                  /\ \A id \in answer.items \cup DOMAIN firstSeen : Place(id.mail) < Place(m)
               \/ /\ ~Complete
                  /\ \A id \in answer.items : Place(m) < Place(id.mail)
                  /\ Place(m) < answer.next.place
          /\ row.cursor # Null /\ m <= scanFrom => Place(m) < row.cursor.place
          /\ \A id \in answer.items : row.cursor # Null => Place(id.mail) < row.cursor.place
      BY <2>1, PageLeaves
    <2>3. /\ row.lastOk # 0 => inbox[m].date >= row.lastOk - Overlap
          /\ \A n \in Mails :
               /\ inbox[n].mailbox = account.mailbox /\ Place(n) > Place(m)
               /\ IdAt(n, row.epoch) \in DOMAIN firstSeen
               => /\ firstSeen[IdAt(n, row.epoch)] >= row.started
                  /\ row.cursor # Null => Place(m) < row.cursor.place
          /\ m > scanFrom => inbox[m].date >= row.started - Overlap
      BY <1>2, <2>2 DEF ScanInv, PendingReachable, ClockKept
    <2>4. /\ m \in Nat /\ scanFrom \in Nat /\ Place(m) \in Int
          /\ row.cursor # Null => row.cursor.place \in Int
          /\ \A id \in answer.items \cup DOMAIN firstSeen :
               id.mail \in Mails /\ Place(id.mail) \in Int
          /\ answer.next # Null => answer.next.place \in Int
      <3>1. \A id \in answer.items \cup DOMAIN firstSeen : id.mail \in Mails
        BY <1>1 DEF FeedInv, IdsName, Answered
      <3>2. answer.next # Null => answer.next \in Marks
        BY <1>1 DEF TypeOK, PollerOK, Answers, Cursors
      <3>3. answer.next # Null => answer.next.place \in Int
        BY <3>2 DEF Marks
      <3>4. row.cursor # Null => row.cursor.place \in Int
        BY <1>2, RowNumbers
      <3>5. QED
        BY <3>1, <3>3, <3>4, WorldNumbers
    <2>5. ASSUME NEW n \in Mails, inbox[n].mailbox = account.mailbox, Place(n) > Place(m),
                 IdAt(n, answer.epoch) \in DOMAIN firstSeen'
          PROVE  /\ firstSeen'[IdAt(n, answer.epoch)] >= row.started
                 /\ row.cursor = Null \/ Place(m) < row.cursor.place
                 /\ \E id \in answer.items \cup DOMAIN firstSeen : id.mail = n
      <3>1. IdAt(n, answer.epoch).mail = n /\ n \in Nat
        BY WorldNumbers DEF IdAt
      <3>2. CASE IdAt(n, answer.epoch) \in DOMAIN firstSeen
        <4>1. IdAt(n, answer.epoch).epoch = row.epoch
          BY <1>2, <3>2 DEF FeedInv, EpochsAgree
        <4>2. answer.epoch = row.epoch
          BY <4>1 DEF IdAt
        <4>3. QED
          BY <1>1, <2>3, <2>5, <3>1, <3>2, <4>2
      <3>3. CASE IdAt(n, answer.epoch) \notin DOMAIN firstSeen
        <4>1. IdAt(n, answer.epoch) \in answer.items
          BY <1>1, <2>5, <3>3
        <4>2. row.cursor # Null => Place(n) < row.cursor.place
          BY <2>2, <3>1, <4>1
        <4>3. firstSeen'[IdAt(n, answer.epoch)] = at
          BY <1>1, <2>5, <3>3
        <4>4. Place(n) \in Int
          BY WorldNumbers
        <4>5. QED
          BY <1>4, <2>4, <2>5, <3>1, <4>1, <4>2, <4>3, <4>4
      <3>4. QED
        BY <3>2, <3>3
    <2>6. (row.lastOk # 0 => inbox[m].date >= row.lastOk - Overlap)'
      <3>1. CASE Complete
        <4>1. m > scanFrom
          BY <2>2, <2>4, <3>1
        <4>2. QED
          BY <1>1, <1>2, <2>3, <3>1, <4>1
      <3>2. CASE ~Complete
        BY <1>1, <1>2, <2>3, <3>2
      <3>3. QED
        BY <3>1, <3>2
    <2>7. (row.cursor # Null /\ m <= scanFrom => Place(m) < row.cursor.place)'
      <3> SUFFICES ASSUME ~Complete, m <= scanFrom
                   PROVE  Place(m) < answer.next.place
        BY <1>1, <1>2, PlacesKept
      <3>1. QED
        BY <2>2, <2>4
    <2>8. ASSUME NEW n \in Mails, inbox[n].mailbox = account.mailbox, Place(n) > Place(m),
                 IdAt(n, answer.epoch) \in DOMAIN firstSeen'
          PROVE  ~Complete /\ Place(m) < answer.next.place
      <3>1. \E id \in answer.items \cup DOMAIN firstSeen : ~(Place(id.mail) < Place(m))
        BY <2>4, <2>5, <2>8
      <3>2. QED
        BY <2>2, <2>5, <2>8, <3>1
    <2>9. QED
      BY <1>1, <1>2, <1>3, <1>5, <2>5, <2>6, <2>7, <2>8, PlacesKept
  <1>8. ClockKept'
    <2> DEFINE clock == IF answer.epoch # 0 THEN answer.epoch ELSE validity
    <2>1. answer.epoch <= validity /\ clock \in Nat /\ clock >= 1 /\ StampsNear(clock)
      <3>1. CASE answer.epoch # 0
        BY <1>1, <1>2, <1>4, <3>1 DEF ScanInv, PollKeepsPace
      <3>2. CASE answer.epoch = 0
        <4>1. row.epoch = 0
          BY <1>1, <3>2 DEF RecordPage, EpochDisappeared
        <4>2. StampsNear(validity)
          BY <1>2, <4>1 DEF ScanInv, ClockKept
        <4>3. QED
          BY <1>4, <3>2, <4>2
      <3>3. QED
        BY <3>1, <3>2
    <2>2. PICK c \in Nat : c = clock
      BY <2>1
    <2>3. c = IF row'.epoch # 0 THEN row'.epoch ELSE validity'
      BY <1>1, <1>2, <2>2
    <2>4. /\ c >= 1 /\ row.started <= now + Drift + c - 1
          /\ row.lastOk <= now + Drift + c - 1
      BY <2>1, <2>2 DEF StampsNear, Ahead
    <2> HIDE DEF clock
    <2>5. StampsNear(c)'
      <3>1. /\ row'.started = 0 \/ row'.started = row.started
            /\ row'.lastOk = row.started \/ row'.lastOk = row.lastOk
        BY <1>2
      <3>2. QED
        BY <1>1, <1>2, <1>4, <2>4, <3>1 DEF StampsNear, Ahead
    <2>6. row'.started = 0 => row'.cursor = Null
      BY <1>2, <1>5
    <2>7. ASSUME NEW m \in Mails, m > scanFrom
          PROVE  inbox[m].date >= row'.started - Overlap
      <3>1. inbox[m].date >= row.started - Overlap /\ inbox[m].date \in Int
        BY <1>2, <2>7, WorldNumbers DEF ScanInv, ClockKept
      <3>2. row'.started = 0 \/ row'.started = row.started
        BY <1>2
      <3>3. QED
        BY <1>4, <3>1, <3>2
    <2>8. scanFrom <= Len(inbox) /\ \A m \in Mails : inbox[m].date <= now
      BY DEF ScanInv, ClockKept
    <2>9. QED
      BY <1>1, <1>2, <1>3, <1>4, <2>1, <2>3, <2>5, <2>6, <2>7, <2>8 DEF ClockKept
  <1>9. PollKeepsPace' /\ AnswerComplete'
    <2>1. pc' = "fetching" => row'.started # 0 /\ poll'.since = Since(row')
      BY <1>2, <1>5 DEF Since
    <2>2. QED
      BY <1>2, <2>1 DEF PollKeepsPace, AnswerComplete
  <1>10. QED
    BY <1>7, <1>8, <1>9 DEF ScanInv

-------------------------------------------------------------------------------
(* The theorems. *)

(* Every step of the poller keeps what is pending within reach. *)
LEMMA PollScan ==
  ASSUME TypeOK, PollerAimed, FeedInv, ScanInv, DaysAgree, Poll
  PROVE  ScanInv'
  <1> USE SizesAssumption, BoundsAssumption, NullAssumption
  <1>1. CASE ListAccounts \/ CaptureAccount \/ SnapshotTaken \/ BeginScanForNobody
             \/ ScanStateChanged
    BY <1>1, IdleScan DEF ListAccounts, CaptureAccount, SnapshotTaken,
       BeginScanForNobody, ScanStateChanged, Stop, tables, world, history
  <1>2. CASE BeginScan
    BY <1>2, BegunScan
  <1>3. CASE FetchPage
    BY <1>3, FetchedScan
  <1>4. CASE CursorRefused \/ PageIsFaulty
    BY <1>4, FailedScan DEF CursorRefused, PageIsFaulty, world
  <1>5. CASE Rebaseline
    BY <1>5, RebaselinedScan
  <1>6. CASE RecordPage
    BY <1>6, RecordedScan
  <1>7. QED
    BY <1>1, <1>2, <1>3, <1>4, <1>5, <1>6 DEF Poll

(* The mailbox changes, and the clock, or nothing does. *)
LEMMA StillScan ==
  ASSUME TypeOK, ListsInOrder, FeedInv, ScanInv, Mail \/ Tick \/ UNCHANGED vars
  PROVE  ScanInv'
  <1> USE SizesAssumption, BoundsAssumption, ClocksAssumption
  <1>0. now \in Nat /\ validity \in Nat /\ \A n \in Mails : inbox[n] \in Letters
    BY WorldNumbers
  <1>1. ASSUME NEW m \in Mails, Remove(m)
        PROVE  ScanInv'
    <2>1. /\ inbox' = [inbox EXCEPT ![m].present = FALSE]
          /\ UNCHANGED <<account, tables, poller, now, validity, scanFrom>>
      BY <1>1 DEF Remove, history
    <2>2. inbox \in Seq(Letters)
      BY DEF TypeOK, WorldOK
    <2>3. DOMAIN inbox' = DOMAIN inbox /\ Len(inbox') = Len(inbox)
      BY <2>1, <2>2
    <2>4. \A n \in Mails : /\ inbox'[n].mailbox = inbox[n].mailbox
                           /\ inbox'[n].received = inbox[n].received
                           /\ inbox'[n].date = inbox[n].date
                           /\ inbox'[n].present => inbox[n].present
      BY <1>0, <2>1, <2>2 DEF Mails, Letters
    <2>5. Mails' = Mails
      BY <2>3 DEF Mails
    <2>6. now' >= now /\ validity' >= validity /\ now' \in Nat /\ validity' \in Nat
      BY <1>0, <2>1
    <2>7. QED
      BY <2>1, <2>3, <2>4, <2>5, <2>6, WorldScan
  <1>2. CASE Rebuild \/ Tick \/ UNCHANGED vars
    <2>1. /\ UNCHANGED <<account, tables, poller, inbox, scanFrom>>
          /\ now' = now \/ now' = now + 1
          /\ validity' = validity \/ validity' = validity + 1
      BY <1>2 DEF Rebuild, Tick, vars, history, tables, poller
    <2>2. Mails' = Mails /\ now' >= now /\ validity' >= validity
          /\ now' \in Nat /\ validity' \in Nat
      BY <1>0, <2>1 DEF Mails
    <2>3. QED
      BY <2>1, <2>2, WorldScan
  <1>3. QED
    BY <1>1, <1>2, ArriveScan DEF Mail

(* The rest of the steps. *)
LEMMA ScanPreserved ==
  ASSUME TypeOK, PollerAimed, FeedInv, ScanInv, DaysAgree, ListsInOrder, [Next]_vars
  PROVE  ScanInv'
  <1> USE SizesAssumption, BoundsAssumption, NullAssumption
  <1>1. CASE Poll
    BY <1>1, PollScan
  <1>2. CASE FetchFails
    BY <1>2, FailedScan DEF FetchFails
  <1>3. CASE FetchGarbled
    BY <1>3, FetchedScan
  <1>4. CASE Crash
    BY <1>4, IdleScan DEF Crash, Stop, tables, history
  <1>5. CASE Admin
    <2>1. CASE SetEnabled \/ \E b \in Mailboxes : Reconfigure(b)
      <3>1. account'.generation = account.generation + 1
        BY <2>1 DEF SetEnabled, Reconfigure, NextGeneration, TypeOK, Accounts
      <3>2. QED
        BY <2>1, <3>1, GenerationScan DEF SetEnabled, Reconfigure, world, history
    <2>2. CASE DeleteAccount
      BY <2>2, DeletedScan
    <2>3. QED
      BY <1>5, <2>1, <2>2 DEF Admin
  <1>6. CASE Mail \/ Tick \/ UNCHANGED vars
    BY <1>6, StillScan
  <1>7. QED
    BY <1>1, <1>2, <1>3, <1>4, <1>5, <1>6 DEF Next

(* The inductive invariant of the scan. *)
THEOREM ScanInvariant ==
  ASSUME DaysAgree, ListsInOrder PROVE Spec => []ScanInv
  <1>1. Init => ScanInv
    BY BoundsAssumption
    DEF Init, ScanInv, PendingReachable, RowCurrent, ClockKept, PollKeepsPace,
        AnswerComplete, Mails
  <1>2. TypeOK /\ PollerAimed /\ FeedInv /\ ScanInv /\ [Next]_vars => ScanInv'
    BY ScanPreserved
  <1>3. QED
    BY <1>1, <1>2, InboundTypeCorrect, PollerAimedHolds, FeedInvariant, PTL DEF Spec

(* Unseen mail is pending. *)
LEMMA UnseenPending ==
  ASSUME Current
  PROVE  RowCurrent /\ \A m \in Unseen : m \in Mails /\ Pending(m)
  BY DEF Current, RowCurrent, Unseen, Pending, Id, IdAt

(* No mail that has not been seen is outside the window of the next scan. *)
THEOREM NoMailOutsideWindowHolds ==
  ASSUME DaysAgree, ListsInOrder PROVE Spec => []NoMailOutsideWindow
  <1>1. TypeOK /\ ScanInv => NoMailOutsideWindow
    <2> SUFFICES ASSUME TypeOK, ScanInv, Current, NEW m \in Unseen
                 PROVE  InWindow(inbox[m].date, Since(row))
      BY DEF NoMailOutsideWindow
    <2>1. RowCurrent /\ Pending(m) /\ m \in Mails
      BY UnseenPending
    <2>2. row # Null
      BY DEF Current
    <2>3. row.lastOk # 0 => inbox[m].date >= row.lastOk - Overlap
      BY <2>1 DEF ScanInv, PendingReachable
    <2>4. QED
      BY <2>1, <2>2, <2>3, RowNumbers, WorldNumbers, WindowReaches,
         SizesAssumption, BoundsAssumption
  <1>2. QED
    BY <1>1, ScanInvariant, InboundTypeCorrect, PTL

(* Nor is it behind a boundary that would stop the scan, or the cursor. *)
THEOREM NothingBehindBoundaryHolds ==
  ASSUME DaysAgree, ListsInOrder PROVE Spec => []NothingBehindBoundary
  <1>1. ScanInv => NothingBehindBoundary
    <2> SUFFICES ASSUME ScanInv, Current, NEW m \in Unseen, NEW n \in Mails,
                        inbox[n].mailbox = account.mailbox, Place(n) > Place(m),
                        Id(n) \in DOMAIN firstSeen
                 PROVE  /\ row.started # 0
                        /\ firstSeen[Id(n)] >= row.started
                        /\ row.cursor # Null => Place(m) < row.cursor.place
      BY DEF NothingBehindBoundary
    <2>1. RowCurrent /\ Pending(m) /\ m \in Mails
      BY UnseenPending
    <2>2. Id(n) = IdAt(n, row.epoch)
      BY DEF Id, IdAt, Current
    <2>3. QED
      BY <2>1, <2>2 DEF ScanInv, PendingReachable
  <1>2. QED
    BY <1>1, ScanInvariant, PTL

(* A scan that completes has seen all mail that had arrived when it began. *)
THEOREM ScanCatchesUpHolds ==
  ASSUME DaysAgree, ListsInOrder PROVE Spec => ScanCatchesUp
  <1>1. TypeOK /\ PollerAimed /\ FeedInv /\ ScanInv /\ [Next]_vars =>
          [(ScanOpen /\ row' # Null /\ row'.started = 0 /\ Current')
             => \A m \in Unseen' : m > scanFrom]_vars
    <2> SUFFICES ASSUME TypeOK, PollerAimed, FeedInv, ScanInv, Next,
                        ScanOpen, row' # Null, row'.started = 0, Current',
                        NEW m \in Unseen'
                 PROVE  m > scanFrom
      OBVIOUS
    <2>1. RecordPage
      <3>1. row \in Rows /\ row # Null /\ row.started # 0
        BY RowNumbers DEF ScanOpen
      <3>2. ~BeginScan /\ ~Rebaseline
        <4>1. NextScanStart \in Nat /\ NextScanStart # 0
          BY ScanStart, SizesAssumption, BoundsAssumption
        <4>2. BeginScan => row'.started # 0
          BY <3>1 DEF BeginScan, NewScan, ResumeScan, Rows
        <4>3. Rebaseline => row'.started # 0
          BY <4>1 DEF Rebaseline, NewScan
        <4>4. QED
          BY <4>2, <4>3
      <3>3. ~FailScan
        BY <3>1 DEF FailScan, MarkError, Rows
      <3>4. ~DeleteAccount
        BY DEF DeleteAccount
      <3>5. \/ RecordPage
            \/ UNCHANGED row
        BY <3>2, <3>3, <3>4
        DEF Next, Poll, Admin, Mail, ListAccounts, CaptureAccount, SnapshotTaken,
            BeginScanForNobody, FetchPage, CursorRefused, PageIsFaulty,
            ScanStateChanged, FetchFails, FetchGarbled, Crash, SetEnabled,
            Reconfigure, Arrive, Remove, Rebuild, Tick, tables
      <3>6. QED
        BY <3>1, <3>5
    <2>2. Complete
      BY <2>1, PageRow DEF ScanOpen
    <2>3. /\ row'.epoch = answer.epoch
          /\ DOMAIN firstSeen' = DOMAIN firstSeen \cup answer.items
          /\ UNCHANGED <<account, inbox, validity, scanFrom>>
      BY <2>1, PageRow DEF RecordPage, See, world, history
    <2>4. /\ m \in Mails /\ inbox[m].mailbox = account.mailbox
          /\ inbox[m].present /\ inbox[m].received
          /\ IdAt(m, answer.epoch) \notin DOMAIN firstSeen \cup answer.items
      BY <2>3 DEF Current, Unseen, Mails, Id, IdAt, Epoch
    <2>5. /\ row.cursor = Null \/ Place(m) < row.cursor.place => m > scanFrom \/ ~Complete
          /\ row.cursor # Null /\ m <= scanFrom => Place(m) < row.cursor.place
      BY <2>1, <2>4, PageLeaves, NullAssumption
    <2>6. m \in Nat /\ scanFrom \in Nat
      BY <2>4, WorldNumbers, BoundsAssumption
    <2>7. QED
      BY <2>2, <2>5, <2>6
  <1>2. QED
    BY <1>1, InboundTypeCorrect, PollerAimedHolds, FeedInvariant, ScanInvariant, PTL
    DEF Spec, ScanCatchesUp
-------------------------------------------------------------------------------
(* The way of a scan through the mailbox. *)

(* The cursor of a page is that of a mail further down the listing. *)
LEMMA PageDescends ==
  ASSUME TypeOK, SizesAssumption, BoundsAssumption,
         NEW b \in Mailboxes, NEW since, NEW cursor, cursor # Null,
         Page(b, since, cursor).next # Null
  PROVE  Page(b, since, cursor).next.place < cursor.place
  <1> DEFINE S == {m \in Listed(b, since) : cursor = Null \/ Place(m) < cursor.place}
  <1>1. Page(b, since, cursor).next =
          IF Cardinality(S) > PageSize
            THEN [mailbox |-> b, epoch |-> Epoch, place |-> Place(Oldest(Newest(S)))]
            ELSE Null
    BY DEF Page
  <1>2. S \in SUBSET Mails
    BY DEF Listed
  <1>3. S # {}
    <2>1. S = {} => ~(Cardinality(S) > PageSize)
      BY FS_EmptySet DEF SizesAssumption
    <2>2. QED
      BY <1>1, <2>1
  <1>4. Oldest(Newest(S)) \in S
    BY <1>2, <1>3, NewestMails, SizesAssumption, BoundsAssumption
  <1>5. \A m \in S : Place(m) < cursor.place
    OBVIOUS
  <1> HIDE DEF S
  <1>6. QED
    BY <1>1, <1>4, <1>5

(* Nor does a faulty answer lead back, unless it repeats a cursor.         *)
LEMMA AnswersDescend ==
  ASSUME TypeOK, AnswerDescends, [Next]_vars
  PROVE  AnswerDescends'
  <1>1. CASE pc' # "answered"
    BY <1>1 DEF AnswerDescends
  <1>2. CASE FetchPage
    <2>1. poll \in Scans
      BY <1>2 DEF FetchPage, TypeOK, PollerOK
    <2>2. poll' = poll /\ answer' = Page(poll.mailbox, poll.since, poll.cursor)
      BY <1>2 DEF FetchPage
    <2>3. QED
      BY <2>1, <2>2, PageDescends, SizesAssumption, BoundsAssumption
      DEF AnswerDescends, Scans
  <1>3. CASE FetchGarbled
    <2>1. poll \in Scans /\ poll' = poll
      BY <1>3 DEF FetchGarbled, TypeOK, PollerOK
    <2> DEFINE page == Page(poll.mailbox, poll.since, poll.cursor)
    <2>2. page \in Answers
      BY <2>1, PageType, SizesAssumption, BoundsAssumption DEF Scans
    <2>3. \/ \E c \in poll.cursors : answer' = [page EXCEPT !.next = c]
          \/ answer' = [page EXCEPT !.epoch = 0]
      BY <1>3 DEF FetchGarbled
    <2>4. answer'.next \in poll.cursors \/ answer'.next = page.next
      <3> HIDE DEF page
      <3>1. QED
        BY <2>2, <2>3 DEF Answers
    <2>5. QED
      BY <2>1, <2>4, PageDescends, SizesAssumption, BoundsAssumption
      DEF AnswerDescends, Scans
  <1>4. CASE UNCHANGED poller
    BY <1>4 DEF AnswerDescends, poller
  <1>5. pc' # "answered" \/ FetchPage \/ FetchGarbled \/ UNCHANGED poller
    BY DEF Next, vars, poller, Poll, ListAccounts, CaptureAccount, SnapshotTaken,
       BeginScan, BeginScanForNobody, CursorRefused, PageIsFaulty, FailScan,
       Rebaseline, ScanStateChanged, RecordPage, FetchFails, Crash, Stop, Admin,
       SetEnabled, Reconfigure, DeleteAccount, Mail, Arrive, Remove, Rebuild, Tick
  <1>6. QED
    BY <1>1, <1>2, <1>3, <1>4, <1>5

(* paginateImapUids and runPoll: a page that leaves a scan open moves its  *)
(* cursor down the listing, and nothing but a page moves it on.            *)
THEOREM PagesDescendHolds == Spec => PagesDescend
  <1>1. Init => AnswerDescends
    BY DEF Init, AnswerDescends
  <1>2. TypeOK /\ AnswerDescends /\ [Next]_vars => AnswerDescends'
    BY AnswersDescend
  <1>3. TypeOK /\ AnswerDescends /\ [Next]_vars =>
          [row # Null /\ row' # Null /\ row.cursor # Null /\ row'.cursor # Null =>
             IF RecordPage THEN row'.cursor.place < row.cursor.place
                           ELSE row'.cursor = row.cursor]_vars
    <2> SUFFICES ASSUME TypeOK, AnswerDescends, Next,
                        row # Null, row' # Null, row.cursor # Null, row'.cursor # Null
                 PROVE  IF RecordPage THEN row'.cursor.place < row.cursor.place
                                      ELSE row'.cursor = row.cursor
      OBVIOUS
    <2>1. row \in Rows
      BY RowNumbers
    <2>2. CASE RecordPage
      <3>1. row.cursor = poll.cursor /\ pc = "answered" /\ ~RepeatedCursor
        BY <2>2 DEF RecordPage, MayCommit, ScanUnchanged, HandlingPage
      <3>2. ~Complete /\ row'.cursor = answer.next
        BY <2>1, <2>2 DEF RecordPage, Rows
      <3>3. answer.next # Null /\ answer.next \notin poll.cursors
        BY <3>1, <3>2 DEF Complete, RepeatedCursor
      <3>4. QED
        BY <2>2, <3>1, <3>2, <3>3 DEF AnswerDescends
    <2>3. CASE ~RecordPage
      <3>1. ~Rebaseline /\ ~DeleteAccount /\ (FailScan => row' = row)
        <4>1. ~Rebaseline /\ ~DeleteAccount
          BY DEF Rebaseline, DeleteAccount, NewScan
        <4>2. [row EXCEPT !.cursor = Null, !.updated = now].cursor = Null
          BY <2>1 DEF Rows
        <4>3. FailScan => row' = row
          BY <4>2 DEF FailScan, MarkError
        <4>4. QED
          BY <4>1, <4>3
      <3>2. BeginScan => row'.cursor = row.cursor
        BY <2>1 DEF BeginScan, NewScan, ResumeScan, Rows
      <3>3. BeginScan \/ UNCHANGED row
        BY <2>3, <3>1
        DEF Next, Poll, Admin, Mail, ListAccounts, CaptureAccount, SnapshotTaken,
            BeginScanForNobody, FetchPage, CursorRefused, PageIsFaulty,
            ScanStateChanged, FetchFails, FetchGarbled, Crash, SetEnabled,
            Reconfigure, Arrive, Remove, Rebuild, Tick, tables
      <3>4. QED
        BY <2>3, <3>2, <3>3
    <2>4. QED
      BY <2>2, <2>3
  <1>4. QED
    BY <1>1, <1>2, <1>3, InboundTypeCorrect, PTL DEF Spec, PagesDescend
-------------------------------------------------------------------------------
(* The feed as its readers see it. *)

(* A letter keeps its mailbox and whether it was received, and mail that   *)
(* is gone does not come back.                                             *)
LEMMA MailKeeps ==
  ASSUME TypeOK, [Next]_vars
  PROVE  /\ Len(inbox) <= Len(inbox') /\ Mails \subseteq Mails'
         /\ \A m \in Mails : /\ inbox'[m].mailbox = inbox[m].mailbox
                             /\ inbox'[m].received = inbox[m].received
                             /\ inbox'[m].present => inbox[m].present
  <1>1. /\ inbox \in Seq(Letters) /\ Len(inbox) \in Nat /\ Mails = 1 .. Len(inbox)
        /\ \A m \in Mails : inbox[m] \in Letters
    BY DEF TypeOK, WorldOK, Mails
  <1>2. ASSUME NEW letter, inbox' = Append(inbox, letter)
        PROVE  Len(inbox') = Len(inbox) + 1 /\ \A m \in Mails : inbox'[m] = inbox[m]
    BY <1>1, <1>2
  <1>3. CASE \E b \in Mailboxes, d \in (now - Skew) .. now, received \in BOOLEAN :
               Arrive(b, d, received)
    <2>1. PICK letter : inbox' = Append(inbox, letter)
      BY <1>3 DEF Arrive
    <2>2. Len(inbox') = Len(inbox) + 1 /\ \A m \in Mails : inbox'[m] = inbox[m]
      BY <1>2, <2>1
    <2>3. Mails' = 1 .. (Len(inbox) + 1)
      BY <1>1, <2>1 DEF Mails
    <2>4. QED
      BY <1>1, <2>2, <2>3
  <1>4. ASSUME NEW n \in Mails, Remove(n)
        PROVE  /\ Len(inbox') = Len(inbox) /\ Mails' = Mails
               /\ \A m \in Mails : /\ inbox'[m].mailbox = inbox[m].mailbox
                                   /\ inbox'[m].received = inbox[m].received
                                   /\ inbox'[m].present => inbox[m].present
    <2>1. inbox' = [inbox EXCEPT ![n].present = FALSE]
      BY <1>4 DEF Remove
    <2>2. DOMAIN inbox' = DOMAIN inbox /\ Len(inbox') = Len(inbox)
      BY <1>1, <2>1
    <2>3. QED
      BY <1>1, <2>1, <2>2 DEF Mails, Letters
  <1>5. \/ inbox' = inbox
        \/ \E b \in Mailboxes, d \in (now - Skew) .. now, received \in BOOLEAN :
             Arrive(b, d, received)
        \/ \E n \in Mails : Remove(n)
    BY DEF Next, vars, Poll, ListAccounts, CaptureAccount, SnapshotTaken, BeginScan,
       BeginScanForNobody, FetchPage, CursorRefused, PageIsFaulty, Rebaseline,
       ScanStateChanged, RecordPage, FetchFails, FetchGarbled, Crash, Admin,
       SetEnabled, Reconfigure, DeleteAccount, Mail, Rebuild, Tick, world
  <1>6. QED
    BY <1>1, <1>3, <1>4, <1>5 DEF Mails

(* Only beginInboundScan, a page, a baseline, an error and a deletion      *)
(* write the tables.                                                       *)
LEMMA OthersKeepTables ==
  ASSUME [Next]_vars, ~BeginScan, ~RecordPage, ~Rebaseline, ~FailScan, ~DeleteAccount
  PROVE  UNCHANGED <<row, firstSeen, events, baseline, settled, scanFrom>>
  BY DEF Next, vars, Poll, ListAccounts, CaptureAccount, SnapshotTaken,
     BeginScanForNobody, FetchPage, CursorRefused, PageIsFaulty, ScanStateChanged,
     FetchFails, FetchGarbled, Crash, Admin, SetEnabled, Reconfigure, Mail, Arrive,
     Remove, Rebuild, Tick, tables, history

(* An error leaves open what was open. *)
LEMMA FailKeeps ==
  ASSUME TypeOK, NullAssumption, FailScan
  PROVE  /\ UNCHANGED <<firstSeen, events, baseline, settled, scanFrom>>
         /\ row' = Null <=> row = Null
         /\ row # Null => /\ row'.generation = row.generation
                          /\ row'.initialized = row.initialized
                          /\ row'.started = row.started
  <1>1. row # Null => row \in Rows
    BY RowNumbers
  <1>2. UNCHANGED <<firstSeen, events, baseline, settled, scanFrom>>
    BY DEF FailScan, history
  <1>3. \/ row' = row
        \/ row # Null /\ row' = [row EXCEPT !.cursor = Null, !.updated = now]
    BY DEF FailScan, MarkError
  <1>4. CASE row' = row
    BY <1>2, <1>4
  <1>5. CASE row # Null /\ row' = [row EXCEPT !.cursor = Null, !.updated = now]
    <2>1. row' \in Rows
      BY <1>1, <1>5 DEF Rows, Cursors, TypeOK, WorldOK
    <2>2. row' # Null
      BY <2>1, NullAssumption DEF NullAssumption
    <2>3. QED
      BY <1>1, <1>2, <1>5, <2>2 DEF Rows
  <1>6. QED
    BY <1>3, <1>4, <1>5

(* beginInboundScan: a fresh row is without a baseline, an old one keeps   *)
(* its own, and the scan that is open its beginning.                       *)
LEMMA BeginKeeps ==
  ASSUME TypeOK, ScanInv, SizesAssumption, BoundsAssumption, NullAssumption, BeginScan
  PROVE  /\ pc = "captured" /\ account.state # "deleted"
         /\ UNCHANGED <<account, inbox, events, settled>>
         /\ row' # Null /\ row'.generation = poll.generation /\ row'.started # 0
         /\ poll'.generation = poll.generation /\ pc' = "fetching"
         /\ row = Null \/ row.generation # poll.generation =>
              ~row'.initialized /\ baseline' = Len(inbox)
         /\ row # Null /\ row.generation = poll.generation =>
              /\ row'.initialized = row.initialized
              /\ UNCHANGED <<firstSeen, baseline>>
              /\ scanFrom' = IF row.started = 0 THEN Len(inbox) ELSE scanFrom
  <1> DEFINE fresh == row = Null \/ row.generation # poll.generation
  <1>0. PICK started : started = IF row # Null /\ row.started # 0
                                   THEN row.started ELSE NextScanStart
    OBVIOUS
  <1>1. /\ row' = IF fresh THEN NewScan(started, 0) ELSE ResumeScan(started)
        /\ firstSeen' = IF fresh THEN NothingSeen ELSE firstSeen
        /\ baseline' = IF fresh THEN Len(inbox) ELSE baseline
        /\ scanFrom' = IF fresh \/ row.started = 0 THEN Len(inbox) ELSE scanFrom
        /\ pc = "captured" /\ pc' = "fetching" /\ account.state # "deleted"
        /\ poll'.generation = poll.generation
        /\ UNCHANGED <<account, inbox, events, settled>>
    BY <1>0 DEF BeginScan, world
  <1>2. started \in Nat /\ started # 0
    BY <1>0, ScanStart, RowNumbers
  <1>3. poll.generation \in Generations
    BY <1>1 DEF TypeOK, PollerOK, Accounts
  <1>4. row' # Null
    <2>1. 0 \in Epochs
      BY DEF Epochs, BoundsAssumption
    <2>2. row' \in Rows
      BY <1>1, <1>2, <1>3, <2>1, ScanRowTypes DEF Stamps, TypeOK, TablesOK
    <2>3. QED
      BY <2>2 DEF NullAssumption
  <1>5. CASE fresh
    BY <1>1, <1>2, <1>4, <1>5 DEF NewScan
  <1>6. CASE ~fresh
    <2>1. row \in Rows /\ row' = ResumeScan(started)
      BY <1>1, <1>6, RowNumbers
    <2>2. /\ row'.initialized = row.initialized /\ row'.generation = row.generation
          /\ row'.started = IF row.started = 0 THEN started ELSE row.started
      BY <2>1 DEF ResumeScan, Rows
    <2>3. QED
      BY <1>1, <1>2, <1>4, <1>6, <2>2
  <1>7. QED
    BY <1>5, <1>6

(* recordInboundPage: what the page does for the feed. *)
LEMMA PageKeeps ==
  ASSUME TypeOK, PollerAimed, FeedInv, NullAssumption, RecordPage
  PROVE  /\ RowCurrent /\ account.state = "enabled" /\ pc = "answered"
         /\ row.started = poll.started /\ row.initialized = poll.initialized
         /\ account.generation = poll.generation
         /\ UNCHANGED <<account, inbox, baseline, scanFrom>>
         /\ DOMAIN firstSeen' = DOMAIN firstSeen \cup answer.items
         /\ events' = IF poll.initialized
                        THEN events \cup (answer.items \ DOMAIN firstSeen) ELSE events
         /\ settled' = IF Complete /\ ~poll.initialized THEN Len(inbox) ELSE settled
         /\ row' # Null /\ row'.initialized = (poll.initialized \/ Complete)
  <1>1. /\ pc = "answered" /\ row # Null /\ account.state = "enabled"
        /\ account.generation = poll.generation /\ row.generation = poll.generation
        /\ row.started = poll.started
    BY DEF RecordPage, HandlingPage, MayCommit, AccountUnchanged, ScanUnchanged
  <1>2. row.initialized = poll.initialized
    BY <1>1 DEF FeedInv, PollTracksRow
  <1>3. /\ UNCHANGED <<account, inbox, baseline, scanFrom>>
        /\ events' = IF poll.initialized
                       THEN events \cup (answer.items \ DOMAIN firstSeen) ELSE events
        /\ settled' = IF Complete /\ ~poll.initialized THEN Len(inbox) ELSE settled
        /\ DOMAIN firstSeen' = DOMAIN firstSeen \cup answer.items
    BY DEF RecordPage, See, world
  <1>4. row \in Rows
    BY <1>1, RowNumbers
  <1>5. row' # Null /\ row'.initialized = (poll.initialized \/ Complete)
    <2> DEFINE epoch == IF answer.epoch # 0 THEN answer.epoch ELSE poll.epoch
               at == Larger(now, poll.started)
    <2>1. \/ /\ Complete
             /\ row' = [row EXCEPT !.initialized = TRUE, !.lastOk = ScannedUntil,
                          !.cursor = Null, !.started = 0, !.epoch = epoch,
                          !.updated = at]
          \/ /\ ~Complete
             /\ row' = [row EXCEPT !.cursor = answer.next, !.epoch = epoch,
                                   !.updated = at]
      BY DEF RecordPage
    <2>2. poll.initialized \in BOOLEAN
      BY <1>2, <1>4 DEF Rows
    <2>3. /\ epoch \in Epochs /\ at \in Stamps /\ ScannedUntil \in Stamps
          /\ answer.next \in Cursors
      BY <1>1 DEF TypeOK, PollerOK, WorldOK, Scans, Answers, Larger, Stamps, ScannedUntil
    <2> HIDE DEF epoch, at
    <2>4. row' \in Rows
      <3>1. CASE Complete
        <4>1. row' = [row EXCEPT !.initialized = TRUE, !.lastOk = ScannedUntil,
                        !.cursor = Null, !.started = 0, !.epoch = epoch,
                        !.updated = at]
          BY <2>1, <3>1
        <4>2. QED
          BY <1>4, <2>3, <4>1 DEF Rows, Cursors, Stamps
      <3>2. CASE ~Complete
        BY <1>4, <2>1, <2>3, <3>2 DEF Rows
      <3>3. QED
        BY <3>1, <3>2
    <2>5. QED
      BY <1>2, <1>4, <2>1, <2>2, <2>4, NullAssumption DEF Rows, NullAssumption
  <1>6. QED
    BY <1>1, <1>2, <1>3, <1>5 DEF RowCurrent

(* What has been seen since the baseline was complete is announced by the  *)
(* page that sees it.                                                      *)
LEMMA SeenStaysAnnounced ==
  ASSUME TypeOK, PollerAimed, FeedInv, ScanInv, SeenAnnounced, [Next]_vars
  PROVE  SeenAnnounced'
  <1> USE SizesAssumption, BoundsAssumption, NullAssumption
  <1>1. CASE BeginScan
    BY <1>1, BeginKeeps DEF SeenAnnounced
  <1>2. CASE Rebaseline
    BY <1>2 DEF Rebaseline, NewScan, SeenAnnounced
  <1>3. CASE FailScan
    BY <1>3, FailKeeps DEF SeenAnnounced
  <1>4. CASE DeleteAccount
    BY <1>4 DEF DeleteAccount, SeenAnnounced
  <1>5. CASE RecordPage
    <2> SUFFICES ASSUME row'.initialized, NEW id \in DOMAIN firstSeen',
                        id.mail > settled'
                 PROVE  id \in events'
      BY DEF SeenAnnounced
    <2>1. id \in DOMAIN firstSeen \cup answer.items
      BY <1>5, PageKeeps
    <2>2. CASE poll.initialized
      BY <1>5, <2>1, <2>2, PageKeeps DEF SeenAnnounced, RowCurrent
    <2>3. CASE ~poll.initialized
      <3>1. id.mail \in Mails
        BY <1>5, <2>1, PageKeeps DEF FeedInv, IdsName, Answered
      <3>2. id.mail <= Len(inbox) /\ id.mail \in Nat /\ Len(inbox) \in Nat
        BY <3>1, WorldNumbers
      <3>3. settled' = Len(inbox)
        BY <1>5, <2>3, PageKeeps
      <3>4. QED
        BY <3>2, <3>3
    <2>4. QED
      BY <2>2, <2>3
  <1>6. CASE UNCHANGED <<row, firstSeen, events, settled>>
    BY <1>6 DEF SeenAnnounced
  <1>7. QED
    BY <1>1, <1>2, <1>3, <1>4, <1>5, <1>6, OthersKeepTables

(* A page shows received mail only, and mail stays what it was. *)
LEMMA AnswerStaysReceived ==
  ASSUME TypeOK, FeedInv, AnswerReceived, [Next]_vars
  PROVE  AnswerReceived'
  <1> USE SizesAssumption, BoundsAssumption, NullAssumption
  <1>1. CASE FetchPage \/ FetchGarbled
    <2>0. PICK page : page = Page(poll.mailbox, poll.since, poll.cursor)
      OBVIOUS
    <2>1. pc = "fetching" /\ UNCHANGED <<poll, inbox>>
      BY <1>1 DEF FetchPage, FetchGarbled, world
    <2>2. poll.mailbox \in Mailboxes
      BY <2>1 DEF TypeOK, PollerOK, Scans
    <2>3. \A id \in page.items : inbox[id.mail].received
      BY <2>0, <2>2, PageFeed
    <2>4. answer'.items = page.items
      <3>1. page \in Answers
        BY <2>0, <2>2, PageType
      <3>2. \/ answer' = page
            \/ \E c \in poll.cursors : answer' = [page EXCEPT !.next = c]
            \/ answer' = [page EXCEPT !.epoch = 0]
        BY <1>1, <2>0 DEF FetchPage, FetchGarbled
      <3>3. QED
        BY <3>1, <3>2 DEF Answers
    <2>5. QED
      BY <2>1, <2>3, <2>4 DEF AnswerReceived, Answered
  <1>2. CASE ~FetchPage /\ ~FetchGarbled
    <2>1. Answered' \subseteq Answered
      BY <1>2 DEF Next, vars, Poll, ListAccounts, CaptureAccount, SnapshotTaken,
         BeginScan, BeginScanForNobody, CursorRefused, PageIsFaulty, FailScan,
         Rebaseline, ScanStateChanged, RecordPage, FetchFails, Crash, Stop, Admin,
         SetEnabled, Reconfigure, DeleteAccount, Mail, Arrive, Remove, Rebuild, Tick,
         poller, Answered
    <2>2. \A id \in Answered : id.mail \in Mails
      BY DEF FeedInv, IdsName
    <2>3. \A m \in Mails : inbox'[m].received = inbox[m].received
      BY MailKeeps
    <2>4. QED
      BY <2>1, <2>2, <2>3 DEF AnswerReceived
  <1>3. QED
    BY <1>1, <1>2

(* The row belongs to the poll, or to one before it. *)
LEMMA PollStaysAhead ==
  ASSUME TypeOK, PollerAimed, FeedInv, ScanInv, PollAhead, [Next]_vars
  PROVE  PollAhead'
  <1> USE SizesAssumption, BoundsAssumption, NullAssumption
  <1>0. row # Null => row.generation <= account.generation
    BY DEF FeedInv, PollTracksRow
  <1>1. CASE BeginScan
    <2>1. row'.generation = poll.generation /\ poll'.generation = poll.generation
          /\ pc = "captured"
      BY <1>1, BeginKeeps
    <2>2. poll.generation \in Nat
      BY <2>1 DEF TypeOK, PollerOK, Accounts, Generations
    <2>3. QED
      BY <2>1, <2>2 DEF PollAhead
  <1>2. CASE RecordPage
    <2>1. /\ pc' = "idle" \/ (pc' = "fetching" /\ poll'.generation = poll.generation)
          /\ row'.generation = row.generation /\ row.generation = poll.generation
      <3>1. row'.generation = row.generation
        BY <1>2, PageRow
      <3>2. row.generation = poll.generation /\ poll \in Scans
        BY <1>2 DEF RecordPage, MayCommit, ScanUnchanged, HandlingPage, TypeOK, PollerOK
      <3>3. \/ pc' = "idle"
            \/ /\ pc' = "fetching"
               /\ \E e, c, S : poll' = [poll EXCEPT !.epoch = e, !.cursor = c,
                                          !.pages = @ + 1, !.cursors = S]
        BY <1>2 DEF RecordPage, Stop
      <3>4. QED
        BY <3>1, <3>2, <3>3 DEF Scans
    <2>2. poll.generation \in Nat
      BY <1>2 DEF RecordPage, HandlingPage, TypeOK, PollerOK, Scans, Generations
    <2>3. QED
      BY <2>1, <2>2 DEF PollAhead
  <1>3. CASE CaptureAccount
    <2>1. row' = row /\ (pc' = "idle" \/ poll' = account)
      BY <1>3 DEF CaptureAccount, Stop, tables
    <2>2. QED
      BY <1>0, <2>1 DEF PollAhead
  <1>4. CASE DeleteAccount
    BY <1>4 DEF DeleteAccount, PollAhead
  <1>5. CASE Rebaseline \/ FailScan
    BY <1>5 DEF Rebaseline, FailScan, Stop, PollAhead
  <1>6. CASE ~BeginScan /\ ~RecordPage /\ ~CaptureAccount /\ ~DeleteAccount
             /\ ~Rebaseline /\ ~FailScan
    <2>1. row' = row
      BY <1>6, OthersKeepTables
    <2>2. \/ pc' \in {"idle", "listed"}
          \/ poll' = poll /\ pc \notin {"idle", "listed"}
          \/ UNCHANGED <<pc, poll>>
      BY <1>6 DEF Next, vars, Poll, ListAccounts, SnapshotTaken,
         BeginScanForNobody, FetchPage, CursorRefused, PageIsFaulty,
         ScanStateChanged, FetchFails, FetchGarbled, Crash, Stop, Admin,
         SetEnabled, Reconfigure, Mail, Arrive, Remove, Rebuild, Tick, poller
    <2>3. QED
      BY <2>1, <2>2 DEF PollAhead
  <1>7. QED
    BY <1>1, <1>2, <1>3, <1>4, <1>5, <1>6

(* The inductive invariant of the announcements. *)
THEOREM AnnounceInvariant ==
  ASSUME DaysAgree, ListsInOrder PROVE Spec => []AnnounceInv
  <1>1. Init => AnnounceInv
    BY DEF Init, AnnounceInv, SeenAnnounced, AnswerReceived, PollAhead, Answered
  <1>2. TypeOK /\ PollerAimed /\ FeedInv /\ ScanInv /\ AnnounceInv /\ [Next]_vars
          => AnnounceInv'
    BY SeenStaysAnnounced, AnswerStaysReceived, PollStaysAhead DEF AnnounceInv
  <1>3. QED
    BY <1>1, <1>2, InboundTypeCorrect, PollerAimedHolds, FeedInvariant, ScanInvariant,
       PTL DEF Spec
-------------------------------------------------------------------------------
(* Every step is one of the feed's, or moves nothing a reader can notice.  *)

(* The four phases, before a step and after it. *)
LEMMA PhaseIs ==
  /\ FeedPhase = IF ~RowCurrent THEN "none" ELSE IF ~row.initialized THEN "baseline"
                 ELSE IF row.started = 0 THEN "idle" ELSE "scanning"
  /\ FeedPhase' = IF ~RowCurrent' THEN "none" ELSE IF ~row'.initialized THEN "baseline"
                  ELSE IF row'.started = 0 THEN "idle" ELSE "scanning"
  BY DEF FeedPhase

FeedStep == [Feed!FeedNext]_(Feed!feedVars)

LEMMA SameFeedIsStep ==
  ASSUME UNCHANGED <<account, inbox, events>>, FeedPhase' = FeedPhase,
         FeedPhase # "none" => baseline' = baseline,
         FeedPhase \in {"idle", "scanning"} => settled' = settled,
         FeedPhase = "scanning" => scanFrom' = scanFrom
  PROVE  FeedStep
  <1>1. UNCHANGED Feed!feedVars
    BY DEF Feed!feedVars
  <1>2. QED
    BY <1>1 DEF FeedStep

(* An administrator's change leaves no row current. *)
LEMMA AdminIsFeedStep ==
  ASSUME TypeOK, FeedInv, Admin
  PROVE  FeedStep
  <1>1. row # Null => row.generation <= account.generation /\ row.generation \in Nat
    BY RowNumbers DEF FeedInv, PollTracksRow
  <1>2. account \in Accounts /\ account.generation \in Nat
    BY DEF TypeOK, Accounts, Generations
  <1>3. ASSUME SetEnabled \/ \E b \in Mailboxes : Reconfigure(b)
        PROVE  FeedStep
    <2>1. /\ account.state # "deleted" /\ account'.state # "deleted"
          /\ account'.generation = account.generation + 1
          /\ UNCHANGED <<row, inbox, events>>
      BY <1>2, <1>3 DEF SetEnabled, Reconfigure, NextGeneration, MayChange, Accounts,
         tables, world
    <2>2. FeedPhase' = "none"
      BY <1>1, <1>2, <2>1, PhaseIs DEF RowCurrent
    <2>3. Feed!Administer
      BY <2>1, <2>2 DEF Feed!Administer
    <2>4. QED
      BY <2>3 DEF FeedStep, Feed!FeedNext
  <1>4. CASE DeleteAccount
    <2>1. /\ account.state # "deleted" /\ account'.state = "deleted"
          /\ UNCHANGED inbox /\ account'.mailbox = account.mailbox
          /\ row' = Null /\ events' = {}
      BY <1>2, <1>4 DEF DeleteAccount, Accounts, world
    <2>2. FeedPhase' = "none"
      BY <2>1, PhaseIs DEF RowCurrent
    <2>3. Feed!Delete
      BY <2>1, <2>2 DEF Feed!Delete
    <2>4. QED
      BY <2>3 DEF FeedStep, Feed!FeedNext
  <1>5. QED
    BY <1>3, <1>4 DEF Admin

LEMMA MailIsFeedStep ==
  ASSUME TypeOK, Mail
  PROVE  FeedStep
  <1>1. UNCHANGED <<account, row, events, baseline, settled, scanFrom>>
    BY DEF Mail, Arrive, Remove, Rebuild, tables, history
  <1>2. FeedPhase' = FeedPhase
    BY <1>1, PhaseIs DEF RowCurrent
  <1>3. /\ Len(inbox) <= Len(inbox')
        /\ \A m \in DOMAIN inbox : /\ inbox'[m].mailbox = inbox[m].mailbox
                                   /\ inbox'[m].received = inbox[m].received
                                   /\ inbox'[m].present => inbox[m].present
    BY MailKeeps DEF Next, Mails
  <1>4. Feed!MailMoves
    BY <1>1, <1>2, <1>3 DEF Feed!MailMoves
  <1>5. QED
    BY <1>4 DEF FeedStep, Feed!FeedNext

(* A scan that begins is a baseline, a scan, or one that goes on; for an   *)
(* account that has moved on it is nothing.                                *)
LEMMA BeginIsFeedStep ==
  ASSUME TypeOK, PollerAimed, FeedInv, ScanInv, AnnounceInv, BeginScan
  PROVE  FeedStep
  <1> USE SizesAssumption, BoundsAssumption, NullAssumption
  <1>1. /\ account.state # "deleted" /\ UNCHANGED <<account, inbox, events, settled>>
        /\ row' # Null /\ row'.generation = poll.generation /\ row'.started # 0
        /\ row = Null \/ row.generation # poll.generation =>
             ~row'.initialized /\ baseline' = Len(inbox)
        /\ row # Null /\ row.generation = poll.generation =>
             /\ row'.initialized = row.initialized
             /\ baseline' = baseline
             /\ scanFrom' = IF row.started = 0 THEN Len(inbox) ELSE scanFrom
    BY BeginKeeps
  <1>2. /\ poll.generation <= account.generation
        /\ row # Null => row.generation <= poll.generation
    BY BeginKeeps DEF PollerAimed, AnnounceInv, PollAhead
  <1>3. /\ poll.generation \in Nat /\ account.generation \in Nat
        /\ row # Null => row.generation \in Nat
    BY BeginKeeps, RowNumbers DEF TypeOK, PollerOK, Accounts, Generations
  <1>4. CASE poll.generation # account.generation
    <2>1. FeedPhase = "none" /\ FeedPhase' = "none"
      BY <1>1, <1>2, <1>3, <1>4, PhaseIs DEF RowCurrent
    <2>2. QED
      BY <1>1, <2>1, SameFeedIsStep
  <1>5. CASE poll.generation = account.generation
             /\ (row = Null \/ row.generation # poll.generation)
    <2>1. FeedPhase = "none" /\ FeedPhase' = "baseline"
      BY <1>1, <1>5, PhaseIs DEF RowCurrent
    <2>2. Feed!BeginBaseline
      BY <1>1, <1>5, <2>1 DEF Feed!BeginBaseline
    <2>3. QED
      BY <2>2 DEF FeedStep, Feed!FeedNext
  <1>6. CASE poll.generation = account.generation
             /\ row # Null /\ row.generation = poll.generation
    <2>1. RowCurrent /\ RowCurrent'
      BY <1>1, <1>6 DEF RowCurrent
    <2>2. CASE row.initialized /\ row.started = 0
      <3>1. FeedPhase = "idle" /\ FeedPhase' = "scanning"
        BY <1>1, <1>6, <2>1, <2>2, PhaseIs
      <3>2. Feed!BeginScan
        BY <1>1, <1>6, <2>2, <3>1 DEF Feed!BeginScan
      <3>3. QED
        BY <3>2 DEF FeedStep, Feed!FeedNext
    <2>3. CASE ~(row.initialized /\ row.started = 0)
      <3>1. FeedPhase' = FeedPhase /\ FeedPhase \in {"baseline", "scanning"}
            /\ (FeedPhase = "scanning" => row.started # 0)
        BY <1>1, <1>6, <2>1, <2>3, PhaseIs
      <3>2. QED
        BY <1>1, <1>6, <3>1, SameFeedIsStep
    <2>4. QED
      BY <2>2, <2>3
  <1>7. QED
    BY <1>4, <1>5, <1>6

(* A renumbered mailbox is met by a scan, or by a baseline under way. *)
LEMMA RebaselineIsFeedStep ==
  ASSUME TypeOK, ScanInv, Rebaseline
  PROVE  FeedStep
  <1> USE SizesAssumption, BoundsAssumption, NullAssumption
  <1>1. /\ pc = "answered" /\ row # Null /\ account.state = "enabled"
        /\ account.generation = poll.generation /\ row.generation = poll.generation
        /\ row' = NewScan(NextScanStart, answer.epoch)
        /\ baseline' = Len(inbox) /\ UNCHANGED <<account, inbox, events>>
    BY DEF Rebaseline, HandlingPage, AccountUnchanged, ScanUnchanged, world
  <1>2. row.started # 0
    BY <1>1 DEF ScanInv, PollKeepsPace
  <1>3. row' # Null
    <2>1. /\ NextScanStart \in Stamps /\ answer.epoch \in Epochs
          /\ poll.generation \in Generations
      BY <1>1, NextStartType DEF TypeOK, TablesOK, PollerOK, WorldOK, Answers, Scans
    <2>2. row' \in Rows
      BY <1>1, <2>1, ScanRowTypes DEF TypeOK, TablesOK
    <2>3. QED
      BY <2>2 DEF NullAssumption
  <1>4. ~row'.initialized /\ row'.generation = poll.generation
    BY <1>1 DEF NewScan
  <1>5. FeedPhase \in {"baseline", "scanning"} /\ FeedPhase' = "baseline"
    BY <1>1, <1>2, <1>3, <1>4, PhaseIs DEF RowCurrent
  <1>6. Feed!BeginBaseline
    BY <1>1, <1>5 DEF Feed!BeginBaseline
  <1>7. QED
    BY <1>6 DEF FeedStep, Feed!FeedNext

(* What a page adds to the feed may be announced, and is for the first time. *)
LEMMA PublishedIsNew ==
  ASSUME TypeOK, PollerAimed, FeedInv, AnnounceInv, RecordPage
  PROVE  LET S == {id.mail : id \in Published} IN
         /\ S \subseteq {m \in Mails : m > baseline /\ inbox[m].mailbox = account.mailbox
                                       /\ inbox[m].received}
         /\ S \cap {id.mail : id \in events} = {}
         /\ {id.mail : id \in events'} = {id.mail : id \in events} \cup S
  <1>1. /\ pc = "answered" /\ account.generation = poll.generation
        /\ events \subseteq events'
    BY PageKeeps, NullAssumption
  <1>2. ASSUME NEW id \in Published
        PROVE  /\ id.mail \in Mails /\ id.mail > baseline
               /\ inbox[id.mail].mailbox = account.mailbox /\ inbox[id.mail].received
               /\ \A i \in events : i.mail # id.mail
    <2>1. /\ id \in answer.items /\ id.mail > baseline
          /\ \A i \in events : i.mail # id.mail
      BY PagePublishes
    <2>2. id.mail \in Mails /\ id = IdAt(id.mail, id.epoch) /\ inbox[id.mail].received
      BY <1>1, <2>1 DEF FeedInv, IdsName, AnnounceInv, AnswerReceived, Answered
    <2>3. id.mailbox = account.mailbox
      BY <1>1, <2>1 DEF PollerAimed
    <2>4. id.mailbox = inbox[id.mail].mailbox
      BY <2>2 DEF IdAt
    <2>5. QED
      BY <2>1, <2>2, <2>3, <2>4
  <1>3. {id.mail : id \in events'}
          = {id.mail : id \in events} \cup {id.mail : id \in Published}
    BY <1>1 DEF Published
  <1>4. QED
    BY <1>2, <1>3

(* The page that ends a scan leaves nothing due. *)
LEMMA EndAnnouncesDue ==
  ASSUME TypeOK, PollerAimed, FeedInv, ScanInv, AnnounceInv, RecordPage,
         Complete, poll.initialized,
         NEW m \in Mails, inbox[m].mailbox = account.mailbox, inbox[m].present,
         inbox[m].received, settled < m, m <= scanFrom
  PROVE  m \in {id.mail : id \in events'}
  <1> USE SizesAssumption, BoundsAssumption, NullAssumption
  <1> DEFINE id == IdAt(m, answer.epoch)
  <1>1. id \in DOMAIN firstSeen \cup answer.items
    <2>1. SUFFICES ASSUME id \notin DOMAIN firstSeen \cup answer.items
                   PROVE  FALSE
      OBVIOUS
    <2>2. /\ row.cursor = Null \/ Place(m) < row.cursor.place => m > scanFrom \/ ~Complete
          /\ row.cursor # Null /\ m <= scanFrom => Place(m) < row.cursor.place
      BY <2>1, PageLeaves
    <2>3. m \in Nat /\ scanFrom \in Nat
      BY WorldNumbers
    <2>4. QED
      BY <2>2, <2>3
  <1>2. SeenAnnounced'
    BY SeenStaysAnnounced DEF AnnounceInv, Next, Poll
  <1>3. /\ DOMAIN firstSeen' = DOMAIN firstSeen \cup answer.items
        /\ settled' = settled /\ row'.initialized
    BY PageKeeps
  <1>4. row' # Null
    BY PageKeeps
  <1>5. id.mail = m
    BY DEF IdAt
  <1>6. id \in events'
    BY <1>1, <1>2, <1>3, <1>4, <1>5 DEF SeenAnnounced
  <1>7. QED
    BY <1>5, <1>6

(* A page of the baseline announces nothing, and completes it if it is the *)
(* last one; a page of a scan announces what it adds.                      *)
LEMMA RecordIsFeedStep ==
  ASSUME TypeOK, PollerAimed, FeedInv, ScanInv, AnnounceInv, RecordPage
  PROVE  FeedStep
  <1> USE NullAssumption
  <1>1. /\ RowCurrent /\ account.state = "enabled" /\ pc = "answered"
        /\ row.initialized = poll.initialized
        /\ UNCHANGED <<account, inbox, baseline, scanFrom>>
        /\ settled' = IF Complete /\ ~poll.initialized THEN Len(inbox) ELSE settled
        /\ row' # Null /\ row'.initialized = (poll.initialized \/ Complete)
        /\ ~poll.initialized => events' = events
    BY PageKeeps
  <1>2. /\ row'.generation = row.generation /\ row # Null
        /\ row'.started = IF Complete THEN 0 ELSE row.started
    BY PageRow
  <1>3. row.started # 0
    BY <1>1, <1>2 DEF ScanInv, PollKeepsPace
  <1>4. RowCurrent'
    BY <1>1, <1>2 DEF RowCurrent
  <1>5. CASE ~poll.initialized /\ ~Complete
    <2>1. FeedPhase = "baseline" /\ FeedPhase' = "baseline"
      BY <1>1, <1>4, <1>5, PhaseIs
    <2>2. QED
      BY <1>1, <1>5, <2>1, SameFeedIsStep
  <1>6. CASE ~poll.initialized /\ Complete
    <2>1. FeedPhase = "baseline" /\ FeedPhase' = "idle"
      BY <1>1, <1>2, <1>4, <1>6, PhaseIs
    <2>2. Feed!EndBaseline
      BY <1>1, <1>6, <2>1 DEF Feed!EndBaseline
    <2>3. QED
      BY <2>2 DEF FeedStep, Feed!FeedNext
  <1>7. CASE poll.initialized
    <2>0. PICK S : S = {id.mail : id \in Published}
      OBVIOUS
    <2>1. /\ FeedPhase = "scanning"
          /\ FeedPhase' = IF Complete THEN "idle" ELSE "scanning"
      BY <1>1, <1>2, <1>3, <1>4, <1>7, PhaseIs
    <2>2. /\ S \subseteq {m \in Mails : m > baseline /\ inbox[m].mailbox = account.mailbox
                                        /\ inbox[m].received}
          /\ S \cap {id.mail : id \in events} = {}
          /\ {id.mail : id \in events'} = {id.mail : id \in events} \cup S
      BY <2>0, PublishedIsNew
    <2>3. Complete => Feed!Due \subseteq {id.mail : id \in events'}
      <3>1. Feed!Due \subseteq
              {m \in Mails : /\ inbox[m].mailbox = account.mailbox
                             /\ inbox[m].present /\ inbox[m].received
                             /\ settled < m /\ m <= scanFrom}
        BY <2>1 DEF Feed!Due, Feed!New, Mails
      <3>2. QED
        BY <1>7, <3>1, EndAnnouncesDue
    <2>4. S \in SUBSET Feed!New
      BY <2>1, <2>2 DEF Feed!New, Mails
    <2>5. Feed!Announce(S)
      BY <1>1, <1>7, <2>1, <2>2, <2>3 DEF Feed!Announce
    <2>6. QED
      BY <2>4, <2>5 DEF FeedStep, Feed!FeedNext
  <1>8. QED
    BY <1>5, <1>6, <1>7

LEMMA FailIsFeedStep ==
  ASSUME TypeOK, FailScan, UNCHANGED <<account, inbox>>
  PROVE  FeedStep
  <1>1. /\ UNCHANGED <<events, baseline, settled, scanFrom>>
        /\ row' = Null <=> row = Null
        /\ row # Null => /\ row'.generation = row.generation
                         /\ row'.initialized = row.initialized
                         /\ row'.started = row.started
    BY FailKeeps, NullAssumption
  <1>2. FeedPhase' = FeedPhase
    BY <1>1, PhaseIs DEF RowCurrent
  <1>3. QED
    BY <1>1, <1>2, SameFeedIsStep

LEMMA NextIsFeedStep ==
  ASSUME TypeOK, PollerAimed, FeedInv, ScanInv, AnnounceInv, [Next]_vars
  PROVE  FeedStep
  <1>1. CASE Admin
    BY <1>1, AdminIsFeedStep
  <1>2. CASE Mail
    BY <1>2, MailIsFeedStep
  <1>3. CASE BeginScan
    BY <1>3, BeginIsFeedStep
  <1>4. CASE Rebaseline
    BY <1>4, RebaselineIsFeedStep
  <1>5. CASE RecordPage
    BY <1>5, RecordIsFeedStep
  <1>6. CASE ~Admin /\ ~Mail /\ ~BeginScan /\ ~Rebaseline /\ ~RecordPage
    <2>1. UNCHANGED <<account, inbox>>
      BY <1>6 DEF Next, vars, Poll, ListAccounts, CaptureAccount, SnapshotTaken,
         BeginScanForNobody, FetchPage, CursorRefused, PageIsFaulty, ScanStateChanged,
         FetchFails, FetchGarbled, Crash, Tick, world
    <2>2. CASE FailScan
      BY <2>1, <2>2, FailIsFeedStep
    <2>3. CASE ~FailScan
      <3>1. UNCHANGED <<row, events, baseline, settled, scanFrom>>
        BY <1>6, <2>3, OthersKeepTables DEF Admin
      <3>2. FeedPhase' = FeedPhase
        BY <2>1, <3>1, PhaseIs DEF RowCurrent
      <3>3. QED
        BY <2>1, <3>1, <3>2, SameFeedIsStep
    <2>4. QED
      BY <2>2, <2>3
  <1>7. QED
    BY <1>1, <1>2, <1>3, <1>4, <1>5, <1>6

(* Discovery implements the feed that InboundFeed promises: pages, clocks, *)
(* ids, rebuilt mailboxes, faults and restarts are not seen by a reader.   *)
THEOREM ImplementsFeedHolds ==
  ASSUME DaysAgree, ListsInOrder PROVE Spec => ImplementsFeed
  <1>1. Init => Feed!FeedInit
    <2> SUFFICES ASSUME Init
                 PROVE  Feed!FeedInit
      OBVIOUS
    <2>1. FeedPhase = "none"
      BY PhaseIs DEF Init, RowCurrent
    <2>2. account.state = "enabled"
      BY DEF Init
    <2>3. {id.mail : id \in events} = {} /\ inbox = <<>>
      BY DEF Init
    <2>4. QED
      BY <2>1, <2>2, <2>3 DEF Feed!FeedInit
  <1>2. TypeOK /\ PollerAimed /\ FeedInv /\ ScanInv /\ AnnounceInv /\ [Next]_vars
          => [Feed!FeedNext]_(Feed!feedVars)
    BY NextIsFeedStep DEF FeedStep
  <1>3. QED
    BY <1>1, <1>2, InboundTypeCorrect, PollerAimedHolds, FeedInvariant, ScanInvariant,
       AnnounceInvariant, PTL DEF Spec, ImplementsFeed, Feed!FeedSpec
===============================================================================
