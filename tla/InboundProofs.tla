----------------------------- MODULE InboundProofs -----------------------------
(***************************************************************************)
(* Theorems of InboundPoll for every set of mailboxes, every page size and *)
(* window, and every bound on mail, time, administration and faults.       *)
(***************************************************************************)
EXTENDS InboundPoll, FiniteSetTheorems, SequenceTheorems, WellFoundedInduction, TLAPS

(* A non-empty set of natural numbers has a least element. *)
LEMMA LeastNumber ==
  ASSUME NEW S \in SUBSET Nat, S # {}
  PROVE  \E m \in S : \A n \in S : m <= n
  <1>1. \E m \in S : \A n \in S : ~ (<<n, m>> \in OpToRel(<, Nat))
    BY NatLessThanWellFounded, WFMin
  <1>2. \A m, n \in Nat : ~ (<<n, m>> \in OpToRel(<, Nat)) => m <= n
    BY DEF OpToRel
  <1>3. QED
    BY <1>1, <1>2

(* A function into the integers has its least value somewhere on a finite  *)
(* set.                                                                    *)
LEMMA LeastValue ==
  ASSUME NEW S, S # {}, IsFiniteSet(S), NEW f \in [S -> Int]
  PROVE  \E m \in S : \A n \in S : f[m] <= f[n]
  <1> DEFINE below(m) == {n \in S : f[n] < f[m]}
             sizes == {Cardinality(below(m)) : m \in S}
  <1>1. \A m \in S : IsFiniteSet(below(m)) /\ Cardinality(below(m)) \in Nat
    BY FS_Subset, FS_CardinalityType
  <1>2. sizes \in SUBSET Nat /\ sizes # {}
    <2>1. PICK m \in S : TRUE
      OBVIOUS
    <2>2. Cardinality(below(m)) \in sizes
      BY <2>1
    <2> HIDE DEF below
    <2>3. QED
      BY <1>1, <2>2
  <1>3. PICK c \in sizes : \A d \in sizes : c <= d
    <2> HIDE DEF sizes
    <2> QED
      BY <1>2, LeastNumber
  <1>4. PICK m \in S : c = Cardinality(below(m))
    BY <1>3
  <1>5. ASSUME NEW n \in S, ~ (f[m] <= f[n])
        PROVE  FALSE
    <2>1. f[n] < f[m]
      BY <1>5
    <2>2. below(n) \subseteq below(m) /\ n \in below(m) /\ n \notin below(n)
      BY <2>1
    <2>3. Cardinality(below(n)) \in sizes
      OBVIOUS
    <2> HIDE DEF below, sizes
    <2>4. /\ Cardinality(below(n)) <= Cardinality(below(m))
          /\ Cardinality(below(n)) # Cardinality(below(m))
      BY <1>1, <2>2, FS_Subset
    <2>5. Cardinality(below(m)) <= Cardinality(below(n))
      BY <1>3, <1>4, <2>3
    <2>6. QED
      BY <1>1, <2>4, <2>5
  <1>6. QED
    BY <1>5

(* Mail that stays as it is keeps its place. *)
LEMMA PlacesKept ==
  ASSUME inbox' = inbox
  PROVE  \A m : Place(m)' = Place(m)
  BY DEF Place

(* A place in a listing is a number. *)
LEMMA PlaceType ==
  ASSUME TypeOK, BoundsAssumption, NEW m \in Mails
  PROVE  Place(m) \in Int
  <1>1. inbox[m] \in Letters /\ m \in Int
    BY DEF TypeOK, WorldOK, Mails
  <1>2. inbox[m].date \in Int /\ MaxMail \in Int
    BY <1>1 DEF Letters, BoundsAssumption
  <1>3. inbox[m].date * (MaxMail + 1) + m \in Int
    BY <1>1, <1>2
  <1>4. QED
    BY <1>1, <1>3 DEF Place

(* The first mails of a listing that is not empty are some of its mails,   *)
(* and so is the last of them.                                             *)
LEMMA NewestMails ==
  ASSUME TypeOK, SizesAssumption, BoundsAssumption,
         NEW S \in SUBSET Mails, S # {}
  PROVE  /\ Newest(S) \subseteq S
         /\ Oldest(Newest(S)) \in Newest(S)
         /\ \A m \in Newest(S) : Place(Oldest(Newest(S))) <= Place(m)
  <1>1. /\ \A n \in S : Place(n) \in Int
        /\ IsFiniteSet(S)
    <2>1. S \in SUBSET Nat /\ \A n \in S : n <= MaxMail
      BY DEF TypeOK, WorldOK, Mails, BoundsAssumption
    <2>2. QED
      BY <2>1, PlaceType, FS_BoundedSetOfNaturals DEF BoundsAssumption
  <1>2. PICK m \in S : \A n \in S : Place(n) <= Place(m)
    <2> DEFINE f == [n \in S |-> 0 - Place(n)]
    <2>1. f \in [S -> Int]
      BY <1>1
    <2>2. \A n \in S : f[n] = 0 - Place(n)
      OBVIOUS
    <2> HIDE DEF f
    <2>3. PICK m \in S : \A n \in S : f[m] <= f[n]
      BY <1>1, <2>1, LeastValue
    <2>4. \A n \in S : Place(n) <= Place(m)
      BY <1>1, <2>2, <2>3
    <2>5. QED
      BY <2>4
  <1>3. {n \in S : Place(n) > Place(m)} = {}
    BY <1>1, <1>2
  <1>4. Cardinality({n \in S : Place(n) > Place(m)}) = 0
    BY <1>3, FS_EmptySet
  <1>5. m \in Newest(S)
    BY <1>2, <1>4 DEF Newest, SizesAssumption
  <1>6. Newest(S) \subseteq S
    BY DEF Newest
  <1>7. \E o \in Newest(S) : \A n \in Newest(S) : Place(o) <= Place(n)
    <2> DEFINE f == [n \in Newest(S) |-> Place(n)]
    <2>1. f \in [Newest(S) -> Int] /\ IsFiniteSet(Newest(S)) /\ Newest(S) # {}
      BY <1>1, <1>5, <1>6, FS_Subset
    <2>2. \A n \in Newest(S) : f[n] = Place(n)
      OBVIOUS
    <2> HIDE DEF f
    <2>3. QED
      BY <2>1, <2>2, LeastValue
  <1>8. QED
    BY <1>6, <1>7 DEF Oldest

-------------------------------------------------------------------------------
(* Type correctness. *)

(* A mail of the inbox has a message id in its mailbox. *)
LEMMA IdType ==
  ASSUME TypeOK, BoundsAssumption, NEW m \in Mails
  PROVE  /\ m \in 1 .. MaxMail
         /\ Id(m) \in Ids /\ Id(m).mailbox = inbox[m].mailbox
  <1>1. m \in 1 .. MaxMail
    BY DEF TypeOK, WorldOK, Mails, BoundsAssumption
  <1>2. inbox[m].mailbox \in Mailboxes
    <2>1. inbox[m] \in Letters
      BY DEF TypeOK, WorldOK, Mails
    <2>2. QED
      BY <2>1 DEF Letters
  <1>3. Epoch \in Epochs
    BY <1>2 DEF TypeOK, WorldOK, Epoch, Epochs, BoundsAssumption
  <1>4. QED
    BY <1>1, <1>2, <1>3 DEF Id, Ids

(* A provider answers with messages of the mailbox it was asked about. *)
LEMMA PageType ==
  ASSUME TypeOK, SizesAssumption, BoundsAssumption,
         NEW b \in Mailboxes, NEW since, NEW cursor
  PROVE  /\ Page(b, since, cursor) \in Answers
         /\ \A id \in Page(b, since, cursor).items : id.mailbox = b
  <1> DEFINE S == {m \in Listed(b, since) : cursor = Null \/ Place(m) < cursor.place}
             next == IF Cardinality(S) > PageSize
                       THEN [mailbox |-> b, epoch |-> Epoch,
                             place |-> Place(Oldest(Newest(S)))]
                       ELSE Null
  <1>1. S \subseteq Mails /\ \A m \in S : inbox[m].mailbox = b
    BY DEF Listed
  <1>3. Epoch \in Epochs
    BY DEF TypeOK, WorldOK, Epoch, Epochs, BoundsAssumption
  <1>4. Kept(Newest(S)) \subseteq S
    BY DEF Newest, Kept
  <1>5. next \in Cursors
    <2>1. CASE S = {}
      <3>1. Cardinality(S) = 0
        BY <2>1, FS_EmptySet
      <3>2. QED
        BY <3>1 DEF SizesAssumption, Cursors
    <2>2. CASE S # {}
      <3>1. Oldest(Newest(S)) \in Mails
        BY <1>1, <2>2, NewestMails
      <3>2. Place(Oldest(Newest(S))) \in Int
        BY <3>1, PlaceType
      <3> HIDE DEF S
      <3>3. QED
        BY <1>3, <3>2 DEF Cursors, Marks
    <2>3. QED
      BY <2>1, <2>2
  <1> DEFINE items == {Id(m) : m \in Kept(Newest(S))}
  <1>6. items \in SUBSET Ids /\ \A id \in items : id.mailbox = b
    BY <1>1, <1>4, IdType
  <1>7. Page(b, since, cursor) =
          [items |-> items, next |-> next, epoch |-> Epoch]
    BY DEF Page
  <1> HIDE DEF S, items, next
  <1>8. QED
    BY <1>3, <1>5, <1>6, <1>7 DEF Answers

(* The empty tables and the idle poller are well typed. *)
LEMMA InitTypes ==
  ASSUME SizesAssumption, BoundsAssumption, Init
  PROVE  TypeOK
  <1> USE DEF Init, TypeOK, TablesOK, PollerOK, WorldOK, HistoryOK,
          BoundsAssumption
  <1>1. account \in Accounts
    BY DEF Accounts, Generations
  <1>2. inbox \in Seq(Letters) /\ Len(inbox) = 0
    OBVIOUS
  <1>3. validity \in Epochs \ {0}
    BY DEF Epochs
  <1>4. DOMAIN firstSeen = {}
    BY DEF NothingSeen
  <1>5. QED
    BY <1>1, <1>2, <1>3, <1>4 DEF Numbers, Stamps

(* A poll that stops leaves nothing behind. *)
LEMMA StopTypes == Stop => PollerOK'
  BY DEF Stop, PollerOK

(* Nothing the tables hold is lost sight of. *)
LEMMA KeepTables == TablesOK /\ UNCHANGED tables => TablesOK'
  BY DEF TablesOK, tables

(* Nor what the clock, the mailbox and the faults hold. *)
LEMMA KeepWorld == WorldOK /\ UNCHANGED world => WorldOK'
  BY DEF WorldOK, world

(* Nor what is remembered of the baseline and the scan. *)
LEMMA KeepHistory == HistoryOK /\ UNCHANGED history => HistoryOK'
  BY DEF HistoryOK, history

(* Nor what the poller has in its locals. *)
LEMMA KeepPoller == PollerOK /\ UNCHANGED poller => PollerOK'
  BY DEF PollerOK, poller

(* The rows that scans begin with and go on with. *)
LEMMA ScanRowTypes ==
  ASSUME BoundsAssumption, poll.generation \in Generations,
         NEW start \in Stamps, NEW epoch \in Epochs
  PROVE  /\ NewScan(start, epoch) \in Rows
         /\ row \in Rows => ResumeScan(start) \in Rows
  BY DEF NewScan, ResumeScan, Rows, Stamps, Cursors

(* nextScanStartedAt yields a stamp. *)
LEMMA NextStartType ==
  ASSUME TypeOK PROVE NextScanStart \in Stamps
  BY DEF TypeOK, TablesOK, WorldOK, NextScanStart, Larger, Rows, Stamps

(* The catch block. *)
LEMMA FailScanTypes ==
  ASSUME TypeOK, FailScan
  PROVE  TablesOK' /\ PollerOK' /\ HistoryOK'
  <1>1. row' \in Rows \cup {Null}
    BY DEF FailScan, MarkError, TypeOK, TablesOK, WorldOK, Rows, Cursors, Stamps
  <1>2. QED
    BY <1>1, StopTypes, KeepHistory DEF FailScan, TypeOK, TablesOK

(* No step of the poller leaves the types. *)
LEMMA PollTypes ==
  ASSUME TypeOK, SizesAssumption, BoundsAssumption, Poll
  PROVE  TypeOK'
  <1> USE DEF TypeOK
  <1>1. CASE ListAccounts
    <2>1. PollerOK'
      BY <1>1 DEF ListAccounts, PollerOK
    <2>2. QED
      BY <1>1, <2>1, KeepTables, KeepWorld, KeepHistory DEF ListAccounts
  <1>2. CASE CaptureAccount
    <2>1. PollerOK'
      BY <1>2, StopTypes DEF CaptureAccount, PollerOK
    <2>2. QED
      BY <1>2, <2>1, KeepTables, KeepWorld, KeepHistory DEF CaptureAccount
  <1>3. CASE SnapshotTaken
    <2>1. PollerOK'
      BY <1>3, StopTypes DEF SnapshotTaken, PollerOK
    <2>2. QED
      BY <1>3, <2>1, KeepTables, KeepWorld, KeepHistory DEF SnapshotTaken
  <1>4. CASE BeginScan
    <2> DEFINE started == IF row # Null /\ row.started # 0 THEN row.started
                                                           ELSE NextScanStart
               fresh == row = Null \/ row.generation # poll.generation
               next == IF fresh THEN NewScan(started, 0) ELSE ResumeScan(started)
    <2>1. poll \in Accounts
      BY <1>4 DEF BeginScan, PollerOK
    <2>2. poll.generation \in Generations /\ poll.mailbox \in Mailboxes
      BY <2>1 DEF Accounts
    <2>3. started \in Stamps
      BY NextStartType DEF TablesOK, Rows
    <2>4. next \in Rows
      <3>1. 0 \in Epochs
        BY DEF Epochs, BoundsAssumption
      <3> HIDE DEF started
      <3>2. fresh \/ row \in Rows
        BY DEF TablesOK
      <3>3. QED
        BY <2>2, <2>3, <3>1, <3>2, ScanRowTypes
    <2>5. /\ row' = next
          /\ firstSeen' = IF fresh THEN NothingSeen ELSE firstSeen
          /\ events' = events
      BY <1>4 DEF BeginScan
    <2>6. TablesOK'
      <3> HIDE DEF next
      <3>1. QED
        BY <2>4, <2>5 DEF TablesOK, NothingSeen
    <2>7. /\ pc' = "fetching" /\ answer' = answer /\ answer = Null
          /\ poll' = [generation |-> poll.generation,
                      mailbox |-> poll.mailbox,
                      initialized |-> next.initialized,
                      since |-> Since(next),
                      started |-> started, cursor |-> next.cursor,
                      epoch |-> next.epoch, pages |-> 0,
                      cursors |-> {next.cursor} \ {Null}]
      BY <1>4 DEF BeginScan, PollerOK
    <2>8. poll' \in Scans
      <3> HIDE DEF next, started
      <3>1. Since(next) \in Int \cup {Null}
        BY <2>4 DEF Since, Rows, Stamps, SizesAssumption
      <3>2. {next.cursor} \ {Null} \in SUBSET Marks
        BY <2>4 DEF Rows, Cursors
      <3>3. 0 \in 0 .. MaxPages
        BY DEF SizesAssumption
      <3>4. QED
        BY <2>2, <2>3, <2>4, <2>7, <3>1, <3>2, <3>3 DEF Scans, Rows
    <2>9. PollerOK'
      BY <2>7, <2>8 DEF PollerOK
    <2>10. HistoryOK'
      <3>1. Len(inbox) \in Numbers
        BY DEF WorldOK, Numbers, BoundsAssumption
      <3>2. QED
        BY <1>4, <3>1 DEF BeginScan, HistoryOK
    <2>11. UNCHANGED <<account, world>>
      BY <1>4 DEF BeginScan
    <2>12. QED
      BY <2>6, <2>9, <2>10, <2>11, KeepWorld
  <1>5. CASE BeginScanForNobody
    BY <1>5, StopTypes, KeepTables, KeepWorld, KeepHistory
    DEF BeginScanForNobody
  <1>6. CASE FetchPage
    <2>1. poll \in Scans /\ poll.mailbox \in Mailboxes
      BY <1>6 DEF FetchPage, PollerOK, Scans
    <2>2. answer' \in Answers
      BY <1>6, <2>1, PageType DEF FetchPage
    <2>3. PollerOK'
      BY <1>6, <2>1, <2>2 DEF FetchPage, PollerOK
    <2>4. QED
      BY <1>6, <2>3, KeepTables, KeepWorld, KeepHistory DEF FetchPage
  <1>7. CASE CursorRefused
    BY <1>7, FailScanTypes, KeepWorld DEF CursorRefused
  <1>8. CASE PageIsFaulty
    BY <1>8, FailScanTypes, KeepWorld DEF PageIsFaulty
  <1>9. CASE Rebaseline
    <2>1. poll \in Scans /\ answer \in Answers
      BY <1>9 DEF Rebaseline, HandlingPage, PollerOK
    <2>2. poll.generation \in Generations /\ answer.epoch \in Epochs
      BY <2>1 DEF Scans, Answers
    <2>3. NewScan(NextScanStart, answer.epoch) \in Rows
      BY <2>2, NextStartType, ScanRowTypes
    <2>4. TablesOK'
      BY <1>9, <2>3 DEF Rebaseline, TablesOK, NothingSeen
    <2>5. HistoryOK'
      <3>1. Len(inbox) \in Numbers
        BY DEF WorldOK, Numbers, BoundsAssumption
      <3>2. QED
        BY <1>9, <3>1 DEF Rebaseline, HistoryOK
    <2>6. QED
      BY <1>9, <2>4, <2>5, StopTypes, KeepWorld DEF Rebaseline
  <1>10. CASE ScanStateChanged
    BY <1>10, StopTypes, KeepTables, KeepWorld, KeepHistory
    DEF ScanStateChanged
  <1>11. CASE RecordPage
    <2> DEFINE epoch == IF answer.epoch # 0 THEN answer.epoch ELSE poll.epoch
               at == Larger(now, poll.started)
    <2>1. poll \in Scans /\ answer \in Answers
      BY <1>11 DEF RecordPage, HandlingPage, PollerOK
    <2>2. epoch \in Epochs /\ at \in Stamps /\ poll.started \in Stamps
      BY <2>1 DEF Scans, Answers, Larger, WorldOK, Stamps
    <2>3. answer.items \in SUBSET Ids /\ answer.next \in Cursors
      BY <2>1 DEF Answers
    <2>4. row \in Rows
      BY <1>11 DEF RecordPage, MayCommit, ScanUnchanged, TablesOK
    <2>5. row' \in Rows
      <3> HIDE DEF epoch, at
      <3>1. ASSUME NEW e \in Epochs, NEW t \in Stamps, NEW u \in Stamps
            PROVE  [row EXCEPT !.initialized = TRUE, !.lastOk = u,
                               !.cursor = Null, !.started = 0, !.epoch = e,
                               !.updated = t] \in Rows
        BY <2>4, <3>1 DEF Rows, Stamps, Cursors
      <3>2. ASSUME NEW e \in Epochs, NEW t \in Stamps, NEW c \in Cursors
            PROVE  [row EXCEPT !.cursor = c, !.epoch = e, !.updated = t]
                     \in Rows
        BY <2>4, <3>2 DEF Rows
      <3>3. CASE Complete
        <4>1. row' = [row EXCEPT !.initialized = TRUE, !.lastOk = poll.started,
                        !.cursor = Null, !.started = 0, !.epoch = epoch,
                        !.updated = at]
          BY <1>11, <3>3 DEF RecordPage, ScannedUntil, epoch, at
        <4>2. QED
          BY <2>2, <3>1, <4>1
      <3>4. CASE ~Complete
        <4>1. row' = [row EXCEPT !.cursor = answer.next, !.epoch = epoch,
                                 !.updated = at]
          BY <1>11, <3>4 DEF RecordPage, epoch, at
        <4>2. QED
          BY <2>2, <2>3, <3>2, <4>1
      <3>5. QED
        BY <3>3, <3>4
    <2>6. TablesOK'
      <3>1. See(answer.items, at)
        BY <1>11 DEF RecordPage
      <3> HIDE DEF at
      <3>2. /\ DOMAIN firstSeen' \subseteq Ids
            /\ \A id \in DOMAIN firstSeen' : firstSeen'[id] \in Stamps
        BY <2>2, <2>3, <3>1 DEF See, TablesOK
      <3>3. events' \subseteq Ids
        BY <1>11, <2>3 DEF RecordPage, TablesOK
      <3>4. QED
        BY <2>5, <3>2, <3>3 DEF TablesOK
    <2>7. PollerOK'
      <3>1. CASE Stop
        BY <3>1, StopTypes
      <3>2. CASE ~Stop
        <4>1. /\ pc' = "fetching" /\ answer' = Null
              /\ ~Complete /\ poll.pages + 1 < MaxPages
              /\ poll' = [poll EXCEPT !.epoch = epoch, !.cursor = answer.next,
                            !.pages = @ + 1,
                            !.cursors = @ \cup {answer.next}]
          BY <1>11, <3>2 DEF RecordPage
        <4>2. answer.next \in Marks
          BY <2>3, <4>1 DEF Complete, Cursors
        <4>3. poll' \in Scans
          <5> HIDE DEF epoch
          <5>1. poll.pages + 1 \in 0 .. MaxPages
            BY <2>1, <4>1 DEF Scans, SizesAssumption
          <5>2. poll.cursors \cup {answer.next} \in SUBSET Marks
            BY <2>1, <4>2 DEF Scans
          <5>3. QED
            BY <2>1, <2>2, <2>3, <4>1, <5>1, <5>2 DEF Scans
        <4>4. QED
          BY <4>1, <4>3 DEF PollerOK
      <3>3. QED
        BY <3>1, <3>2
    <2>8. HistoryOK'
      <3>1. Len(inbox) \in Numbers
        BY BoundsAssumption DEF WorldOK, Numbers
      <3>2. QED
        BY <1>11, <3>1 DEF RecordPage, HistoryOK
    <2>9. QED
      BY <1>11, <2>6, <2>7, <2>8, KeepWorld DEF RecordPage
  <1>12. QED
    BY <1>1, <1>2, <1>3, <1>4, <1>5, <1>6, <1>7, <1>8, <1>9, <1>10, <1>11
    DEF Poll

(* Nor does any other step. *)
LEMMA OtherTypes ==
  ASSUME TypeOK, SizesAssumption, BoundsAssumption,
         FetchFails \/ FetchGarbled \/ Crash \/ Admin \/ Mail \/ Tick
  PROVE  TypeOK'
  <1> USE DEF TypeOK
  <1>1. CASE FetchFails
    <2>1. WorldOK'
      BY <1>1 DEF FetchFails, WorldOK, BoundsAssumption
    <2>2. QED
      BY <1>1, <2>1, FailScanTypes DEF FetchFails
  <1>2. CASE FetchGarbled
    <2> DEFINE page == Page(poll.mailbox, poll.since, poll.cursor)
    <2>1. poll \in Scans /\ poll.mailbox \in Mailboxes
      BY <1>2 DEF FetchGarbled, PollerOK, Scans
    <2>2. page \in Answers
      BY <2>1, PageType
    <2>3. answer' \in Answers
      <3>1. ASSUME NEW c \in poll.cursors
            PROVE  [page EXCEPT !.next = c] \in Answers
        <4>1. c \in Cursors
          BY <2>1, <3>1 DEF Scans, Cursors
        <4> HIDE DEF page
        <4>2. QED
          BY <2>2, <4>1 DEF Answers
      <3>2. [page EXCEPT !.epoch = 0] \in Answers
        <4> HIDE DEF page
        <4>1. 0 \in Epochs
          BY DEF Epochs, BoundsAssumption
        <4>2. QED
          BY <2>2, <4>1 DEF Answers
      <3>3. QED
        BY <1>2, <3>1, <3>2 DEF FetchGarbled
    <2>4. PollerOK'
      BY <1>2, <2>1, <2>3 DEF FetchGarbled, PollerOK
    <2>5. WorldOK'
      <3>1. failures' \in 0 .. MaxFailures
        <4>1. failures < MaxFailures /\ failures' = failures + 1
          BY <1>2, Zenon DEF FetchGarbled
        <4>2. QED
          BY <4>1 DEF WorldOK, BoundsAssumption
      <3>2. UNCHANGED <<now, inbox, validity>>
        BY <1>2, Zenon DEF FetchGarbled
      <3>3. QED
        BY <3>1, <3>2 DEF WorldOK
    <2>6. QED
      BY <1>2, <2>4, <2>5, KeepTables, KeepHistory DEF FetchGarbled
  <1>3. CASE Crash
    <2>1. WorldOK'
      BY <1>3 DEF Crash, WorldOK, BoundsAssumption
    <2>2. QED
      BY <1>3, <2>1, StopTypes, KeepTables, KeepHistory DEF Crash
  <1>4. CASE Admin
    <2>0. MayChange => account.generation + 1 \in Generations
      BY DEF MayChange, Accounts, Generations, BoundsAssumption
    <2>1. CASE SetEnabled
      <3>1. account' \in Accounts
        BY <2>0, <2>1 DEF SetEnabled, Accounts
      <3>2. QED
        BY <2>1, <3>1, KeepTables, KeepPoller, KeepWorld, KeepHistory
        DEF SetEnabled
    <2>2. ASSUME NEW b \in Mailboxes, Reconfigure(b)
          PROVE  TypeOK'
      <3>1. account' \in Accounts
        BY <2>0, <2>2 DEF Reconfigure, NextGeneration, Accounts
      <3>2. QED
        BY <2>2, <3>1, KeepTables, KeepPoller, KeepWorld, KeepHistory
        DEF Reconfigure
    <2>3. CASE DeleteAccount
      <3>1. account' \in Accounts
        BY <2>3 DEF DeleteAccount, Accounts
      <3>2. TablesOK'
        BY <2>3 DEF DeleteAccount, TablesOK, NothingSeen
      <3>3. QED
        BY <2>3, <3>1, <3>2, KeepPoller, KeepWorld, KeepHistory
        DEF DeleteAccount
    <2>4. QED
      BY <1>4, <2>1, <2>2, <2>3 DEF Admin
  <1>5. CASE Mail
    <2>1. ASSUME NEW b \in Mailboxes, NEW d \in (now - Skew) .. now,
                 NEW received \in BOOLEAN, Arrive(b, d, received)
          PROVE  TypeOK'
      <3> DEFINE mail == [mailbox |-> b, date |-> d, present |-> TRUE,
                          received |-> received]
      <3>1. d \in Int
        BY DEF WorldOK, Stamps, SizesAssumption
      <3>2. mail \in Letters
        BY <3>1 DEF Letters
      <3>3. inbox' = Append(inbox, mail) /\ Len(inbox) < MaxMail
        BY <2>1 DEF Arrive
      <3>4. inbox' \in Seq(Letters) /\ Len(inbox') <= MaxMail
        <4> HIDE DEF mail
        <4> QED
          BY <3>2, <3>3 DEF WorldOK, BoundsAssumption
      <3>5. WorldOK'
        BY <2>1, <3>4 DEF Arrive, WorldOK
      <3>6. QED
        BY <2>1, <3>5, KeepTables, KeepPoller, KeepHistory DEF Arrive
    <2>2. ASSUME NEW m \in Mails, Remove(m)
          PROVE  TypeOK'
      <3>1. inbox[m] \in Letters
        BY DEF WorldOK, Mails
      <3>2. [inbox[m] EXCEPT !.present = FALSE] \in Letters
        BY <3>1 DEF Letters
      <3>3. inbox' = [inbox EXCEPT ![m] = [inbox[m] EXCEPT !.present = FALSE]]
        BY <2>2 DEF Remove
      <3>4. inbox' \in Seq(Letters) /\ Len(inbox') <= MaxMail
        <4> DEFINE letter == [inbox[m] EXCEPT !.present = FALSE]
        <4>1. inbox \in Seq(Letters) /\ Len(inbox) <= MaxMail
          BY DEF WorldOK
        <4>2. letter \in Letters /\ inbox' = [inbox EXCEPT ![m] = letter]
          BY <3>2, <3>3
        <4> HIDE DEF letter
        <4>3. m \in 1 .. Len(inbox)
          BY <4>1 DEF Mails
        <4>4. QED
          BY <4>1, <4>2, <4>3, ExceptSeq
      <3>5. WorldOK'
        BY <2>2, <3>4 DEF Remove, WorldOK
      <3>6. QED
        BY <2>2, <3>5, KeepTables, KeepPoller, KeepHistory DEF Remove
    <2>3. CASE Rebuild
      <3>1. validity' \in Epochs \ {0}
        BY <2>3 DEF Rebuild, WorldOK, Epochs, BoundsAssumption
      <3>2. WorldOK'
        BY <2>3, <3>1 DEF Rebuild, WorldOK
      <3>3. QED
        BY <2>3, <3>2, KeepTables, KeepPoller, KeepHistory DEF Rebuild
    <2>4. QED
      BY <1>5, <2>1, <2>2, <2>3 DEF Mail
  <1>6. CASE Tick
    <2>1. WorldOK'
      BY <1>6 DEF Tick, WorldOK, Stamps
    <2>2. QED
      BY <1>6, <2>1, KeepTables, KeepPoller, KeepHistory DEF Tick
  <1>7. QED
    BY <1>1, <1>2, <1>3, <1>4, <1>5, <1>6

(* Every reachable state is well typed: in particular the poller's locals  *)
(* are those of the await at which it is suspended.                        *)
THEOREM InboundTypeCorrect == Spec => []TypeOK
  <1>1. Init => TypeOK
    BY InitTypes, SizesAssumption, BoundsAssumption
  <1>2. TypeOK /\ [Next]_vars => TypeOK'
    <2>1. CASE UNCHANGED vars
      <3>1. UNCHANGED <<account, tables, poller, world, history>>
        BY <2>1 DEF vars, tables, poller, world, history
      <3>2. QED
        BY <3>1, KeepTables, KeepPoller, KeepWorld, KeepHistory DEF TypeOK
    <2>2. QED
      BY <2>1, PollTypes, OtherTypes, SizesAssumption, BoundsAssumption
      DEF Next
  <1>3. QED
    BY <1>1, <1>2, PTL DEF Spec

-------------------------------------------------------------------------------
(* The poller and the account it serves. *)

(* Leaving the poller and the account alone leaves the aim alone. *)
LEMMA SameAim ==
  ASSUME PollerAimed, UNCHANGED <<account, poller>>
  PROVE  PollerAimed'
  BY DEF PollerAimed, poller

(* A poll that stops has nothing to aim at. *)
LEMMA StopAims == Stop => PollerAimed'
  BY DEF Stop, PollerAimed

(* A change of the account that adds to its generation outdates the poll. *)
LEMMA AccountMoves ==
  ASSUME TypeOK, PollerAimed, account'.generation = account.generation + 1,
         UNCHANGED poller
  PROVE  PollerAimed'
  <1>1. pc \notin {"idle", "listed"} => poll.generation \in Nat
    BY DEF TypeOK, PollerOK, Accounts, Scans, Generations
  <1>2. account.generation \in Nat
    BY DEF TypeOK, Accounts, Generations
  <1>3. QED
    BY <1>1, <1>2 DEF PollerAimed, poller

(* Every step keeps the poller aimed: the mailbox it reads changes only     *)
(* together with the generation it compares (runPoll, persistAccount).     *)
LEMMA AimPreserved ==
  ASSUME TypeOK, PollerAimed, [Next]_vars, SizesAssumption, BoundsAssumption
  PROVE  PollerAimed'
  <1>1. CASE Poll
    <2>1. CASE ListAccounts
      BY <2>1 DEF ListAccounts, PollerAimed
    <2>2. CASE CaptureAccount
      <3>1. account.generation \in Nat
        BY DEF TypeOK, Accounts, Generations
      <3>2. QED
        BY <2>2, <3>1, StopAims DEF CaptureAccount, PollerAimed
    <2>3. CASE SnapshotTaken
      BY <2>3, StopAims DEF SnapshotTaken, PollerAimed
    <2>4. CASE BeginScan
      <3>1. /\ pc = "captured" /\ pc' = "fetching" /\ account' = account
            /\ poll'.generation = poll.generation
            /\ poll'.mailbox = poll.mailbox
        BY <2>4 DEF BeginScan
      <3>2. QED
        BY <3>1 DEF PollerAimed
    <2>5. CASE BeginScanForNobody
      BY <2>5, StopAims DEF BeginScanForNobody
    <2>6. CASE FetchPage
      <3>1. poll.mailbox \in Mailboxes
        BY <2>6 DEF FetchPage, TypeOK, PollerOK, Scans
      <3>2. \A id \in answer'.items : id.mailbox = poll.mailbox
        BY <2>6, <3>1, PageType DEF FetchPage
      <3>3. QED
        BY <2>6, <3>2 DEF FetchPage, PollerAimed
    <2>7. CASE CursorRefused \/ PageIsFaulty \/ Rebaseline \/ ScanStateChanged
      BY <2>7, StopAims
      DEF CursorRefused, PageIsFaulty, FailScan, Rebaseline, ScanStateChanged
    <2>8. CASE RecordPage
      <3>1. CASE Stop
        BY <3>1, StopAims
      <3>2. CASE ~Stop
        <4>1. poll \in Scans
          BY <2>8 DEF RecordPage, HandlingPage, TypeOK, PollerOK
        <4>2. /\ pc = "answered" /\ pc' = "fetching" /\ account' = account
              /\ poll' = [poll EXCEPT
                   !.epoch = IF answer.epoch # 0 THEN answer.epoch
                                                 ELSE poll.epoch,
                   !.cursor = answer.next, !.pages = @ + 1,
                   !.cursors = @ \cup {answer.next}]
          BY <2>8, <3>2 DEF RecordPage, HandlingPage
        <4>3. /\ poll'.generation = poll.generation
              /\ poll'.mailbox = poll.mailbox
          BY <4>1, <4>2 DEF Scans
        <4>4. QED
          BY <4>2, <4>3 DEF PollerAimed
      <3>3. QED
        BY <3>1, <3>2
    <2>9. QED
      BY <1>1, <2>1, <2>2, <2>3, <2>4, <2>5, <2>6, <2>7, <2>8 DEF Poll
  <1>2. CASE FetchFails \/ Crash
    BY <1>2, StopAims DEF FetchFails, FailScan, Crash
  <1>3. CASE FetchGarbled
    <2> DEFINE page == Page(poll.mailbox, poll.since, poll.cursor)
    <2>1. poll.mailbox \in Mailboxes
      BY <1>3 DEF FetchGarbled, TypeOK, PollerOK, Scans
    <2>2. page \in Answers /\ \A id \in page.items : id.mailbox = poll.mailbox
      BY <2>1, PageType
    <2>3. answer'.items = page.items
      <3>1. \/ \E c \in poll.cursors : answer' = [page EXCEPT !.next = c]
            \/ answer' = [page EXCEPT !.epoch = 0]
        BY <1>3 DEF FetchGarbled
      <3> HIDE DEF page
      <3>2. QED
        BY <2>2, <3>1 DEF Answers
    <2> HIDE DEF page
    <2>4. QED
      BY <1>3, <2>2, <2>3 DEF FetchGarbled, PollerAimed
  <1>4. CASE Admin
    <2>1. CASE SetEnabled
      <3>1. account'.generation = account.generation + 1
        BY <2>1 DEF SetEnabled, TypeOK, Accounts
      <3>2. QED
        BY <2>1, <3>1, AccountMoves DEF SetEnabled
    <2>2. ASSUME NEW b \in Mailboxes, Reconfigure(b)
          PROVE  PollerAimed'
      <3>1. account'.generation = account.generation + 1
        BY <2>2 DEF Reconfigure, NextGeneration, TypeOK, Accounts
      <3>2. QED
        BY <2>2, <3>1, AccountMoves DEF Reconfigure
    <2>3. CASE DeleteAccount
      <3>1. /\ account'.generation = account.generation
            /\ account'.mailbox = account.mailbox
        BY <2>3 DEF DeleteAccount, TypeOK, Accounts
      <3>2. QED
        BY <2>3, <3>1 DEF DeleteAccount, PollerAimed, poller
    <2>4. QED
      BY <1>4, <2>1, <2>2, <2>3 DEF Admin
  <1>5. CASE Mail \/ Tick
    BY <1>5, SameAim DEF Mail, Arrive, Remove, Rebuild, Tick
  <1>6. CASE UNCHANGED vars
    BY <1>6, SameAim DEF vars, poller
  <1>7. QED
    BY <1>1, <1>2, <1>3, <1>4, <1>5, <1>6 DEF Next

(* As long as the account has the generation that was captured for a poll, *)
(* the poll reads the account's mailbox.                                   *)
THEOREM PollerAimedHolds == Spec => []PollerAimed
  <1>1. Init => PollerAimed
    BY DEF Init, PollerAimed
  <1>2. TypeOK /\ PollerAimed /\ [Next]_vars => PollerAimed'
    BY AimPreserved, SizesAssumption, BoundsAssumption
  <1>3. QED
    BY <1>1, <1>2, InboundTypeCorrect, PTL DEF Spec

(* Only recordInboundPage publishes, and only what the page shows. *)
LEMMA OnlyPagesPublish ==
  ASSUME [Next]_vars, ~RecordPage
  PROVE  Published = {}
  <1>1. events' = events \/ events' = {}
    BY DEF Next, vars, tables, Poll, ListAccounts, CaptureAccount,
           SnapshotTaken, BeginScan, BeginScanForNobody, FetchPage,
           CursorRefused, PageIsFaulty, FailScan, Rebaseline,
           ScanStateChanged, FetchFails, FetchGarbled, Crash, Admin,
           SetEnabled, Reconfigure, DeleteAccount, Mail, Arrive, Remove,
           Rebuild, Tick
  <1>2. QED
    BY <1>1 DEF Published

(* No event is ever published for a mailbox that the account does not      *)
(* point at, or for an account that is disabled, when the page commits.    *)
THEOREM NoStaleMailboxHolds == Spec => NoStaleMailbox
  <1>1. TypeOK /\ PollerAimed /\ [Next]_vars =>
          [\A id \in Published : /\ account.state = "enabled"
                                 /\ id.mailbox = account.mailbox]_vars
    <2> SUFFICES ASSUME TypeOK, PollerAimed, [Next]_vars, NEW id \in Published
                 PROVE  account.state = "enabled" /\ id.mailbox = account.mailbox
      OBVIOUS
    <2>1. RecordPage
      BY OnlyPagesPublish
    <2>2. pc = "answered" /\ AccountUnchanged
      BY <2>1 DEF RecordPage, HandlingPage, MayCommit
    <2>3. id \in answer.items
      BY <2>1 DEF RecordPage, Published
    <2>4. QED
      BY <2>2, <2>3 DEF AccountUnchanged, PollerAimed
  <1>2. QED
    BY <1>1, InboundTypeCorrect, PollerAimedHolds, PTL
    DEF Spec, NoStaleMailbox
-------------------------------------------------------------------------------
(* The feed: no mail of the baseline is announced, and none twice. *)

(* An id is not Null, and Epoch is 0 exactly without identity epochs. *)
LEMMA EpochFacts ==
  ASSUME TypeOK, BoundsAssumption, NullAssumption
  PROVE  /\ Epoch \in Epochs /\ (HasEpochs <=> Epoch # 0)
         /\ Null \notin Marks
  <1>1. Epoch \in Epochs /\ (HasEpochs <=> Epoch # 0)
    BY DEF Epoch, TypeOK, WorldOK, Epochs, BoundsAssumption
  <1>2. QED
    BY <1>1, NullAssumption DEF NullAssumption

(* A page shows received mail under its current ids; without a window, all *)
(* of it between the page's cursor and the next one.                       *)
LEMMA PageFeed ==
  ASSUME TypeOK, SizesAssumption, BoundsAssumption, NullAssumption,
         NEW b \in Mailboxes, NEW since, NEW cursor,
         NEW page, page = Page(b, since, cursor)
  PROVE  /\ page.epoch = Epoch
         /\ \A id \in page.items :
              /\ id.mail \in Mails /\ id = IdAt(id.mail, Epoch)
              /\ inbox[id.mail].mailbox = b
              /\ inbox[id.mail].present /\ inbox[id.mail].received
         /\ since = Null =>
              \A m \in Mails :
                /\ inbox[m].mailbox = b /\ inbox[m].present /\ inbox[m].received
                /\ cursor = Null \/ Place(m) < cursor.place
                /\ page.next = Null \/ Place(m) >= page.next.place
                => IdAt(m, Epoch) \in page.items
  <1> DEFINE S == {m \in Listed(b, since) : cursor = Null \/ Place(m) < cursor.place}
             next == IF Cardinality(S) > PageSize
                       THEN [mailbox |-> b, epoch |-> Epoch,
                             place |-> Place(Oldest(Newest(S)))]
                       ELSE Null
  <1>1. S \subseteq Mails /\ S \in SUBSET (1 .. MaxMail)
    BY IdType DEF Listed
  <1>2. page = [items |-> {Id(m) : m \in Kept(Newest(S))}, next |-> next,
                epoch |-> Epoch]
    BY DEF Page
  <1>3. /\ page.items = {Id(m) : m \in Kept(Newest(S))}
        /\ page.next = next /\ page.epoch = Epoch
    BY <1>2
  <1>4. \A m \in S : inbox[m].mailbox = b /\ inbox[m].present
    BY DEF Listed
  <1>5. \A m \in Mails : inbox[m].mailbox = b => Id(m) = IdAt(m, Epoch) /\ Id(m).mail = m
    BY DEF Id, IdAt
  <1>6. Kept(Newest(S)) \subseteq S /\ \A m \in Kept(Newest(S)) : inbox[m].received
    BY DEF Kept, Newest
  <1>7. ASSUME NEW id \in page.items
        PROVE  /\ id.mail \in Mails /\ id = IdAt(id.mail, Epoch)
               /\ inbox[id.mail].mailbox = b
               /\ inbox[id.mail].present /\ inbox[id.mail].received
    <2>1. PICK m \in Kept(Newest(S)) : id = Id(m)
      BY <1>3
    <2> HIDE DEF S
    <2>2. QED
      BY <1>1, <1>4, <1>5, <1>6, <2>1
  <1>8. ASSUME since = Null, NEW m \in Mails,
               inbox[m].mailbox = b, inbox[m].present, inbox[m].received,
               cursor = Null \/ Place(m) < cursor.place,
               page.next = Null \/ Place(m) >= page.next.place
        PROVE  IdAt(m, Epoch) \in page.items
    <2>1. m \in S
      BY <1>8 DEF Listed, InWindow
    <2>2. IsFiniteSet(S)
      <3>1. S \in SUBSET Nat /\ \A n \in S : n <= MaxMail
        BY <1>1, BoundsAssumption DEF BoundsAssumption
      <3> HIDE DEF S
      <3>2. QED
        BY <3>1, FS_BoundedSetOfNaturals, BoundsAssumption DEF BoundsAssumption
    <2>3. Cardinality({n \in S : Place(n) > Place(m)}) < PageSize
      <3>1. CASE Cardinality(S) > PageSize
        <4> DEFINE o == Oldest(Newest(S))
        <4>1. o \in Newest(S) /\ o \in S
          BY <1>1, <2>1, NewestMails
        <4>2. \A n \in S : Place(n) \in Int
          BY <1>1, PlaceType
        <4>3. page.next = [mailbox |-> b, epoch |-> Epoch, place |-> Place(o)]
          BY <1>3, <3>1
        <4>4. page.next \in Marks
          <5> HIDE DEF o, S
          <5> QED
            BY <4>1, <4>2, <4>3, EpochFacts DEF Marks
        <4>5. Place(m) >= Place(o)
          <5>1. page.next # Null
            BY <4>4, EpochFacts
          <5> HIDE DEF o
          <5>2. page.next.place = Place(o)
            BY <4>3
          <5>3. QED
            BY <1>8, <5>1, <5>2
        <4>6. Cardinality({n \in S : Place(n) > Place(o)}) < PageSize
          BY <4>1 DEF Newest
        <4> HIDE DEF S, o
        <4>7. {n \in S : Place(n) > Place(m)} \subseteq {n \in S : Place(n) > Place(o)}
          BY <2>1, <4>1, <4>2, <4>5
        <4>8. IsFiniteSet({n \in S : Place(n) > Place(o)})
          BY <2>2, FS_Subset
        <4>9. /\ Cardinality({n \in S : Place(n) > Place(m)})
                   <= Cardinality({n \in S : Place(n) > Place(o)})
              /\ IsFiniteSet({n \in S : Place(n) > Place(m)})
          BY <4>7, <4>8, FS_Subset
        <4>10. /\ Cardinality({n \in S : Place(n) > Place(m)}) \in Nat
               /\ Cardinality({n \in S : Place(n) > Place(o)}) \in Nat
          BY <4>8, <4>9, FS_CardinalityType
        <4>11. QED
          BY <4>6, <4>9, <4>10 DEF SizesAssumption
      <3>2. CASE ~(Cardinality(S) > PageSize)
        <4> DEFINE T == {n \in S : Place(n) > Place(m)}
        <4>1. T \subseteq S /\ T # S
          <5>1. m \notin T
            BY PlaceType
          <5>2. QED
            BY <2>1, <5>1
        <4> HIDE DEF S, T
        <4>2. /\ IsFiniteSet(T) /\ Cardinality(T) <= Cardinality(S)
              /\ Cardinality(S) # Cardinality(T)
          BY <2>2, <4>1, FS_Subset
        <4>3. Cardinality(T) \in Nat /\ Cardinality(S) \in Nat
          BY <2>2, <4>2, FS_CardinalityType
        <4>4. Cardinality(T) < PageSize
          BY <3>2, <4>2, <4>3 DEF SizesAssumption
        <4>5. QED
          BY <4>4 DEF T
      <3>3. QED
        BY <3>1, <3>2
    <2>4. m \in Kept(Newest(S))
      BY <1>8, <2>1, <2>3 DEF Kept, Newest
    <2> HIDE DEF S
    <2>5. QED
      BY <1>3, <1>5, <1>8, <2>4
  <1>9. QED
    BY <1>3, <1>7, <1>8

(* A poll that has not begun to fetch, or has ended, says nothing; its     *)
(* last step may have reset the cursor of the row.                         *)
LEMMA QuietFeed ==
  ASSUME TypeOK, FeedInv, pc' \notin {"fetching", "answered"},
         row' = row \/ (row # Null /\ row' = [row EXCEPT !.cursor = Null, !.updated = now]),
         UNCHANGED <<firstSeen, events, inbox, baseline>>,
         row # Null => row' # Null,
         account'.generation = account.generation, account'.mailbox = account.mailbox
  PROVE  FeedInv'
  <1>1. row # Null =>
          /\ row'.initialized = row.initialized /\ row'.generation = row.generation
          /\ row'.epoch = row.epoch /\ row'.lastOk = row.lastOk
          /\ row'.cursor = row.cursor \/ row'.cursor = Null
    BY DEF TypeOK, TablesOK, Rows
  <1>2. row' = Null <=> row = Null
    OBVIOUS
  <1>3. Answered' = {} /\ Mails' = Mails
    BY DEF Answered, Mails
  <1>4. \A m, e : IdAt(m, e)' = IdAt(m, e)
    BY DEF IdAt
  <1>5. EventOncePerMail' /\ EventsSeen'
    BY DEF FeedInv, EventOncePerMail, EventsSeen
  <1>6. IdsName'
    BY <1>3, <1>4 DEF FeedInv, IdsName
  <1>7. EpochsAgree' /\ PollTracksRow'
    BY <1>1, <1>2 DEF FeedInv, EpochsAgree, PollTracksRow
  <1>8. BaselineSeen'
    BY <1>1, <1>2, <1>3, <1>4, PlacesKept DEF FeedInv, BaselineSeen, OldMail
  <1>9. AnswerCovers'
    BY DEF AnswerCovers
  <1>10. QED
    BY <1>5, <1>6, <1>7, <1>8, <1>9 DEF FeedInv

(* Mail that arrives is newer than the baseline, and none comes back. *)
LEMMA MailFeed ==
  ASSUME TypeOK, FeedInv, UNCHANGED <<account, tables, poller, baseline>>,
         Len(inbox) <= Len(inbox'),
         Mails \subseteq Mails', \A m \in Mails' \ Mails : m > Len(inbox),
         \A m \in Mails : /\ inbox'[m].mailbox = inbox[m].mailbox
                          /\ inbox'[m].received = inbox[m].received
                          /\ inbox'[m].date = inbox[m].date
                          /\ inbox'[m].present => inbox[m].present
  PROVE  FeedInv'
  <1> USE DEF tables, poller
  <1>0. baseline \in Nat /\ Len(inbox) \in Nat /\ Len(inbox') \in Nat
    BY DEF TypeOK, HistoryOK, WorldOK, Numbers
  <1>1. Answered' = Answered
    BY DEF Answered
  <1>2. \A m \in Mails : \A e : IdAt(m, e)' = IdAt(m, e)
    BY DEF IdAt
  <1>3. \A m \in Mails' : OldMail(m)' => m \in Mails /\ OldMail(m)
    <2>1. \A m \in Mails' : m \in Nat
      BY DEF Mails
    <2>2. baseline <= Len(inbox)
      BY DEF FeedInv, EventsSeen
    <2>3. QED
      BY <1>0, <2>1, <2>2 DEF OldMail
  <1>3a. \A m \in Mails : Place(m)' = Place(m)
    BY DEF Place
  <1>4. EventOncePerMail' /\ EpochsAgree' /\ PollTracksRow'
    BY DEF FeedInv, EventOncePerMail, EpochsAgree, PollTracksRow
  <1>5. EventsSeen'
    BY <1>0 DEF FeedInv, EventsSeen
  <1>6. IdsName'
    BY <1>1, <1>2 DEF FeedInv, IdsName
  <1>7. BaselineSeen'
    BY <1>2, <1>3, <1>3a DEF FeedInv, BaselineSeen
  <1>8. AnswerCovers'
    BY <1>2, <1>3, <1>3a DEF FeedInv, AnswerCovers
  <1>9. QED
    BY <1>4, <1>5, <1>6, <1>7, <1>8 DEF FeedInv

(* An account of a new generation has neither a baseline nor a poll. *)
LEMMA GenerationFeed ==
  ASSUME TypeOK, PollerAimed, FeedInv, UNCHANGED <<tables, poller, inbox, baseline>>,
         account'.generation = account.generation + 1
  PROVE  FeedInv'
  <1> USE DEF tables, poller
  <1>0. /\ account.generation \in Nat
        /\ row # Null => row.generation \in Nat
        /\ pc \in {"fetching", "answered"} => poll.generation \in Nat
    BY DEF TypeOK, Accounts, TablesOK, PollerOK, Rows, Scans, Generations
  <1>1. row # Null => row.generation <= account.generation
    BY DEF FeedInv, PollTracksRow
  <1>2. pc = "answered" => poll.generation <= account.generation
    BY DEF PollerAimed
  <1>3. Answered' = Answered /\ Mails' = Mails /\ \A m, e : IdAt(m, e)' = IdAt(m, e)
    BY DEF Answered, Mails, IdAt
  <1>4. EventOncePerMail' /\ EpochsAgree' /\ EventsSeen' /\ IdsName'
    BY <1>3 DEF FeedInv, EventOncePerMail, EpochsAgree, EventsSeen, IdsName
  <1>5. PollTracksRow'
    BY <1>0, <1>1 DEF FeedInv, PollTracksRow
  <1>6. BaselineSeen'
    BY <1>0, <1>1 DEF BaselineSeen
  <1>7. AnswerCovers'
    BY <1>0, <1>2, <1>3, PlacesKept DEF FeedInv, AnswerCovers, OldMail
  <1>8. QED
    BY <1>4, <1>5, <1>6, <1>7 DEF FeedInv

(* Without a row there is nothing to claim. *)
LEMMA DeletedFeed ==
  ASSUME TypeOK, FeedInv, DeleteAccount
  PROVE  FeedInv'
  <1>1. /\ row' = Null /\ DOMAIN firstSeen' = {} /\ events' = {}
        /\ UNCHANGED <<pc, poll, answer, inbox, baseline>>
    BY DEF DeleteAccount, NothingSeen, poller, world, history
  <1>2. Answered' = Answered /\ Mails' = Mails /\ \A m, e : IdAt(m, e)' = IdAt(m, e)
    BY <1>1 DEF Answered, Mails, IdAt
  <1>3. EventOncePerMail' /\ EpochsAgree' /\ EventsSeen'
    BY <1>1 DEF FeedInv, EventOncePerMail, EpochsAgree, EventsSeen
  <1>4. IdsName'
    BY <1>1, <1>2 DEF FeedInv, IdsName
  <1>5. PollTracksRow' /\ BaselineSeen' /\ AnswerCovers'
    BY <1>1 DEF FeedInv, PollTracksRow, BaselineSeen, AnswerCovers
  <1>6. QED
    BY <1>3, <1>4, <1>5 DEF FeedInv

(* A fresh row has seen nothing, and its baseline begins with all the mail *)
(* there is: beginInboundScan and rebaselineInboundIdentity.               *)
LEMMA FreshFeed ==
  ASSUME TypeOK, FeedInv, poll.generation \in Nat,
         poll.generation <= account.generation,
         NEW start, NEW epoch, row' = NewScan(start, epoch),
         DOMAIN firstSeen' = {}, baseline' = Len(inbox),
         UNCHANGED <<account, events, inbox>>, pc' # "answered",
         pc' = "fetching" =>
           /\ poll'.generation = poll.generation /\ poll'.initialized = FALSE
           /\ poll'.cursor = Null /\ poll'.epoch = epoch /\ poll'.since = Null
  PROVE  FeedInv'
  <1>1. /\ row'.initialized = FALSE /\ row'.cursor = Null /\ row'.lastOk = 0
        /\ row'.generation = poll.generation /\ row'.epoch = epoch
    BY DEF NewScan
  <1>2. Answered' = {} /\ Mails' = Mails /\ \A m, e : IdAt(m, e)' = IdAt(m, e)
    BY DEF Answered, Mails, IdAt
  <1>3. EventOncePerMail' /\ EpochsAgree'
    BY <1>1 DEF FeedInv, EventOncePerMail, EpochsAgree
  <1>4. IdsName'
    BY <1>2 DEF FeedInv, IdsName
  <1>5. EventsSeen'
    <2>1. \A id \in events : id.mail \in Mails
      BY DEF FeedInv, IdsName
    <2>2. \A m \in Mails : m <= Len(inbox)
      BY DEF TypeOK, WorldOK, Mails
    <2>3. Len(inbox) <= Len(inbox)
      BY DEF TypeOK, WorldOK
    <2>4. QED
      BY <2>1, <2>2, <2>3 DEF EventsSeen
  <1>6. PollTracksRow'
    BY <1>1 DEF PollTracksRow
  <1>7. BaselineSeen' /\ AnswerCovers'
    BY <1>1 DEF BaselineSeen, AnswerCovers
  <1>8. QED
    BY <1>3, <1>4, <1>5, <1>6, <1>7 DEF FeedInv

(* beginInboundScan: a fresh row, or the row of the scan left open. *)
LEMMA BeginFeed ==
  ASSUME TypeOK, PollerAimed, FeedInv, BoundsAssumption, NullAssumption, BeginScan
  PROVE  FeedInv'
  <1> DEFINE started == IF row # Null /\ row.started # 0 THEN row.started
                                                         ELSE NextScanStart
             fresh == row = Null \/ row.generation # poll.generation
             next == IF fresh THEN NewScan(started, 0) ELSE ResumeScan(started)
  <1>1. /\ row' = next
        /\ firstSeen' = IF fresh THEN NothingSeen ELSE firstSeen
        /\ baseline' = IF fresh THEN Len(inbox) ELSE baseline
        /\ pc = "captured" /\ pc' = "fetching"
        /\ poll'.generation = poll.generation
        /\ poll'.initialized = next.initialized /\ poll'.cursor = next.cursor
        /\ poll'.epoch = next.epoch /\ poll'.since = Since(next)
        /\ UNCHANGED <<account, events, inbox>>
    BY DEF BeginScan, world
  <1>2. poll.generation \in Generations /\ poll.generation \in Nat
    BY <1>1 DEF TypeOK, PollerOK, Accounts, Generations
  <1>3. CASE fresh
    <2>1. row' = NewScan(started, 0) /\ DOMAIN firstSeen' = {} /\ baseline' = Len(inbox)
      BY <1>1, <1>3 DEF NothingSeen
    <2>2. /\ poll'.initialized = FALSE /\ poll'.cursor = Null /\ poll'.epoch = 0
          /\ poll'.since = Null
      BY <1>1, <1>3 DEF NewScan, Since
    <2>3. poll.generation <= account.generation
      BY <1>1 DEF PollerAimed
    <2> HIDE DEF started
    <2>4. QED
      BY <1>1, <1>2, <2>1, <2>2, <2>3, FreshFeed
  <1>4. CASE ~fresh
    <2>1. row \in Rows /\ row # Null /\ row.generation = poll.generation
      BY <1>4 DEF TypeOK, TablesOK
    <2>2. row' = ResumeScan(started) /\ firstSeen' = firstSeen /\ baseline' = baseline
      BY <1>1, <1>4
    <2>3. next = row'
      BY <1>1
    <2>4. started \in Stamps
      BY <2>1, NextStartType DEF Rows
    <2> HIDE DEF started, next, fresh
    <2>5. row' \in Rows
      <3>1. 0 \in Epochs
        BY BoundsAssumption DEF Epochs, BoundsAssumption
      <3>2. QED
        BY <1>2, <2>1, <2>2, <2>4, <3>1, ScanRowTypes, BoundsAssumption
    <2>6. row' # Null
      BY <2>5, NullAssumption DEF NullAssumption
    <2>7. /\ row'.initialized = row.initialized /\ row'.cursor = row.cursor
          /\ row'.epoch = row.epoch /\ row'.generation = row.generation
          /\ row'.lastOk = row.lastOk
      BY <2>1, <2>2 DEF ResumeScan, Rows
    <2>8. Answered' = {} /\ Mails' = Mails /\ \A m, e : IdAt(m, e)' = IdAt(m, e)
      BY <1>1 DEF Answered, Mails, IdAt
    <2>9. EventOncePerMail' /\ EventsSeen'
      BY <1>1, <2>2 DEF FeedInv, EventOncePerMail, EventsSeen
    <2>10. IdsName'
      BY <1>1, <2>2, <2>8 DEF FeedInv, IdsName
    <2>11. EpochsAgree'
      BY <1>1, <2>1, <2>2, <2>6, <2>7 DEF FeedInv, EpochsAgree
    <2>12. PollTracksRow'
      <3>1. ~row.initialized => Since(next) = Null
        BY <2>1, <2>3, <2>7 DEF FeedInv, PollTracksRow, Since
      <3>2. QED
        BY <1>1, <2>1, <2>3, <2>7, <3>1 DEF FeedInv, PollTracksRow
    <2>13. BaselineSeen'
      BY <1>1, <2>1, <2>2, <2>7, <2>8, PlacesKept DEF FeedInv, BaselineSeen, OldMail
    <2>14. AnswerCovers'
      BY <1>1 DEF AnswerCovers
    <2>15. QED
      BY <2>9, <2>10, <2>11, <2>12, <2>13, <2>14 DEF FeedInv
  <1>5. QED
    BY <1>3, <1>4

(* An answer, faithful or garbled, of the mailbox the poll reads. *)
LEMMA FetchFeed ==
  ASSUME TypeOK, PollerAimed, FeedInv, SizesAssumption, BoundsAssumption,
         NullAssumption, FetchPage \/ FetchGarbled
  PROVE  FeedInv'
  <1>0. PICK page : page = Page(poll.mailbox, poll.since, poll.cursor)
    OBVIOUS
  <1>1. /\ pc = "fetching" /\ pc' = "answered"
        /\ UNCHANGED <<account, row, firstSeen, events, poll, inbox, baseline>>
    BY DEF FetchPage, FetchGarbled, tables, world, history
  <1>2. poll \in Scans /\ poll.mailbox \in Mailboxes
    BY <1>1 DEF TypeOK, PollerOK, Scans
  <1>3. page \in Answers
    BY <1>0, <1>2, PageType
  <1>4. /\ answer'.items = page.items
        /\ \/ answer'.next = page.next /\ answer'.epoch = page.epoch
           \/ answer'.next \in poll.cursors /\ answer'.epoch = page.epoch
           \/ poll.epoch # 0 /\ answer'.epoch = 0
    <2>1. \/ answer' = page
          \/ \E c \in poll.cursors : answer' = [page EXCEPT !.next = c]
          \/ poll.epoch # 0 /\ answer' = [page EXCEPT !.epoch = 0]
      BY <1>0 DEF FetchPage, FetchGarbled
    <2>2. QED
      BY <1>3, <2>1 DEF Answers
  <1>5. /\ page.epoch = Epoch
        /\ \A id \in page.items :
             /\ id.mail \in Mails /\ id = IdAt(id.mail, Epoch)
             /\ inbox[id.mail].mailbox = poll.mailbox
             /\ inbox[id.mail].present /\ inbox[id.mail].received
        /\ poll.since = Null =>
             \A m \in Mails :
               /\ inbox[m].mailbox = poll.mailbox
               /\ inbox[m].present /\ inbox[m].received
               /\ poll.cursor = Null \/ Place(m) < poll.cursor.place
               /\ page.next = Null \/ Place(m) >= page.next.place
               => IdAt(m, Epoch) \in page.items
    BY <1>0, <1>2, PageFeed
  <1>6. HasEpochs <=> Epoch # 0
    BY <1>2, EpochFacts
  <1>7. \A id \in page.items : id.epoch = page.epoch /\ id = IdAt(id.mail, id.epoch)
    BY <1>5 DEF IdAt
  <1>8. Answered' = page.items /\ Mails' = Mails /\ \A m, e : IdAt(m, e)' = IdAt(m, e)
    BY <1>1, <1>4 DEF Answered, Mails, IdAt
  <1>9. EventOncePerMail' /\ EventsSeen' /\ BaselineSeen'
    BY <1>1, <1>8, PlacesKept DEF FeedInv, EventOncePerMail, EventsSeen, BaselineSeen, OldMail
  <1>10. IdsName'
    BY <1>1, <1>5, <1>6, <1>7, <1>8 DEF FeedInv, IdsName
  <1>11. EpochsAgree'
    BY <1>1, <1>4, <1>5, <1>6, <1>7 DEF FeedInv, EpochsAgree
  <1>12. PollTracksRow'
    BY <1>1 DEF FeedInv, PollTracksRow
  <1>13. AnswerCovers'
    <2> SUFFICES ASSUME row # Null
                 PROVE  AnswerCovers'
      BY <1>1 DEF AnswerCovers
    <2>1. ASSUME poll.initialized, account.generation = poll.generation,
                 NEW id \in page.items, id.mail <= baseline, id.epoch = row.epoch
          PROVE  id \in DOMAIN firstSeen
      <3>1. poll.mailbox = account.mailbox
        BY <1>1, <2>1 DEF PollerAimed
      <3>2. row.initialized /\ row.generation = account.generation
        BY <1>1, <2>1 DEF FeedInv, PollTracksRow
      <3>3. id.mail \in Mails /\ OldMail(id.mail) /\ inbox[id.mail].mailbox = account.mailbox
        BY <1>5, <2>1, <3>1 DEF OldMail
      <3>4. IdAt(id.mail, row.epoch) \in DOMAIN firstSeen
        BY <3>2, <3>3 DEF FeedInv, BaselineSeen
      <3>5. QED
        BY <1>7, <2>1, <3>4
    <2>2. ASSUME ~poll.initialized, answer'.next \notin poll.cursors,
                 ~(poll.epoch # 0 /\ answer'.epoch = 0),
                 NEW m \in Mails, OldMail(m), inbox[m].mailbox = poll.mailbox,
                 poll.cursor = Null \/ Place(m) < poll.cursor.place,
                 answer'.next = Null \/ Place(m) >= answer'.next.place
          PROVE  IdAt(m, answer'.epoch) \in page.items
      <3>1. answer'.next = page.next /\ answer'.epoch = page.epoch
        BY <1>4, <2>2
      <3>2. poll.since = Null
        BY <1>1, <2>2 DEF FeedInv, PollTracksRow
      <3>3. QED
        BY <1>5, <2>2, <3>1, <3>2 DEF OldMail
    <2>3. \A m \in Mails : OldMail(m)' <=> OldMail(m)
      BY <1>1 DEF OldMail
    <2>4. QED
      BY <1>1, <1>4, <1>8, <2>1, <2>2, <2>3, PlacesKept DEF AnswerCovers
  <1>14. QED
    BY <1>9, <1>10, <1>11, <1>12, <1>13 DEF FeedInv

(* rebaselineInboundIdentity *)
LEMMA RebaselineFeed ==
  ASSUME TypeOK, FeedInv, Rebaseline
  PROVE  FeedInv'
  <1>1. /\ pc = "answered" /\ pc' = "idle" /\ poll.generation = account.generation
        /\ row' = NewScan(NextScanStart, answer.epoch)
        /\ DOMAIN firstSeen' = {} /\ baseline' = Len(inbox)
        /\ UNCHANGED <<account, events, inbox>>
    BY DEF Rebaseline, HandlingPage, AccountUnchanged, NothingSeen, Stop, world
  <1>2. poll.generation \in Nat /\ poll.generation <= account.generation
    BY <1>1 DEF TypeOK, PollerOK, Scans, Generations
  <1>3. QED
    BY <1>1, <1>2, FreshFeed

(* A page that is committed is of one epoch, and so is what was seen       *)
(* before it; once there is a baseline that epoch is the row's.            *)
LEMMA PageEpochs ==
  ASSUME TypeOK, FeedInv, RecordPage
  PROVE  /\ row \in Rows
         /\ HasEpochs <=> answer.epoch # 0
         /\ (IF answer.epoch # 0 THEN answer.epoch ELSE poll.epoch) = answer.epoch
         /\ \A id \in answer.items \cup DOMAIN firstSeen : id.epoch = answer.epoch
         /\ row.initialized => row.epoch = answer.epoch
  <1>1. /\ pc = "answered" /\ row # Null /\ row.epoch = poll.epoch
        /\ poll.epoch = 0 \/ answer.epoch # 0
        /\ poll.epoch = 0 \/ answer.epoch = 0 \/ answer.epoch = poll.epoch
    BY DEF RecordPage, HandlingPage, EpochDisappeared, EpochChanged, MayCommit,
           ScanUnchanged
  <1>2. /\ HasEpochs => answer.epoch # 0 \/ poll.epoch # 0
        /\ ~HasEpochs => answer.epoch = 0
        /\ answer.epoch # 0 => \A id \in answer.items : id.epoch = answer.epoch
        /\ \A id \in DOMAIN firstSeen : id.epoch = row.epoch
        /\ HasEpochs /\ row.initialized => row.epoch # 0
    BY <1>1 DEF FeedInv, EpochsAgree
  <1>3. \A id \in answer.items \cup DOMAIN firstSeen : HasEpochs <=> id.epoch # 0
    BY <1>1 DEF FeedInv, IdsName, Answered
  <1>4. HasEpochs <=> answer.epoch # 0
    BY <1>1, <1>2
  <1>5. \A id \in answer.items \cup DOMAIN firstSeen : id.epoch = answer.epoch
    BY <1>1, <1>2, <1>3, <1>4
  <1>6. QED
    BY <1>1, <1>2, <1>4, <1>5 DEF TypeOK, TablesOK

(* recordInboundPage announces mail that has arrived since the baseline    *)
(* began, and that no event of another id has announced.                   *)
LEMMA PagePublishes ==
  ASSUME TypeOK, FeedInv, RecordPage, NEW id \in Published
  PROVE  /\ poll.initialized /\ id \in answer.items \ DOMAIN firstSeen
         /\ id.mail > baseline
         /\ \A i \in events : i.mail # id.mail
  <1>1. poll.initialized /\ id \in answer.items \ DOMAIN firstSeen
    BY DEF RecordPage, Published
  <1>2. /\ pc = "answered" /\ row # Null /\ row.initialized
        /\ account.generation = poll.generation
    BY <1>1 DEF RecordPage, HandlingPage, MayCommit, AccountUnchanged,
                ScanUnchanged, FeedInv, PollTracksRow
  <1>3. id.epoch = answer.epoch /\ row.epoch = answer.epoch
    BY <1>1, <1>2, PageEpochs
  <1>4. ~(id.mail <= baseline)
    BY <1>1, <1>2, <1>3 DEF FeedInv, AnswerCovers
  <1>5. id.mail \in Nat /\ baseline \in Nat
    BY <1>1, <1>2 DEF TypeOK, PollerOK, Answers, Ids, HistoryOK, Numbers
  <1>6. ASSUME NEW i \in events, i.mail = id.mail
        PROVE  FALSE
    <2>1. i \in DOMAIN firstSeen
      BY <1>4, <1>6 DEF FeedInv, EventsSeen
    <2>2. i.epoch = id.epoch
      BY <1>3, <2>1, PageEpochs
    <2>3. i = IdAt(i.mail, i.epoch) /\ id = IdAt(id.mail, id.epoch)
      BY <1>1, <1>2 DEF FeedInv, IdsName, Answered
    <2>4. QED
      BY <1>1, <1>6, <2>1, <2>2, <2>3
  <1>7. QED
    BY <1>1, <1>4, <1>5, <1>6

(* A page of the baseline adds what was missing between its two cursors. *)
LEMMA PageKeepsBaseline ==
  ASSUME TypeOK, PollerAimed, FeedInv, NullAssumption, RecordPage,
         NEW m \in Mails, OldMail(m), inbox[m].mailbox = account.mailbox,
         row'.initialized \/ (row'.cursor # Null /\ Place(m) >= row'.cursor.place)
  PROVE  IdAt(m, answer.epoch) \in DOMAIN firstSeen \cup answer.items
  <1>1. /\ pc = "answered" /\ account.generation = poll.generation
        /\ row # Null /\ row.cursor = poll.cursor /\ row.generation = poll.generation
        /\ row.initialized = poll.initialized
        /\ poll.mailbox = account.mailbox
        /\ ~(poll.epoch # 0 /\ answer.epoch = 0)
        /\ poll \in Scans /\ answer \in Answers /\ row \in Rows
    BY PageEpochs DEF RecordPage, HandlingPage, MayCommit, AccountUnchanged,
           ScanUnchanged, FeedInv, PollTracksRow, PollerAimed, EpochDisappeared,
           TypeOK, PollerOK
  <1>2. ASSUME row.initialized \/ (row.cursor # Null /\ Place(m) >= row.cursor.place)
        PROVE  IdAt(m, answer.epoch) \in DOMAIN firstSeen
    <2>1. IdAt(m, row.epoch) \in DOMAIN firstSeen
      BY <1>1, <1>2 DEF FeedInv, BaselineSeen
    <2>2. IdAt(m, row.epoch).epoch = row.epoch
      BY DEF IdAt
    <2>3. row.epoch = answer.epoch
      BY <2>1, <2>2, PageEpochs
    <2>4. QED
      BY <2>1, <2>3
  <1>3. ASSUME ~row.initialized, row.cursor = Null \/ ~(Place(m) >= row.cursor.place)
        PROVE  IdAt(m, answer.epoch) \in answer.items
    <2>1. Place(m) \in Int /\ (row.cursor # Null => row.cursor.place \in Int)
      BY <1>1, PlaceType, BoundsAssumption DEF TypeOK, TablesOK, Rows, Cursors, Marks
    <2>2. poll.cursor = Null \/ Place(m) < poll.cursor.place
      BY <1>1, <1>3, <2>1
    <2>3. answer.next = Null \/ (answer.next \notin poll.cursors /\ Place(m) >= answer.next.place)
      <3>1. CASE Complete
        BY <1>1, <1>3, <3>1 DEF Complete, ReachedSeenBoundary
      <3>2. CASE ~Complete
        <4>1. row' = [row EXCEPT !.cursor = answer.next,
                        !.epoch = IF answer.epoch # 0 THEN answer.epoch ELSE poll.epoch,
                        !.updated = Larger(now, poll.started)]
          BY <3>2 DEF RecordPage
        <4>2. row'.cursor = answer.next /\ row'.initialized = row.initialized
          BY <1>1, <4>1 DEF Rows
        <4>3. answer.next \notin poll.cursors
          BY <3>2 DEF RecordPage, RepeatedCursor
        <4>4. QED
          BY <1>3, <4>2, <4>3
      <3>3. QED
        BY <3>1, <3>2
    <2>4. answer.next \notin poll.cursors
      BY <1>1, <2>3, NullAssumption DEF NullAssumption, Scans
    <2>5. QED
      BY <1>1, <1>3, <2>2, <2>3, <2>4 DEF FeedInv, AnswerCovers
  <1>4. QED
    BY <1>2, <1>3

(* recordInboundPage *)
LEMMA RecordFeed ==
  ASSUME TypeOK, PollerAimed, FeedInv, NullAssumption, RecordPage
  PROVE  FeedInv'
  <1> DEFINE epoch == IF answer.epoch # 0 THEN answer.epoch ELSE poll.epoch
  <1>1. /\ pc = "answered" /\ pc' \in {"idle", "fetching"}
        /\ answer.items \subseteq Ids
        /\ DOMAIN firstSeen' = DOMAIN firstSeen \cup answer.items
        /\ events' = events \cup Published
        /\ account.generation = poll.generation
        /\ row # Null /\ row.generation = poll.generation
        /\ row.initialized = poll.initialized
        /\ row \in Rows /\ poll \in Scans /\ epoch = answer.epoch
        /\ UNCHANGED <<account, inbox, baseline>>
    BY PageEpochs DEF RecordPage, HandlingPage, MayCommit, AccountUnchanged,
           ScanUnchanged, FeedInv, PollTracksRow, TypeOK, PollerOK, Answers,
           See, Stop, Published, world, history
  <1>2. /\ row'.generation = row.generation /\ row'.epoch = answer.epoch
        /\ ~row'.initialized => ~row.initialized /\ row'.lastOk = row.lastOk
        /\ row' # Null
        /\ pc' = "fetching" =>
             /\ poll'.generation = poll.generation /\ poll'.since = poll.since
             /\ poll'.initialized = poll.initialized
             /\ row'.initialized = row.initialized
             /\ row'.cursor = answer.next /\ poll'.cursor = answer.next
             /\ poll'.epoch = answer.epoch
    <2>1. CASE Complete
      <3>1. /\ row' = [row EXCEPT !.initialized = TRUE,
                         !.lastOk = ScannedUntil, !.cursor = Null,
                         !.started = 0, !.epoch = epoch,
                         !.updated = Larger(now, poll.started)]
            /\ pc' = "idle"
        BY <2>1 DEF RecordPage, Stop
      <3> HIDE DEF epoch
      <3>2. /\ row'.initialized = TRUE /\ row'.epoch = epoch
            /\ row'.generation = row.generation /\ "lastOk" \in DOMAIN row'
        BY <1>1, <3>1 DEF Rows
      <3>3. row' # Null
        <4>1. row' \in Rows
          <5>1. ScannedUntil \in Stamps /\ Larger(now, poll.started) \in Stamps
            BY <1>1 DEF ScannedUntil, Scans, Larger, TypeOK, WorldOK, Stamps
          <5>2. epoch \in Epochs
            BY <1>1 DEF TypeOK, PollerOK, Answers
          <5>3. QED
            BY <1>1, <3>1, <5>1, <5>2 DEF Rows, Cursors, Stamps
        <4>2. QED
          BY <4>1, NullAssumption DEF NullAssumption
      <3>4. QED
        BY <1>1, <3>1, <3>2, <3>3
    <2>2. CASE ~Complete
      <3>1. /\ row' = [row EXCEPT !.cursor = answer.next, !.epoch = epoch,
                         !.updated = Larger(now, poll.started)]
            /\ \/ pc' = "idle"
               \/ poll' = [poll EXCEPT !.epoch = epoch,
                     !.cursor = answer.next, !.pages = @ + 1,
                     !.cursors = @ \cup {answer.next}]
        BY <2>2 DEF RecordPage, Stop
      <3> HIDE DEF epoch
      <3>2. /\ row'.initialized = row.initialized /\ row'.lastOk = row.lastOk
            /\ row'.epoch = epoch /\ row'.generation = row.generation
            /\ row'.cursor = answer.next
        BY <1>1, <3>1 DEF Rows
      <3>3. row' # Null
        <4>1. answer.next \in Cursors /\ epoch \in Epochs
          BY <1>1 DEF TypeOK, PollerOK, Answers
        <4>2. Larger(now, poll.started) \in Stamps
          BY <1>1 DEF Scans, Larger, TypeOK, WorldOK, Stamps
        <4>3. row' \in Rows
          BY <1>1, <3>1, <4>1, <4>2 DEF Rows
        <4>4. QED
          BY <4>3, NullAssumption DEF NullAssumption
      <3>4. pc' = "fetching" =>
              /\ poll'.generation = poll.generation /\ poll'.since = poll.since
              /\ poll'.initialized = poll.initialized
              /\ poll'.cursor = answer.next /\ poll'.epoch = epoch
        BY <1>1, <3>1 DEF Scans
      <3>5. QED
        BY <1>1, <3>2, <3>3, <3>4
    <2>3. QED
      BY <2>1, <2>2
  <1> HIDE DEF epoch
  <1>3. Answered' = {} /\ Mails' = Mails /\ \A m, e : IdAt(m, e)' = IdAt(m, e)
    BY <1>1 DEF Answered, Mails, IdAt
  <1>4. Published \subseteq answer.items \ DOMAIN firstSeen
    BY PagePublishes
  <1>5. /\ HasEpochs <=> answer.epoch # 0
        /\ \A id \in answer.items \cup DOMAIN firstSeen : id.epoch = answer.epoch
    BY PageEpochs
  <1>6. \A id \in events \cup DOMAIN firstSeen \cup answer.items :
          /\ id.mail \in Mails /\ id = IdAt(id.mail, id.epoch)
          /\ HasEpochs <=> id.epoch # 0
    BY <1>1 DEF FeedInv, IdsName, Answered
  <1>7. EventOncePerMail'
    <2>1. ASSUME NEW i \in events', NEW j \in events', i.mail = j.mail
          PROVE  i = j
      <3>1. CASE i \in events /\ j \in events
        BY <2>1, <3>1 DEF FeedInv, EventOncePerMail
      <3>2. CASE i \in Published /\ j \in Published
        <4>1. i.epoch = j.epoch /\ i = IdAt(i.mail, i.epoch) /\ j = IdAt(j.mail, j.epoch)
          BY <1>4, <1>5, <1>6, <3>2
        <4>2. QED
          BY <2>1, <4>1
      <3>3. QED
        BY <1>1, <2>1, <3>1, <3>2, PagePublishes
    <2>2. QED
      BY <2>1 DEF EventOncePerMail
  <1>8. IdsName'
    BY <1>1, <1>3, <1>4, <1>6 DEF IdsName
  <1>9. EpochsAgree'
    BY <1>1, <1>2, <1>5 DEF EpochsAgree
  <1>10. PollTracksRow'
    BY <1>1, <1>2 DEF FeedInv, PollTracksRow
  <1>11. EventsSeen'
    BY <1>1, <1>4 DEF FeedInv, EventsSeen
  <1>12. BaselineSeen'
    BY <1>1, <1>2, <1>3, PageKeepsBaseline, PlacesKept DEF BaselineSeen, OldMail
  <1>13. AnswerCovers'
    BY <1>1 DEF AnswerCovers
  <1>14. QED
    BY <1>7, <1>8, <1>9, <1>10, <1>11, <1>12, <1>13 DEF FeedInv

(* The catch block. *)
LEMMA FailFeed ==
  ASSUME TypeOK, FeedInv, NullAssumption, FailScan, UNCHANGED <<account, inbox>>
  PROVE  FeedInv'
  <1>1. /\ pc' = "idle" /\ UNCHANGED <<firstSeen, events, inbox, baseline>>
        /\ \/ row' = row
           \/ row # Null /\ row' = [row EXCEPT !.cursor = Null, !.updated = now]
    BY DEF FailScan, MarkError, Stop, history
  <1>2. row # Null => row' # Null
    <2>1. row' \in Rows \cup {Null} /\ (row # Null => row' \in Rows)
      BY <1>1 DEF TypeOK, TablesOK, WorldOK, Rows, Cursors, Stamps
    <2>2. QED
      BY <2>1, NullAssumption DEF NullAssumption
  <1>3. QED
    BY <1>1, <1>2, QuietFeed

(* A step that leaves the tables alone and has no page in hand. *)
LEMMA IdleFeed ==
  ASSUME TypeOK, FeedInv, pc' \notin {"fetching", "answered"},
         UNCHANGED <<account, tables, inbox, baseline>>
  PROVE  FeedInv'
  BY QuietFeed DEF tables

(* Every step of the poller keeps the feed. *)
LEMMA PollFeed ==
  ASSUME TypeOK, PollerAimed, FeedInv, Poll
  PROVE  FeedInv'
  <1> USE SizesAssumption, BoundsAssumption, NullAssumption
  <1>1. CASE ListAccounts \/ CaptureAccount \/ SnapshotTaken \/ BeginScanForNobody
             \/ ScanStateChanged
    BY <1>1, IdleFeed DEF ListAccounts, CaptureAccount, SnapshotTaken,
       BeginScanForNobody, ScanStateChanged, Stop, tables, world, history
  <1>2. CASE BeginScan
    BY <1>2, BeginFeed
  <1>3. CASE FetchPage
    BY <1>3, FetchFeed
  <1>4. CASE CursorRefused \/ PageIsFaulty
    BY <1>4, FailFeed DEF CursorRefused, PageIsFaulty, world
  <1>5. CASE Rebaseline
    BY <1>5, RebaselineFeed
  <1>6. CASE RecordPage
    BY <1>6, RecordFeed
  <1>7. QED
    BY <1>1, <1>2, <1>3, <1>4, <1>5, <1>6 DEF Poll

(* The mailbox changes, and the clock. *)
LEMMA WorldFeed ==
  ASSUME TypeOK, FeedInv, Mail \/ Tick
  PROVE  FeedInv'
  <1>0. inbox \in Seq(Letters)
    BY DEF TypeOK, WorldOK
  <1>1. ASSUME NEW b \in Mailboxes, NEW d, NEW received, Arrive(b, d, received)
        PROVE  FeedInv'
    <2> DEFINE letter == [mailbox |-> b, date |-> d, present |-> TRUE,
                          received |-> received]
    <2>1. /\ inbox' = Append(inbox, letter)
          /\ UNCHANGED <<account, tables, poller, baseline>>
      BY <1>1 DEF Arrive, history
    <2> HIDE DEF letter
    <2>2. Len(inbox') = Len(inbox) + 1 /\ \A m \in Mails : inbox'[m] = inbox[m]
      BY <1>0, <2>1 DEF Mails
    <2>3. Mails = 1 .. Len(inbox) /\ Mails' = 1 .. (Len(inbox) + 1)
      BY <1>0, <2>1, <2>2 DEF Mails
    <2>4. Len(inbox) \in Nat
      BY <1>0
    <2>5. Len(inbox) <= Len(inbox') /\ Mails \subseteq Mails'
          /\ \A m \in Mails' \ Mails : m > Len(inbox)
      BY <2>2, <2>3, <2>4
    <2>6. QED
      BY <2>1, <2>2, <2>5, MailFeed
  <1>2. ASSUME NEW m \in Mails, Remove(m)
        PROVE  FeedInv'
    <2>1. /\ inbox' = [inbox EXCEPT ![m].present = FALSE]
          /\ UNCHANGED <<account, tables, poller, baseline>>
      BY <1>2 DEF Remove, history
    <2>2. \A n \in Mails : inbox[n] \in Letters
      BY <1>0 DEF Mails
    <2>3. /\ DOMAIN inbox' = DOMAIN inbox
          /\ \A n \in Mails : /\ inbox'[n].mailbox = inbox[n].mailbox
                              /\ inbox'[n].received = inbox[n].received
                              /\ inbox'[n].date = inbox[n].date
                              /\ inbox'[n].present => inbox[n].present
      BY <1>0, <2>1, <2>2 DEF Mails, Letters
    <2>4. Len(inbox') = Len(inbox) /\ Len(inbox) \in Nat
      BY <1>0, <2>1
    <2>5. QED
      BY <2>1, <2>3, <2>4, MailFeed DEF Mails
  <1>3. CASE Rebuild \/ Tick
    <2>1. UNCHANGED <<account, tables, poller, inbox, baseline>>
      BY <1>3 DEF Rebuild, Tick, history
    <2>2. Len(inbox) \in Nat
      BY <1>0
    <2>3. QED
      BY <2>1, <2>2, MailFeed DEF Mails
  <1>4. QED
    BY <1>1, <1>2, <1>3 DEF Mail

(* The rest of the steps. *)
LEMMA FeedPreserved ==
  ASSUME TypeOK, PollerAimed, FeedInv, [Next]_vars
  PROVE  FeedInv'
  <1> USE SizesAssumption, BoundsAssumption, NullAssumption
  <1>1. CASE Poll
    BY <1>1, PollFeed
  <1>2. CASE FetchFails
    BY <1>2, FailFeed DEF FetchFails
  <1>3. CASE FetchGarbled
    BY <1>3, FetchFeed
  <1>4. CASE Crash
    BY <1>4, IdleFeed DEF Crash, Stop, tables, history
  <1>5. CASE Admin
    <2>1. CASE SetEnabled \/ \E b \in Mailboxes : Reconfigure(b)
      <3>1. account'.generation = account.generation + 1
        BY <2>1 DEF SetEnabled, Reconfigure, NextGeneration, TypeOK, Accounts
      <3>2. QED
        BY <2>1, <3>1, GenerationFeed DEF SetEnabled, Reconfigure, world, history
    <2>2. CASE DeleteAccount
      BY <2>2, DeletedFeed
    <2>3. QED
      BY <1>5, <2>1, <2>2 DEF Admin
  <1>6. CASE Mail \/ Tick
    BY <1>6, WorldFeed
  <1>7. CASE UNCHANGED vars
    <2>1. UNCHANGED <<account, tables, poller, inbox, baseline>> /\ Len(inbox) \in Nat
      BY <1>7 DEF vars, tables, poller, TypeOK, WorldOK
    <2>2. QED
      BY <2>1, MailFeed DEF Mails
  <1>8. QED
    BY <1>1, <1>2, <1>3, <1>4, <1>5, <1>6, <1>7 DEF Next

(* The inductive invariant of the feed. *)
THEOREM FeedInvariant == Spec => []FeedInv
  <1>1. Init => FeedInv
    BY DEF Init, FeedInv, EventOncePerMail, IdsName, EpochsAgree, PollTracksRow,
           EventsSeen, BaselineSeen, AnswerCovers, Answered, NothingSeen
  <1>2. QED
    BY <1>1, FeedPreserved, InboundTypeCorrect, PollerAimedHolds, PTL DEF Spec

(* No mail is ever announced twice. *)
THEOREM EventOncePerMailHolds == Spec => []EventOncePerMail
  <1>1. FeedInv => EventOncePerMail
    BY DEF FeedInv
  <1>2. QED
    BY <1>1, FeedInvariant, PTL

(* No mail that was there when the baseline began is ever announced. *)
THEOREM BaselineSilentHolds == Spec => BaselineSilent
  <1>1. TypeOK /\ FeedInv /\ [Next]_vars =>
          [\A id \in Published : id.mail > baseline]_vars
    BY OnlyPagesPublish, PagePublishes
  <1>2. QED
    BY <1>1, InboundTypeCorrect, FeedInvariant, PTL DEF Spec, BaselineSilent
-------------------------------------------------------------------------------
(* The account that the poller is told about. *)

(* Whatever step AccountVersions allows an account's row, the              *)
(* administrator of this module takes too, so that nothing the registry    *)
(* does to a row is left out of what is shown of the poller.  The bound on *)
(* generations apart, which account' \in Accounts states; what a deleted   *)
(* row held no longer matters.                                             *)
THEOREM AdminTakesVersions ==
  ASSUME TypeOK, account' \in Accounts, Version!VersionsNext,
         UNCHANGED <<poller, world, history>>,
         IF account'.state = "deleted"
           THEN /\ UNCHANGED <<account.generation, account.mailbox>>
                /\ row' = Null /\ firstSeen' = NothingSeen /\ events' = {}
           ELSE UNCHANGED tables
  PROVE  Admin
  <1>1. /\ account \in Accounts
        /\ account.generation \in Nat /\ account'.generation \in Nat
        /\ account'.generation <= MaxGeneration /\ MaxGeneration \in Nat
    BY BoundsAssumption DEF TypeOK, Accounts, Generations, BoundsAssumption
  <1>2. account.state # "none"
    BY <1>1 DEF Accounts
  <1>3. ~Version!Add
    BY <1>2 DEF Version!Add
  <1>4. ASSUME Version!Switch
        PROVE  Admin
    <2>1. /\ account.state \in {"enabled", "disabled"}
          /\ account'.state = IF account.state = "enabled" THEN "disabled" ELSE "enabled"
          /\ account'.generation = account.generation + 1
          /\ account'.mailbox = account.mailbox
      BY <1>4 DEF Version!Switch, Version!Live
    <2>2. account' = [account EXCEPT
                        !.state = IF @ = "enabled" THEN "disabled" ELSE "enabled",
                        !.generation = @ + 1]
      BY <1>1, <2>1 DEF Accounts
    <2>3. MayChange
      BY <1>1, <2>1 DEF MayChange
    <2>4. SetEnabled
      BY <2>1, <2>2, <2>3 DEF SetEnabled
    <2>5. QED
      BY <2>4 DEF Admin
  <1>5. ASSUME Version!Repoint
        PROVE  Admin
    <2>1. /\ account.state \in {"enabled", "disabled"}
          /\ account'.state = account.state
          /\ account'.generation = account.generation + 1
      BY <1>5 DEF Version!Repoint, Version!Live
    <2>2. PICK b \in Mailboxes : b = account'.mailbox
      BY DEF Accounts
    <2>3. account' = [account EXCEPT !.mailbox = b,
                                     !.generation = NextGeneration(account)]
      BY <1>1, <2>1, <2>2 DEF Accounts, NextGeneration
    <2>4. MayChange
      BY <1>1, <2>1 DEF MayChange
    <2>5. Reconfigure(b)
      BY <2>1, <2>3, <2>4 DEF Reconfigure
    <2>6. QED
      BY <2>5 DEF Admin
  <1>6. ASSUME Version!Remove
        PROVE  Admin
    <2>1. account.state # "deleted" /\ account'.state = "deleted"
      BY <1>6 DEF Version!Remove, Version!Live
    <2>2. account' = [account EXCEPT !.state = "deleted"]
      BY <1>1, <2>1 DEF Accounts
    <2>3. DeleteAccount
      BY <2>1, <2>2 DEF DeleteAccount
    <2>4. QED
      BY <2>3 DEF Admin
  <1>7. QED
    BY <1>3, <1>4, <1>5, <1>6 DEF Version!VersionsNext

(* And it takes no other: the poller is shown the rows of AccountVersions. *)
THEOREM AccountIsVersioned == Spec => AccountVersioned
  <1>1. Init => Version!VersionsInit
    <2> SUFFICES ASSUME Init
                 PROVE  Version!VersionsInit
      OBVIOUS
    <2>1. account.state = "enabled" /\ account.generation = 1
      BY DEF Init
    <2>2. QED
      BY <2>1 DEF Version!VersionsInit
  <1>2. TypeOK /\ [Next]_vars => [Version!VersionsNext]_(Version!versionVars)
    <2> SUFFICES ASSUME TypeOK, [Next]_vars
                 PROVE  [Version!VersionsNext]_(Version!versionVars)
      OBVIOUS
    <2>1. account \in Accounts
      BY DEF TypeOK
    <2>2. CASE SetEnabled
      <3>1. /\ account.state \in {"enabled", "disabled"}
            /\ account'.state = IF account.state = "enabled" THEN "disabled" ELSE "enabled"
            /\ account'.generation = account.generation + 1
            /\ account'.mailbox = account.mailbox
        BY <2>1, <2>2 DEF SetEnabled, MayChange, Accounts
      <3>2. Version!Switch
        BY <3>1 DEF Version!Switch, Version!Live
      <3>3. QED
        BY <3>2 DEF Version!VersionsNext
    <2>3. ASSUME NEW b \in Mailboxes, Reconfigure(b)
          PROVE  [Version!VersionsNext]_(Version!versionVars)
      <3>1. /\ account.state \in {"enabled", "disabled"}
            /\ account'.state = account.state
            /\ account'.generation = account.generation + 1
        BY <2>1, <2>3 DEF Reconfigure, MayChange, NextGeneration, Accounts
      <3>2. Version!Repoint
        BY <3>1 DEF Version!Repoint, Version!Live
      <3>3. QED
        BY <3>2 DEF Version!VersionsNext
    <2>4. CASE DeleteAccount
      <3>1. account.state \in {"enabled", "disabled"} /\ account'.state = "deleted"
        BY <2>1, <2>4 DEF DeleteAccount, Accounts
      <3>2. Version!Remove
        BY <3>1 DEF Version!Remove, Version!Live
      <3>3. QED
        BY <3>2 DEF Version!VersionsNext
    <2>5. CASE UNCHANGED account
      BY <2>5 DEF Version!versionVars
    <2>6. Admin \/ UNCHANGED account
      BY DEF Next, vars, Poll, ListAccounts, CaptureAccount, SnapshotTaken, BeginScan,
         BeginScanForNobody, FetchPage, CursorRefused, PageIsFaulty, Rebaseline,
         ScanStateChanged, RecordPage, FetchFails, FetchGarbled, Crash, Mail, Arrive,
         Remove, Rebuild, Tick
    <2>7. QED
      BY <2>2, <2>3, <2>4, <2>5, <2>6 DEF Admin
  <1>3. QED
    BY <1>1, <1>2, InboundTypeCorrect, PTL DEF Spec, AccountVersioned, Version!VersionsSpec
===============================================================================
