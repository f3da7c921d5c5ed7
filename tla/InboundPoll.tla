------------------------------ MODULE InboundPoll ------------------------------
(***************************************************************************)
(* Discovery of new mail: InboundEventService.runPoll for one account, the *)
(* inbound_* tables it commits to, the mailbox it reads, and the           *)
(* administrator who disables, repoints and deletes the account while the  *)
(* poller waits for the provider.                                          *)
(*                                                                         *)
(* runPoll serves the accounts one after the other and what it does for    *)
(* one touches no row of another, so one account is enough.  Polls never   *)
(* overlap (pollNow hands out the poll in flight), so the poller has one   *)
(* program counter.  An action is everything between two awaits: the       *)
(* provider snapshot and every page are awaited.                           *)
(*                                                                         *)
(* A mail is its number in the order of arrival, and its date may lag      *)
(* behind its arrival.  A stamp of Date.now() is at least 1, so that 0     *)
(* stands for a NULL column.                                               *)
(***************************************************************************)
EXTENDS Integers, Sequences, FiniteSets

CONSTANTS Mailboxes,   \* what an account can be pointed at
          Kind,        \* the kind of provider behind the account
          PageSize,    \* PAGE_SIZE
          MaxPages,    \* MAX_PAGES_PER_POLL
          Overlap,     \* POLL_OVERLAP_MS, in clock ticks
          Skew,        \* how far a mail's date lags behind its arrival
          Drift,       \* how far scan_started_at may run ahead of the clock
          Day,         \* a calendar day, in clock ticks
          Zone,        \* how long after UTC the provider's day begins
          Null,        \* no row, no cursor, no poll
          (* Bounds of the model. *)
          MaxMail, MaxTime, MaxGeneration, MaxValidity, MaxFailures

Kinds == {"imap", "gmail", "graph", "agentmail", "resend"}

(* What the poller sees of the kind.  Only IMAP messages come with an      *)
(* identity epoch, and are listed by UID, which is the order of arrival;   *)
(* the other providers list by date.  IMAP and Gmail searches take a       *)
(* calendar date for the start of the window, Resend takes none.           *)
(* AgentMail and Resend list more than the account's received mail, which  *)
(* is filtered page by page.                                               *)
HasEpochs == Kind = "imap"
ListsByDate == Kind # "imap"
SearchesByDay == Kind \in {"imap", "gmail"}
IgnoresWindow == Kind = "resend"
FiltersPages == Kind \in {"agentmail", "resend"}

ASSUME SizesAssumption ==
  /\ Kind \in Kinds /\ Mailboxes # {}
  /\ Day \in Nat \ {0} /\ Zone \in 0 .. (Day - 1)
  /\ PageSize \in Nat \ {0} /\ MaxPages \in Nat \ {0}
  /\ Overlap \in Nat /\ Skew \in Nat /\ Drift \in Nat
ASSUME BoundsAssumption ==
  /\ MaxMail \in Nat /\ MaxTime \in Nat /\ MaxFailures \in Nat
  /\ MaxGeneration \in Nat \ {0} /\ MaxValidity \in Nat \ {0}
(* The overlap window makes up for clocks that disagree; every rebuild of  *)
(* the mailbox moves the start of the scan one tick further ahead.         *)
ASSUME ClocksAssumption == Skew + Drift + (MaxValidity - 1) <= Overlap

VARIABLES
  account,    \* the email_accounts row: state, generation, mailbox
  row,        \* the inbound_poll_state row, or Null
  firstSeen,  \* inbound_seen_messages: message id -> first_seen_at
  events,     \* the message ids of inbound_events
  pc,         \* where runPoll is suspended
  poll,       \* its local variables
  answer,     \* the page the provider has answered with
  now,        \* Date.now()
  (* The provider's side. *)
  inbox,      \* inbox[m]: the m-th mail that arrived
  validity,   \* the UIDVALIDITY of the mailboxes
  failures,   \* faulty answers and crashes so far
  (* History. *)
  baseline,   \* the last mail that had arrived when the baseline began
  settled,    \* and when it was complete
  scanFrom    \* the last mail that had arrived when the scan began

tables == <<row, firstSeen, events>>
poller == <<pc, poll, answer>>
world == <<now, inbox, validity, failures>>
history == <<baseline, settled, scanFrom>>
vars == <<account, row, firstSeen, events, pc, poll, answer, now, inbox,
          validity, failures, baseline, settled, scanFrom>>

Mails == DOMAIN inbox

Epoch == IF HasEpochs THEN validity ELSE 0

(* A message id: IMAP ids name the connection and its UIDVALIDITY, the     *)
(* ids of the other providers are unique by themselves.                    *)
Id(m) == [mailbox |-> inbox[m].mailbox, epoch |-> Epoch, mail |-> m]

Larger(a, b) == IF a >= b THEN a ELSE b
-------------------------------------------------------------------------------
(* The provider. *)

(* Whether a mail of that date is in the window of a search.  A search by  *)
(* day names the UTC date of its start, and the provider counts from that  *)
(* date's midnight in a time zone of its own.                              *)
InWindow(date, since) ==
  \/ since = Null \/ IgnoresWindow
  \/ IF SearchesByDay THEN date >= (since \div Day) * Day + Zone
                      ELSE date >= since

Listed(b, since) ==
  {m \in Mails : inbox[m].mailbox = b /\ inbox[m].present
                 /\ InWindow(inbox[m].date, since)}

(* isReceived, belongsToAccount *)
Kept(S) == {m \in S : inbox[m].received}

(* The place of a mail in a listing, which begins with the greatest: its   *)
(* UID, or its date and, of one date, its arrival.  A mail whose date lags *)
(* takes a place behind mail that was there before it.                     *)
Place(m) == IF ListsByDate THEN inbox[m].date * (MaxMail + 1) + m ELSE m

Newest(S) == {m \in S : Cardinality({n \in S : Place(n) > Place(m)}) < PageSize}

Oldest(S) == CHOOSE m \in S : \A n \in S : Place(m) <= Place(n)

(* searchMessages: a page is the first mail of the listing that is behind  *)
(* the cursor, of which it shows the received mail, and the next cursor is *)
(* the place of the last mail of the page, shown or not.                   *)
Page(b, since, cursor) ==
  LET eligible == {m \in Listed(b, since) : cursor = Null \/ Place(m) < cursor.place}
  IN [items |-> {Id(m) : m \in Kept(Newest(eligible))},
      next |-> IF Cardinality(eligible) > PageSize
                 THEN [mailbox |-> b, epoch |-> Epoch,
                       place |-> Place(Oldest(Newest(eligible)))]
                 ELSE Null,
      epoch |-> Epoch]

(* paginateImapUids refuses a cursor of another mailbox or epoch. *)
CursorAccepted(b, cursor) ==
  cursor # Null => cursor.mailbox = b /\ cursor.epoch = Epoch
-------------------------------------------------------------------------------
(* The tables. *)

(* nextScanStartedAt *)
NextScanStart ==
  IF row = Null THEN now
                ELSE Larger(now, Larger(row.updated, row.lastOk) + 1)

(* Mutant: a scan of another mailbox keeps the baseline of the old one. *)
NewScanWithBaseline(start, epoch) ==
  [initialized |-> row # Null /\ row.initialized, lastOk |-> 0,
   cursor |-> Null, started |-> start, epoch |-> epoch,
   generation |-> poll.generation, updated |-> start]

(* The row for a mailbox of which nothing is known. *)
NewScan(start, epoch) ==
  [initialized |-> FALSE, lastOk |-> 0, cursor |-> Null, started |-> start,
   epoch |-> epoch, generation |-> poll.generation, updated |-> start]

(* The account row a page may still be committed for. *)
AccountUnchanged ==
  account.state = "enabled" /\ account.generation = poll.generation

(* The poll-state row the scan left behind. *)
ScanUnchanged ==
  /\ row # Null
  /\ row.started = poll.started /\ row.cursor = poll.cursor
  /\ row.epoch = poll.epoch /\ row.generation = poll.generation

SeenBefore(id, stamp) == id \in DOMAIN firstSeen /\ firstSeen[id] < stamp

(* INSERT OR IGNORE INTO inbound_seen_messages *)
See(ids, stamp) ==
  firstSeen' = [id \in DOMAIN firstSeen \cup ids |->
                  IF id \in DOMAIN firstSeen THEN firstSeen[id] ELSE stamp]

NothingSeen == [id \in {} |-> 0]
-------------------------------------------------------------------------------
(* The poller. *)

(* Mutant: what the poll has read outlives it. *)
StopKeepingPage == pc' = "idle" /\ UNCHANGED <<poll, answer>>

(* runPoll is done with the account. *)
Stop == pc' = "idle" /\ poll' = Null /\ answer' = Null

(* The accounts are listed once, and served when those before are done. *)
ListAccounts ==
  /\ pc = "idle"
  /\ account.state = "enabled"
  /\ pc' = "listed"
  /\ UNCHANGED <<account, tables, poll, answer, world, history>>

(* getInboundProviderSnapshot up to its await; the account may be gone. *)
CaptureAccount ==
  /\ pc = "listed"
  /\ IF account.state = "deleted"
       THEN Stop
       ELSE /\ pc' = "building"
            /\ poll' = account
            /\ UNCHANGED answer
  /\ UNCHANGED <<account, tables, world, history>>

(* The check after the await, and that on the captured account: both end   *)
(* the poll with no trace in the database.                                 *)
SnapshotTaken ==
  /\ pc = "building"
  /\ IF /\ account.state # "deleted"
        /\ account.generation = poll.generation
        /\ poll.state = "enabled"
       THEN pc' = "captured" /\ UNCHANGED <<poll, answer>>
       ELSE Stop
  /\ UNCHANGED <<account, tables, world, history>>

(* COALESCE(scan_started_at, ...): a scan left open is resumed. *)
ResumeScan(start) ==
  [row EXCEPT !.started = IF @ = 0 THEN start ELSE @, !.updated = start]

(* Mutant: no overlap with the previous scan. *)
SinceWithoutOverlap(r) == IF r.lastOk = 0 THEN Null ELSE r.lastOk

(* The window of searchMessages; without one, the whole mailbox. *)
Since(r) == IF r.lastOk = 0 THEN Null ELSE r.lastOk - Overlap

(* beginInboundScan, and the local variables runPoll takes from the row.   *)
(* The insert for an account deleted in between fails on its foreign key.  *)
BeginScan ==
  LET started == IF row # Null /\ row.started # 0 THEN row.started
                                                  ELSE NextScanStart
      fresh == row = Null \/ row.generation # poll.generation
      next == IF fresh THEN NewScan(started, 0) ELSE ResumeScan(started)
  IN /\ pc = "captured"
     /\ account.state # "deleted"
     /\ (row # Null /\ row.started = 0) => started <= now + Drift
     /\ row' = next
     /\ firstSeen' = IF fresh THEN NothingSeen ELSE firstSeen
     /\ baseline' = IF fresh THEN Len(inbox) ELSE baseline
     /\ scanFrom' = IF fresh \/ row.started = 0 THEN Len(inbox) ELSE scanFrom
     /\ pc' = "fetching"
     /\ poll' = [generation |-> poll.generation, mailbox |-> poll.mailbox,
                 initialized |-> next.initialized,
                 since |-> Since(next),
                 started |-> started, cursor |-> next.cursor,
                 epoch |-> next.epoch, pages |-> 0,
                 cursors |-> {next.cursor} \ {Null}]
     /\ UNCHANGED <<account, events, answer, settled, world>>

BeginScanForNobody ==
  /\ pc = "captured"
  /\ account.state = "deleted"
  /\ Stop
  /\ UNCHANGED <<account, tables, world, history>>

(* Mutant: an error leaves the cursor for the next poll. *)
MarkErrorOnly ==
  IF row # Null
    THEN row' = [row EXCEPT !.updated = now]
    ELSE UNCHANGED row

(* markInboundPollError: the scan stays open, but starts over on page one. *)
MarkError ==
  IF /\ row # Null
     /\ row.started = poll.started /\ row.cursor = poll.cursor
     /\ row.generation = poll.generation
    THEN row' = [row EXCEPT !.cursor = Null, !.updated = now]
    ELSE UNCHANGED row

(* The catch block of runPoll. *)
FailScan == MarkError /\ Stop /\ UNCHANGED <<firstSeen, events, history>>

(* The provider reads the mailbox and its answer travels back. *)
FetchPage ==
  /\ pc = "fetching"
  /\ CursorAccepted(poll.mailbox, poll.cursor)
  /\ answer' = Page(poll.mailbox, poll.since, poll.cursor)
  /\ pc' = "answered"
  /\ UNCHANGED <<account, tables, poll, world, history>>

CursorRefused ==
  /\ pc = "fetching"
  /\ ~CursorAccepted(poll.mailbox, poll.cursor)
  /\ FailScan
  /\ UNCHANGED <<account, world>>

(* The request throws, or its answer makes no sense: it repeats a cursor   *)
(* or has lost the epoch that the scan has been following.                 *)
FetchFails ==
  /\ pc = "fetching"
  /\ failures < MaxFailures
  /\ failures' = failures + 1
  /\ FailScan
  /\ UNCHANGED <<account, now, inbox, validity>>

FetchGarbled ==
  /\ pc = "fetching"
  /\ failures < MaxFailures
  /\ failures' = failures + 1
  /\ CursorAccepted(poll.mailbox, poll.cursor)
  /\ LET page == Page(poll.mailbox, poll.since, poll.cursor)
     IN \/ \E c \in poll.cursors : answer' = [page EXCEPT !.next = c]
        \/ poll.epoch # 0 /\ answer' = [page EXCEPT !.epoch = 0]
  /\ pc' = "answered"
  /\ UNCHANGED <<account, tables, poll, now, inbox, validity, history>>

(* The page loop, one answered page at a time. *)
HandlingPage == pc = "answered"

EpochDisappeared == poll.epoch # 0 /\ answer.epoch = 0

EpochChanged ==
  poll.epoch # 0 /\ answer.epoch # 0 /\ answer.epoch # poll.epoch

(* Mutant: partial pages of the scan itself count as a boundary. *)
ReachedAnySeen == poll.initialized
                  /\ \E id \in answer.items : id \in DOMAIN firstSeen

ReachedSeenBoundary ==
  poll.initialized /\ \E id \in answer.items : SeenBefore(id, poll.started)

Complete == ReachedSeenBoundary \/ answer.next = Null

RepeatedCursor == ~Complete /\ answer.next \in poll.cursors

PageIsFaulty ==
  /\ HandlingPage
  /\ EpochDisappeared \/ (~EpochChanged /\ RepeatedCursor)
  /\ FailScan
  /\ UNCHANGED <<account, world>>

(* rebaselineInboundIdentity *)
Rebaseline ==
  /\ HandlingPage /\ EpochChanged
  /\ AccountUnchanged /\ ScanUnchanged
  /\ row' = NewScan(NextScanStart, answer.epoch)
  /\ firstSeen' = NothingSeen
  /\ baseline' = Len(inbox) /\ scanFrom' = Len(inbox)
  /\ Stop
  /\ UNCHANGED <<account, events, settled, world>>

MayCommit == AccountUnchanged /\ ScanUnchanged

(* InboundScanStateChangedError: the transaction is rolled back. *)
ScanStateChanged ==
  /\ HandlingPage /\ ~EpochDisappeared
  /\ EpochChanged \/ ~RepeatedCursor
  /\ ~MayCommit
  /\ Stop
  /\ UNCHANGED <<account, tables, world, history>>

(* last_successful_poll_at of a completed scan *)
ScannedUntil == poll.started

(* recordInboundPage: events for what had not been seen, once there is a   *)
(* baseline, and the cursor of the next page or the end of the scan.       *)
RecordPage ==
  LET epoch == IF answer.epoch # 0 THEN answer.epoch ELSE poll.epoch
      discovered == answer.items \ DOMAIN firstSeen
      discoveredAt == Larger(now, poll.started)
      more == poll.pages + 1 < MaxPages
  IN /\ HandlingPage
     /\ ~EpochDisappeared /\ ~EpochChanged /\ ~RepeatedCursor
     /\ MayCommit
     /\ See(answer.items, discoveredAt)
     /\ events' = IF poll.initialized THEN events \cup discovered ELSE events
     /\ IF Complete
          THEN /\ row' = [row EXCEPT !.initialized = TRUE,
                            !.lastOk = ScannedUntil, !.cursor = Null,
                            !.started = 0, !.epoch = epoch,
                            !.updated = discoveredAt]
               /\ Stop
          ELSE /\ row' = [row EXCEPT !.cursor = answer.next, !.epoch = epoch,
                            !.updated = discoveredAt]
               /\ IF more
                    THEN /\ pc' = "fetching" /\ answer' = Null
                         /\ poll' = [poll EXCEPT !.epoch = epoch,
                              !.cursor = answer.next, !.pages = @ + 1,
                              !.cursors = @ \cup {answer.next}]
                    ELSE Stop
     /\ settled' = IF Complete /\ ~poll.initialized THEN Len(inbox) ELSE settled
     /\ UNCHANGED <<account, baseline, scanFrom, world>>

(* The process is killed and started again; only the tables survive. *)
Crash ==
  /\ pc # "idle"
  /\ failures < MaxFailures
  /\ failures' = failures + 1
  /\ Stop
  /\ UNCHANGED <<account, tables, now, inbox, validity, history>>
-------------------------------------------------------------------------------
(* The administrator. *)

MayChange == account.state # "deleted" /\ account.generation < MaxGeneration

(* setAccountEnabled *)
SetEnabled ==
  /\ MayChange
  /\ account' = [account EXCEPT
       !.state = IF @ = "enabled" THEN "disabled" ELSE "enabled",
       !.generation = @ + 1]
  /\ UNCHANGED <<tables, poller, world, history>>

(* Mutant: a new mailbox of the same provider keeps the generation. *)
NextGenerationKept(a) == a.generation

NextGeneration(a) == a.generation + 1

(* persistAccount with another inbound endpoint, identity or credential;   *)
(* the other edits keep the generation and change nothing modelled here.   *)
Reconfigure(b) ==
  /\ MayChange
  /\ account' = [account EXCEPT !.mailbox = b,
                                !.generation = NextGeneration(account)]
  /\ UNCHANGED <<tables, poller, world, history>>

(* removeEmailAccount; the inbound tables cascade. *)
DeleteAccount ==
  /\ account.state # "deleted"
  /\ account' = [account EXCEPT !.state = "deleted"]
  /\ row' = Null /\ firstSeen' = NothingSeen /\ events' = {}
  /\ UNCHANGED <<poller, world, history>>
-------------------------------------------------------------------------------
(* The mailbox. *)

(* Only a listing that is filtered shows mail the account has sent, or     *)
(* that was sent to another address.                                       *)
Arrive(b, date, received) ==
  /\ Len(inbox) < MaxMail
  /\ ~received => FiltersPages
  /\ inbox' = Append(inbox, [mailbox |-> b, date |-> date, present |-> TRUE,
                             received |-> received])
  /\ UNCHANGED <<account, tables, poller, now, validity, failures, history>>

(* A mail is deleted or moved out of the inbox. *)
Remove(m) ==
  /\ inbox[m].present
  /\ inbox' = [inbox EXCEPT ![m].present = FALSE]
  /\ UNCHANGED <<account, tables, poller, now, validity, failures, history>>

(* The IMAP server renumbers its mailboxes, read or not. *)
Rebuild ==
  /\ HasEpochs /\ validity < MaxValidity
  /\ validity' = validity + 1
  /\ UNCHANGED <<account, tables, poller, now, inbox, failures, history>>

Tick ==
  /\ now < MaxTime
  /\ now' = now + 1
  /\ UNCHANGED <<account, tables, poller, inbox, validity, failures, history>>
-------------------------------------------------------------------------------
Init ==
  /\ account \in [state : {"enabled"}, generation : {1}, mailbox : Mailboxes]
  /\ row = Null /\ firstSeen = NothingSeen /\ events = {}
  /\ pc = "idle" /\ poll = Null /\ answer = Null
  /\ now = 1 /\ inbox = <<>> /\ failures = 0
  /\ validity = 1
  /\ baseline = 0 /\ settled = 0 /\ scanFrom = 0

Poll ==
  \/ ListAccounts \/ CaptureAccount \/ SnapshotTaken
  \/ BeginScan \/ BeginScanForNobody
  \/ FetchPage \/ CursorRefused
  \/ PageIsFaulty \/ Rebaseline \/ ScanStateChanged \/ RecordPage

Admin == SetEnabled \/ (\E b \in Mailboxes : Reconfigure(b)) \/ DeleteAccount

Mail ==
  \/ \E b \in Mailboxes, d \in (now - Skew) .. now, received \in BOOLEAN :
        Arrive(b, d, received)
  \/ \E m \in Mails : Remove(m)
  \/ Rebuild

Next == Poll \/ FetchFails \/ FetchGarbled \/ Crash \/ Admin \/ Mail \/ Tick

Spec == Init /\ [][Next]_vars

(* The timer of start() polls again and again, a provider request ends, if *)
(* only by its timeout, and faults do not go on for ever (MaxFailures).    *)
FairSpec == Spec /\ WF_vars(Poll)
-------------------------------------------------------------------------------
(* Properties. *)

Stamps == Nat
Numbers == 0 .. MaxMail
Epochs == 0 .. MaxValidity
Generations == 1 .. MaxGeneration
Ids == [mailbox : Mailboxes, epoch : Epochs, mail : 1 .. MaxMail]
Marks == [mailbox : Mailboxes, epoch : Epochs, place : Int]
Cursors == Marks \cup {Null}

Accounts == [state : {"enabled", "disabled", "deleted"},
             generation : Generations, mailbox : Mailboxes]
Rows == [initialized : BOOLEAN, lastOk : Stamps, cursor : Cursors,
         started : Stamps, epoch : Epochs, generation : Generations,
         updated : Stamps]
Scans == [generation : Generations, mailbox : Mailboxes,
          initialized : BOOLEAN, since : Int \cup {Null}, started : Stamps,
          cursor : Cursors, epoch : Epochs, pages : 0 .. MaxPages,
          cursors : SUBSET Marks]
Letters == [mailbox : Mailboxes, date : Int, present : BOOLEAN,
            received : BOOLEAN]
Answers == [items : SUBSET Ids, next : Cursors, epoch : Epochs]

ASSUME NullAssumption == Null \notin Marks /\ Null \notin Rows

TablesOK ==
  /\ row \in Rows \cup {Null}
  /\ DOMAIN firstSeen \subseteq Ids
  /\ \A id \in DOMAIN firstSeen : firstSeen[id] \in Stamps
  /\ events \subseteq Ids

PollerOK ==
  /\ pc \in {"idle", "listed", "building", "captured", "fetching", "answered"}
  /\ pc \in {"idle", "listed"} => poll = Null
  /\ pc \in {"building", "captured"} => poll \in Accounts
  /\ pc \in {"fetching", "answered"} => poll \in Scans
  /\ pc = "answered" => answer \in Answers
  /\ pc # "answered" => answer = Null

WorldOK ==
  /\ now \in Stamps /\ failures \in 0 .. MaxFailures
  /\ inbox \in Seq(Letters)
  /\ Len(inbox) <= MaxMail
  /\ validity \in Epochs \ {0}

HistoryOK == baseline \in Numbers /\ settled \in Numbers /\ scanFrom \in Numbers

(* The variables have the types of their columns and locals; the poller    *)
(* has those locals that belong to the await at which it is suspended.     *)
TypeOK ==
  account \in Accounts /\ TablesOK /\ PollerOK /\ WorldOK /\ HistoryOK

(* No mail is announced twice, whatever becomes of its id: neither the     *)
(* overlap window, nor a scan that starts over or resumes, nor a rebuilt   *)
(* mailbox, nor an account that is pointed elsewhere and back again.       *)
EventOncePerMail == \A i, j \in events : i.mail = j.mail => i = j

(* What this and BaselineSilent need to be inductive, in named parts.      *)
IdAt(m, epoch) == [mailbox |-> inbox[m].mailbox, epoch |-> epoch, mail |-> m]

Answered == IF pc = "answered" THEN answer.items ELSE {}

(* Ids name mail of the mailbox they say, under an epoch if there are any. *)
IdsName ==
  \A id \in events \cup DOMAIN firstSeen \cup Answered :
    /\ id.mail \in Mails /\ id = IdAt(id.mail, id.epoch)
    /\ HasEpochs <=> id.epoch # 0

(* The seen messages are of the row's epoch; those of an answer are of the *)
(* epoch it reports, which a faulty answer loses.                          *)
EpochsAgree ==
  /\ row # Null => \A id \in DOMAIN firstSeen : id.epoch = row.epoch
  /\ row = Null => DOMAIN firstSeen = {}
  /\ row # Null => (HasEpochs /\ (row.initialized \/ row.cursor # Null) => row.epoch # 0)
  /\ pc = "answered" =>
       /\ HasEpochs => answer.epoch # 0 \/ poll.epoch # 0
       /\ ~HasEpochs => answer.epoch = 0
       /\ answer.epoch # 0 => \A id \in answer.items : id.epoch = answer.epoch

(* A poll works on the row as it has left it, as long as there is one.     *)
PollTracksRow ==
  /\ row # Null =>
       /\ row.generation <= account.generation
       /\ ~row.initialized => row.lastOk = 0
       /\ pc \in {"fetching", "answered"} =>
            /\ row.generation = poll.generation
            /\ row.initialized = poll.initialized
            /\ row.cursor = poll.cursor /\ row.epoch = poll.epoch
  /\ pc \in {"fetching", "answered"} => (~poll.initialized => poll.since = Null)

(* An event is older than the baseline, or of a message still seen. *)
EventsSeen ==
  /\ baseline <= Len(inbox)
  /\ \A id \in events : id.mail <= baseline \/ id \in DOMAIN firstSeen

OldMail(m) ==
  m <= baseline /\ inbox[m].present /\ inbox[m].received

(* A finished baseline has seen the old mail; one under way has seen it    *)
(* down to the cursor.                                                     *)
BaselineSeen ==
  row # Null /\ row.generation = account.generation =>
    \A m \in Mails :
      /\ OldMail(m) /\ inbox[m].mailbox = account.mailbox
      /\ row.initialized \/ (row.cursor # Null /\ Place(m) >= row.cursor.place)
      => IdAt(m, row.epoch) \in DOMAIN firstSeen

(* What a page shows of old mail a finished baseline has seen; and a page  *)
(* of the baseline shows all of it between its cursor and the next one.    *)
AnswerCovers ==
  pc = "answered" /\ row # Null =>
    /\ poll.initialized /\ account.generation = poll.generation =>
         \A id \in answer.items :
           id.mail <= baseline /\ id.epoch = row.epoch => id \in DOMAIN firstSeen
    /\ ~poll.initialized /\ answer.next \notin poll.cursors
         /\ ~(poll.epoch # 0 /\ answer.epoch = 0) =>
         \A m \in Mails :
           /\ OldMail(m) /\ inbox[m].mailbox = poll.mailbox
           /\ poll.cursor = Null \/ Place(m) < poll.cursor.place
           /\ answer.next = Null \/ Place(m) >= answer.next.place
           => IdAt(m, answer.epoch) \in answer.items

FeedInv ==
  /\ EventOncePerMail
  /\ IdsName /\ EpochsAgree /\ PollTracksRow /\ EventsSeen /\ BaselineSeen
  /\ AnswerCovers

(* The baseline describes the mailbox as it is now. *)
Current ==
  /\ row # Null
  /\ row.initialized
  /\ row.generation = account.generation
  /\ row.epoch = Epoch

Unseen == {m \in Mails : /\ inbox[m].mailbox = account.mailbox
                         /\ inbox[m].present /\ inbox[m].received
                         /\ Id(m) \notin DOMAIN firstSeen}

(* A mail not yet seen is never outside the window of the next scan: no    *)
(* completed scan moves last_successful_poll_at past a mail it has missed, *)
(* though scans defer, resume, fail and start over while mail arrives.     *)
NoMailOutsideWindow ==
  Current => \A m \in Unseen : InWindow(inbox[m].date, Since(row))

(* Nor is it behind a boundary: mail listed before it that has been seen   *)
(* was seen by the scan still open, so that it does not stop that scan,    *)
(* and the cursor of that scan has not passed by the unseen mail.          *)
NothingBehindBoundary ==
  Current =>
    \A m \in Unseen, n \in Mails :
      /\ inbox[n].mailbox = account.mailbox /\ Place(n) > Place(m)
      /\ Id(n) \in DOMAIN firstSeen
      => /\ row.started # 0
         /\ firstSeen[Id(n)] >= row.started
         /\ row.cursor # Null => Place(m) < row.cursor.place

(* What these two need to be inductive, in named parts.  RowCurrent: the   *)
(* row is of the account as it is.  Pending(m): it has yet to see m.       *)
RowCurrent == row # Null /\ row.generation = account.generation

Pending(m) ==
  /\ inbox[m].mailbox = account.mailbox /\ inbox[m].present /\ inbox[m].received
  /\ IdAt(m, row.epoch) \notin DOMAIN firstSeen

(* A pending mail is inside the window of the scan, and what has been seen *)
(* of mail listed before it, or lies behind the cursor, belongs to the     *)
(* scan.                                                                   *)
PendingReachable ==
  RowCurrent =>
    \A m \in Mails :
      Pending(m) =>
        /\ row.lastOk # 0 => inbox[m].date >= row.lastOk - Overlap
        /\ row.cursor # Null /\ m <= scanFrom => Place(m) < row.cursor.place
        /\ \A n \in Mails :
             /\ inbox[n].mailbox = account.mailbox /\ Place(n) > Place(m)
             /\ IdAt(n, row.epoch) \in DOMAIN firstSeen
             => /\ row.started # 0
                /\ firstSeen[IdAt(n, row.epoch)] >= row.started
                /\ row.cursor # Null => Place(m) < row.cursor.place

(* No stamp of the row is further ahead of the clock than Drift and the    *)
(* rebuilds up to that epoch account for.                                  *)
Ahead(stamp, epoch) == stamp <= now + Drift + epoch - 1

StampsNear(epoch) ==
  Ahead(row.updated, epoch) /\ Ahead(row.started, epoch) /\ Ahead(row.lastOk, epoch)

ClockKept ==
  /\ now >= 1 /\ scanFrom <= Len(inbox)
  /\ \A m \in Mails : inbox[m].date <= now
  /\ row # Null =>
       /\ row.epoch <= validity
       /\ StampsNear(IF row.epoch # 0 THEN row.epoch ELSE validity)
       /\ row.started = 0 => row.cursor = Null
       /\ \A m \in Mails : m > scanFrom => inbox[m].date >= row.started - Overlap

(* A poll asks for the window of its row, and the epoch it is answered     *)
(* with is not older than the row's.                                       *)
PollKeepsPace ==
  row # Null /\ pc \in {"fetching", "answered"} =>
    /\ row.started # 0 /\ poll.since = Since(row)
    /\ pc = "answered" /\ answer.epoch # 0 =>
         row.epoch <= answer.epoch /\ answer.epoch <= validity /\ StampsNear(answer.epoch)

(* Every mail behind the cursor is on the answered page, or has arrived    *)
(* since, or is left to a later page.                                      *)
AnswerComplete ==
  pc = "answered" /\ RowCurrent /\ ~EpochDisappeared /\ ~EpochChanged =>
    LET ep == IF answer.epoch # 0 THEN answer.epoch ELSE poll.epoch IN
    /\ \A id \in answer.items :
         id.epoch = ep /\ (poll.cursor # Null => Place(id.mail) < poll.cursor.place)
    /\ \A m \in Mails :
         /\ inbox[m].mailbox = account.mailbox /\ inbox[m].present /\ inbox[m].received
         /\ IdAt(m, ep) \notin DOMAIN firstSeen
         /\ poll.cursor = Null \/ Place(m) < poll.cursor.place
         => \/ IdAt(m, ep) \in answer.items
            \/ /\ m > scanFrom
               /\ \A id \in answer.items \cup DOMAIN firstSeen :
                    Place(id.mail) < Place(m)
            \/ /\ \A id \in answer.items : Place(m) < Place(id.mail)
               /\ answer.next \notin poll.cursors =>
                    answer.next # Null /\ Place(m) < answer.next.place

ScanInv ==
  PendingReachable /\ ClockKept /\ PollKeepsPace /\ AnswerComplete

(* What a page adds to the feed. *)
Published == events' \ events

(* The first scan of a generation, and of a rebuilt mailbox, is silent:    *)
(* only mail that arrived after that baseline began is ever announced.     *)
BaselineSilent == [][\A id \in Published : id.mail > baseline]_vars

(* A page is committed only for the mailbox the account points at, and     *)
(* only while it is enabled, however long the provider took.               *)
NoStaleMailbox ==
  [][\A id \in Published : /\ account.state = "enabled"
                           /\ id.mailbox = account.mailbox]_vars

(* While the poller waits, the account may move on, but then its           *)
(* generation has: as long as that is the captured one, the poller reads   *)
(* the account's mailbox and has been answered with mail of that mailbox.  *)
PollerAimed ==
  pc \notin {"idle", "listed"} =>
    /\ poll.generation <= account.generation
    /\ poll.generation = account.generation => poll.mailbox = account.mailbox
    /\ pc = "answered" =>
         \A id \in answer.items : id.mailbox = poll.mailbox

ScanOpen == row # Null /\ row.started # 0

(* When a scan of the current mailbox completes, every mail that had       *)
(* arrived when it began has been seen, however many polls, crashes and    *)
(* restarts from page one it took.                                         *)
ScanCatchesUp ==
  [][(ScanOpen /\ row' # Null /\ row'.started = 0 /\ Current')
       => \A m \in Unseen' : m > scanFrom]_vars

(* A scan that has begun completes, or the account is disabled or deleted: *)
(* errors, refused cursors and pages left to later polls never go round in *)
(* circles.                                                                *)
ScanCompletes == ScanOpen ~> (~ScanOpen \/ account.state # "enabled")

(* What this rests on: a page that leaves the scan open moves its cursor   *)
(* down the listing, whatever the provider answers, and nothing else sets  *)
(* a cursor but back to the first page.                                    *)
PagesDescend ==
  [][row # Null /\ row' # Null /\ row.cursor # Null /\ row'.cursor # Null =>
       IF RecordPage THEN row'.cursor.place < row.cursor.place
                     ELSE row'.cursor = row.cursor]_vars

(* What PagesDescend needs to be inductive: so do the answers. *)
AnswerDescends ==
  /\ pc = "answered" /\ poll.cursor # Null
  /\ answer.next # Null /\ answer.next \notin poll.cursors
  => answer.next.place < poll.cursor.place

(* What the promise of the feed needs beyond this.  Of what has been seen  *)
(* after the baseline, all has been announced; a page shows received mail; *)
(* and no row is of a later generation than the poll.                      *)
SeenAnnounced ==
  row # Null /\ row.initialized =>
    \A id \in DOMAIN firstSeen : id.mail > settled => id \in events

AnswerReceived == \A id \in Answered : inbox[id.mail].received

PollAhead ==
  row # Null /\ pc \notin {"idle", "listed"} => row.generation <= poll.generation

AnnounceInv == SeenAnnounced /\ AnswerReceived /\ PollAhead

(* The promise of the feed, for the row of the account as it is: a row of  *)
(* an earlier generation is as good as none.                               *)
FeedPhase ==
  CASE ~RowCurrent -> "none"
    [] RowCurrent /\ ~row.initialized -> "baseline"
    [] RowCurrent /\ row.initialized /\ row.started = 0 -> "idle"
    [] OTHER -> "scanning"

Feed == INSTANCE InboundFeed WITH
  state <- account.state,
  mailbox <- account.mailbox,
  mail <- inbox,
  phase <- FeedPhase,
  base <- IF FeedPhase = "none" THEN 0 ELSE baseline,
  settled <- IF FeedPhase \in {"idle", "scanning"} THEN settled ELSE 0,
  from <- IF FeedPhase = "scanning" THEN scanFrom ELSE 0,
  announced <- {id.mail : id \in events}

(* Pages, cursors, stamps, windows, ids and renumbered mailboxes, faults   *)
(* and restarts come down to the feed that InboundFeed describes: every    *)
(* mail that arrives after the baseline and stays is announced by the scan *)
(* that begins after it, and none is announced twice, none of the baseline *)
(* and none of another mailbox.                                            *)
ImplementsFeed == Feed!FeedSpec

(* The account as AccountVersions has it, whose steps are the only ones of *)
(* the administrator: AccountRegistry implements the same module.          *)
Version == INSTANCE AccountVersions WITH
  state <- account.state,
  generation <- IF account.state = "deleted" THEN 0 ELSE account.generation,
  mailbox <- account.mailbox

AccountVersioned == Version!VersionsSpec
===============================================================================
