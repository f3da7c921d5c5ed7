------------------------------ MODULE InboundFeed ------------------------------
(***************************************************************************)
(* What the inbound events of slab-email promise to a reader, with no      *)
(* pages, cursors, clocks, message ids, faults or restarts.  The feed of   *)
(* an account begins with a baseline, which is silent.  Then scans         *)
(* announce mail of the account's mailbox: each mail once, and by the end  *)
(* of a scan all mail that had arrived when it began, came after the       *)
(* baseline and was not taken away.  An administrator's change of the      *)
(* account ends the feed until there is a new baseline.  InboundPoll       *)
(* implements this.                                                        *)
(***************************************************************************)
EXTENDS Naturals, Sequences

VARIABLES
  state,      \* "enabled", "disabled" or "deleted"
  mailbox,    \* the mailbox the account points at
  mail,       \* mail[m]: the m-th mail that arrived
  phase,      \* "none", "baseline", "idle" or "scanning"
  base,       \* the last mail that had arrived when the baseline began
  settled,    \* and when it was complete
  from,       \* the last mail that had arrived when the scan began
  announced   \* the mails announced

feedVars == <<state, mailbox, mail, phase, base, settled, from, announced>>

FeedInit ==
  /\ state = "enabled"
  /\ mail = <<>>
  /\ phase = "none" /\ base = 0 /\ settled = 0 /\ from = 0
  /\ announced = {}

(* Mail arrives, and is taken away. *)
MailMoves ==
  /\ Len(mail) <= Len(mail')
  /\ \A m \in DOMAIN mail :
       /\ mail'[m].mailbox = mail[m].mailbox
       /\ mail'[m].received = mail[m].received
       /\ mail'[m].present => mail[m].present
  /\ UNCHANGED <<state, mailbox, phase, base, settled, from, announced>>

(* The account is enabled, disabled, or pointed at a mailbox. *)
Administer ==
  /\ state # "deleted" /\ state' # "deleted"
  /\ phase' = "none" /\ base' = 0 /\ settled' = 0 /\ from' = 0
  /\ UNCHANGED <<mail, announced>>

Delete ==
  /\ state # "deleted" /\ state' = "deleted"
  /\ phase' = "none" /\ base' = 0 /\ settled' = 0 /\ from' = 0
  /\ announced' = {}
  /\ UNCHANGED <<mailbox, mail>>

(* A baseline may be begun again before and after it is complete: mailboxes *)
(* are renumbered.                                                         *)
BeginBaseline ==
  /\ state # "deleted" /\ phase # "idle"
  /\ phase' = "baseline" /\ base' = Len(mail) /\ settled' = 0 /\ from' = 0
  /\ UNCHANGED <<state, mailbox, mail, announced>>

EndBaseline ==
  /\ state = "enabled" /\ phase = "baseline"
  /\ phase' = "idle" /\ settled' = Len(mail)
  /\ UNCHANGED <<state, mailbox, mail, base, from, announced>>

BeginScan ==
  /\ state # "deleted" /\ phase = "idle"
  /\ phase' = "scanning" /\ from' = Len(mail)
  /\ UNCHANGED <<state, mailbox, mail, base, settled, announced>>

(* Mail that may be announced, and mail that has to be. *)
New == {m \in DOMAIN mail : /\ m > base
                            /\ mail[m].mailbox = mailbox /\ mail[m].received}

Due == {m \in New : settled < m /\ m <= from /\ mail[m].present}

Announce(S) ==
  /\ state = "enabled" /\ phase = "scanning"
  /\ S \cap announced = {}
  /\ announced' = announced \cup S
  /\ \/ UNCHANGED <<phase, from>>
     \/ Due \subseteq announced' /\ phase' = "idle" /\ from' = 0
  /\ UNCHANGED <<state, mailbox, mail, base, settled>>

FeedNext ==
  \/ MailMoves \/ Administer \/ Delete
  \/ BeginBaseline \/ EndBaseline \/ BeginScan
  \/ \E S \in SUBSET New : Announce(S)

FeedSpec == FeedInit /\ [][FeedNext]_feedVars
===============================================================================
