---------------------------- MODULE SendOperations ----------------------------
(***************************************************************************)
(* Sending mail through slab-email: MailService.runIdempotentOperation,    *)
(* the send_operations and send_attempts tables behind it, the outcome     *)
(* classification of the providers, and the administrator who disables,    *)
(* unassigns and deletes accounts while requests are in flight.            *)
(*                                                                         *)
(* Node runs one piece of JavaScript at a time and better-sqlite3 is       *)
(* synchronous, so an action is everything between two awaits.  A request  *)
(* awaits twice with other requests running in between: while its provider *)
(* object is built and its reply plan checked ("preparing"), and while the *)
(* provider sends ("acting").                                              *)
(***************************************************************************)
EXTENDS Integers, Sequences, FiniteSets

CONSTANTS Accounts,   \* account ids (UUIDs, never reused)
          Keys,       \* idempotency keys
          Requests,   \* slots for concurrent POST /mail/send and /mail/reply
          Kind,       \* Kind[a]: how a's provider reports a failed send
          MaxSends,   \* config.maxSendsPerAccountPerHour
          Window,     \* PROVIDER_RATE_WINDOW_MS, in clock ticks
          MaxTime,    \* bound of the model: the clock stops here
          NoJob       \* the local variables of a slot that serves no request

Kinds == {"imap", "gmail", "json"}

ASSUME KindAssumption == Kind \in [Accounts -> Kinds]
ASSUME BoundsAssumption ==
  MaxSends \in Nat /\ Window \in Nat /\ MaxTime \in Nat

Entries == Accounts \X Keys
AccountOf(e) == e[1]

VARIABLES
  account,    \* account[a]: "enabled", "disabled" or "deleted"
  granted,    \* accounts the callers' access profile may send from
  status,     \* status[e]: send_operations.status, "none" when there is no row
  result,     \* result[e]: send_operations.provider_message_id
  attempts,   \* attempts[a]: send_attempts.attempted_at in insertion order
  pc,         \* pc[r]: where request r is suspended
  job,        \* job[r]: the local variables of request r
  now,        \* Date.now()
  (*************************************************************************)
  (* The provider's side of the calls, and what callers have been told.    *)
  (*************************************************************************)
  lastCall,   \* number of provider calls ever started
  open,       \* calls the provider has neither accepted nor rejected
  accepted,   \* calls whose mail the provider has accepted
  told        \* final verdicts returned to callers

ledger == <<status, result, attempts>>
provider == <<lastCall, open, accepted>>
admin == <<account, granted>>
requests == <<pc, job>>
vars == <<account, granted, status, result, attempts, pc, job, now,
          lastCall, open, accepted, told>>

NoResult == 0

Call == [entry : Entries, id : Nat]

Job == [entry : Entries, since : Int, reclaim : BOOLEAN, call : Nat]

Verdict == [entry : Entries, verdict : {"sent", "unknown"}, id : Nat]

CallOf(r) == [entry |-> job[r].entry, id |-> job[r].call]
-------------------------------------------------------------------------------
(* The tables. *)

(* Mutant: the start of the window is left out of the count. *)
RecentAttemptsStrict(a, since) ==
  Cardinality({i \in DOMAIN attempts[a] : attempts[a][i] > since})

(* countRecentSendAttempts *)
RecentAttempts(a, since) ==
  Cardinality({i \in DOMAIN attempts[a] : attempts[a][i] >= since})

(* Mutants: reclaiming by id only, replacing a conflicting row, and a      *)
(* table without its foreign key.                                          *)
ClaimableById(e, reclaim) ==
  IF reclaim THEN status[e] # "none"
             ELSE status[e] = "none" /\ account[AccountOf(e)] # "deleted"
ClaimableByUpsert(e, reclaim) ==
  IF reclaim THEN status[e] = "failed" ELSE account[AccountOf(e)] # "deleted"
ClaimableWithoutAccount(e, reclaim) ==
  status[e] = IF reclaim THEN "failed" ELSE "none"

(* The statuses in which a claim finds the row it needs: the INSERT of a   *)
(* new row, or the UPDATE ... WHERE status = 'failed' of a known one.      *)
Claimable(e, reclaim) ==
  IF reclaim THEN status[e] = "failed"
             ELSE status[e] = "none" /\ account[AccountOf(e)] # "deleted"

(* Either claim also inserts a send_attempts row. *)
RecordAttempt(a) == attempts' = [attempts EXCEPT ![a] = Append(@, now)]

(* Mutant: the provider's message id is not stored. *)
MarkWithoutId(e, s, id) ==
  IF account[AccountOf(e)] = "deleted"
    THEN UNCHANGED <<status, result>>
    ELSE status' = [status EXCEPT ![e] = s] /\ UNCHANGED result

(* markSendOperationStatus updates no row once the account is deleted. *)
Mark(e, s, id) ==
  IF account[AccountOf(e)] = "deleted"
    THEN UNCHANGED <<status, result>>
    ELSE /\ status' = [status EXCEPT ![e] = s]
         /\ result' = [result EXCEPT ![e] = id]

(* An answer to a provider call: accepted, rejected for certain, or        *)
(* neither (a lost connection, a timeout, a server error).                 *)
Answers == {"accepted", "rejected", "ambiguous"}

(* What the provider object makes of it.  SMTP replies with a code, and    *)
(* Gmail's client errors, are certain; the JSON providers throw on all but *)
(* success, which runIdempotentOperation stores as unknown.                *)
SmtpOutcome(answer) ==
  CASE answer = "accepted" -> "sent"
    [] answer = "rejected" -> "failed"
    [] OTHER -> "unknown"

(* Mutant: every error of a Gmail call counts as a rejection. *)
GmailOutcomeOptimistic(answer) ==
  IF answer = "accepted" THEN "sent" ELSE "failed"

GmailOutcome(answer) ==
  CASE answer = "accepted" -> "sent"
    [] answer = "rejected" -> "failed"
    [] OTHER -> "unknown"

JsonOutcome(answer) == IF answer = "accepted" THEN "sent" ELSE "unknown"

(* Mutant: the provider's own word for the outcome is stored. *)
OutcomeRaw(kind, answer) == answer

Outcome(kind, answer) ==
  CASE kind = "imap"  -> SmtpOutcome(answer)
    [] kind = "gmail" -> GmailOutcome(answer)
    [] OTHER -> JsonOutcome(answer)
-------------------------------------------------------------------------------
(* Requests. *)

Finish(r) ==
  /\ pc' = [pc EXCEPT ![r] = "idle"]
  /\ job' = [job EXCEPT ![r] = NoJob]

(* Only the verdicts that a caller acts on for good are recorded: a sent   *)
(* one names the provider's message, the others promise nothing later.     *)
Tell(e, s, id) ==
  told' = IF s \in {"sent", "unknown"}
            THEN told \cup {[entry |-> e, verdict |-> s, id |-> id]}
            ELSE told

MayUse(a) == a \in granted /\ account[a] = "enabled"

(* Permission denied, account disabled or missing: nothing is written. *)
RefuseAccess(r, e) ==
  /\ pc[r] = "idle"
  /\ ~MayUse(AccountOf(e))
  /\ UNCHANGED vars

(* The key has a row that is not a confirmed failure: the row answers. *)
AnswerFromLedger(r, e) ==
  /\ pc[r] = "idle"
  /\ MayUse(AccountOf(e))
  /\ status[e] \in {"sent", "unknown", "pending"}
  /\ UNCHANGED <<admin, ledger, requests, now, provider>>
  /\ Tell(e, status[e], result[e])

(* A fresh key or a confirmed failure: remember which, and the start of    *)
(* the rate window, and await the provider object.                         *)
BeginPreparing(r, e) ==
  /\ pc[r] = "idle"
  /\ MayUse(AccountOf(e))
  /\ status[e] \in {"none", "failed"}
  /\ pc' = [pc EXCEPT ![r] = "preparing"]
  /\ job' = [job EXCEPT ![r] = [entry |-> e, since |-> now - Window,
                                reclaim |-> status[e] = "failed", call |-> 0]]
  /\ UNCHANGED <<admin, ledger, now, provider, told>>

(* No provider object, no such capability, or the reply no longer matches. *)
PreparationFails(r) ==
  /\ pc[r] = "preparing"
  /\ Finish(r)
  /\ UNCHANGED <<admin, ledger, now, provider, told>>

WithinRate(r) ==
  RecentAttempts(AccountOf(job[r].entry), job[r].since) < MaxSends

RateLimited(r) ==
  /\ pc[r] = "preparing"
  /\ ~WithinRate(r)
  /\ Finish(r)
  /\ UNCHANGED <<admin, ledger, now, provider, told>>

(* createSendOperation or claimFailedSendOperation, then the provider is   *)
(* called, with no await in between.  Account and grant are not rechecked. *)
Claim(r) ==
  LET e == job[r].entry IN
  /\ pc[r] = "preparing"
  /\ WithinRate(r)
  /\ Claimable(e, job[r].reclaim)
  /\ status' = [status EXCEPT ![e] = "pending"]
  /\ RecordAttempt(AccountOf(e))
  /\ lastCall' = lastCall + 1
  /\ open' = open \cup {[entry |-> e, id |-> lastCall + 1]}
  /\ job' = [job EXCEPT ![r].call = lastCall + 1]
  /\ pc' = [pc EXCEPT ![r] = "acting"]
  /\ UNCHANGED <<admin, result, now, accepted, told>>

(* Another request took the row, or the account is gone: answer from what  *)
(* the row says now.                                                       *)
LoseClaim(r) ==
  LET e == job[r].entry IN
  /\ pc[r] = "preparing"
  /\ WithinRate(r)
  /\ ~Claimable(e, job[r].reclaim)
  /\ Finish(r)
  /\ UNCHANGED <<admin, ledger, now, provider>>
  /\ Tell(e, status[e], result[e])

(* The provider's answer comes back and settles the row. *)
ActionReturns(r, answer) ==
  LET e == job[r].entry
      s == Outcome(Kind[AccountOf(e)], answer)
      id == IF s = "sent" THEN job[r].call ELSE NoResult
  IN
  /\ pc[r] = "acting"
  /\ answer = "accepted" => CallOf(r) \in accepted
  /\ answer = "rejected" => CallOf(r) \in open
  /\ open' = IF answer = "rejected" THEN open \ {CallOf(r)} ELSE open
  /\ Mark(e, s, id)
  /\ Tell(e, s, id)
  /\ Finish(r)
  /\ UNCHANGED <<admin, attempts, now, lastCall, accepted>>

(* The answer came back but the UPDATE threw: the row stays pending. *)
LedgerWriteFails(r) ==
  /\ pc[r] = "acting"
  /\ Finish(r)
  /\ UNCHANGED <<admin, ledger, now, provider, told>>
-------------------------------------------------------------------------------
(* The provider, the administrator, the clock and the process. *)

(* The provider may accept a call at any time after it was made, also      *)
(* after the process has given up on it or has been restarted.             *)
ProviderAccepts(c) ==
  /\ c \in open
  /\ open' = open \ {c}
  /\ accepted' = accepted \cup {c}
  /\ UNCHANGED <<admin, ledger, requests, now, lastCall, told>>

SetEnabled(a, enabled) ==
  /\ account[a] # "deleted"
  /\ account' = [account EXCEPT ![a] = IF enabled THEN "enabled" ELSE "disabled"]
  /\ UNCHANGED <<granted, ledger, requests, now, provider, told>>

SetGranted(a, allowed) ==
  /\ account[a] # "deleted"
  /\ granted' = IF allowed THEN granted \cup {a} ELSE granted \ {a}
  /\ UNCHANGED <<account, ledger, requests, now, provider, told>>

(* Refused while a profile lists the account; the rows go with it. *)
DeleteAccount(a) ==
  /\ account[a] # "deleted"
  /\ a \notin granted
  /\ account' = [account EXCEPT ![a] = "deleted"]
  /\ status' = [e \in Entries |-> IF AccountOf(e) = a THEN "none" ELSE status[e]]
  /\ result' = [e \in Entries |-> IF AccountOf(e) = a THEN NoResult ELSE result[e]]
  /\ attempts' = [attempts EXCEPT ![a] = <<>>]
  /\ UNCHANGED <<granted, requests, now, provider, told>>

(* The process dies, or shuts down with requests in flight, and restarts.  *)
Restart ==
  /\ \E r \in Requests : pc[r] # "idle"
  /\ pc' = [r \in Requests |-> "idle"]
  /\ job' = [r \in Requests |-> NoJob]
  /\ UNCHANGED <<admin, ledger, now, provider, told>>

Tick ==
  /\ now < MaxTime
  /\ now' = now + 1
  /\ UNCHANGED <<admin, ledger, requests, provider, told>>
-------------------------------------------------------------------------------
Init ==
  /\ account = [a \in Accounts |-> "enabled"]
  /\ granted = Accounts
  /\ status = [e \in Entries |-> "none"]
  /\ result = [e \in Entries |-> NoResult]
  /\ attempts = [a \in Accounts |-> <<>>]
  /\ pc = [r \in Requests |-> "idle"]
  /\ job = [r \in Requests |-> NoJob]
  /\ now = 0
  /\ lastCall = 0
  /\ open = {}
  /\ accepted = {}
  /\ told = {}

RequestStep(r) ==
  \/ \E e \in Entries :
        RefuseAccess(r, e) \/ AnswerFromLedger(r, e) \/ BeginPreparing(r, e)
  \/ PreparationFails(r) \/ RateLimited(r) \/ Claim(r) \/ LoseClaim(r)
  \/ \E answer \in Answers : ActionReturns(r, answer)
  \/ LedgerWriteFails(r)

AdminStep(a) ==
  \/ \E on \in BOOLEAN : SetEnabled(a, on) \/ SetGranted(a, on)
  \/ DeleteAccount(a)

Next ==
  \/ \E r \in Requests : RequestStep(r)
  \/ \E a \in Accounts : AdminStep(a)
  \/ \E c \in open : ProviderAccepts(c)
  \/ Restart
  \/ Tick

Spec == Init /\ [][Next]_vars
-------------------------------------------------------------------------------
(* Properties. *)

(* Every variable has its type, and exactly the slots that serve a request *)
(* have local variables; a request that acts has started a provider call.  *)
TypeOK ==
  /\ account \in [Accounts -> {"enabled", "disabled", "deleted"}]
  /\ granted \subseteq Accounts
  /\ status \in [Entries -> {"none", "pending", "sent", "failed", "unknown"}]
  /\ result \in [Entries -> Nat]
  /\ attempts \in [Accounts -> Seq(Nat)]
  /\ pc \in [Requests -> {"idle", "preparing", "acting"}]
  /\ job \in [Requests -> Job \cup {NoJob}]
  /\ \A r \in Requests : pc[r] # "idle" => job[r] \in Job
  /\ now \in Nat
  /\ lastCall \in Nat
  /\ open \subseteq Call
  /\ accepted \subseteq Call
  /\ told \subseteq Verdict

CallsOf(e) == {c \in open \cup accepted : c.entry = e}

(* The point of an idempotency key: whatever requests, retries, restarts   *)
(* and administrators do, the provider accepts at most one mail per key.   *)
AtMostOnce ==
  \A c, d \in accepted : c.entry = d.entry => c = d

(* A row that invites a retry (none, or failed) means that no earlier call *)
(* has delivered the mail and that none still can: a failure is confirmed. *)
RetryOnlyWhenUndelivered ==
  \A e \in Entries :
    status[e] \in {"none", "failed"} /\ account[AccountOf(e)] # "deleted"
      => CallsOf(e) = {}

(* Two requests never act for the same key, and the row of a request that  *)
(* acts is pending for as long as its account exists.                      *)
SingleOwner ==
  /\ \A r \in Requests : pc[r] = "acting" =>
       \/ status[job[r].entry] = "pending"
       \/ account[AccountOf(job[r].entry)] = "deleted"
  /\ \A q, r \in Requests :
       pc[q] = "acting" /\ pc[r] = "acting" /\ job[q].entry = job[r].entry
         => q = r

(* In no window of an hour does an account start more than MaxSends        *)
(* provider calls, retries of failures included, although a request fixes  *)
(* its window before it awaits and is counted after.                       *)
RateBound ==
  \A a \in Accounts, t \in 0..now :
    Cardinality({i \in DOMAIN attempts[a] :
                   attempts[a][i] \in (t - Window)..t}) <= MaxSends

(* What callers were told stays true of the ledger and of the mail: a key  *)
(* reported sent names the very mail the provider accepted, and a key      *)
(* reported unknown is never reported otherwise to anybody.                *)
VerdictsStand ==
  \A v \in told :
    /\ v.verdict = "sent" => [entry |-> v.entry, id |-> v.id] \in accepted
    /\ \A w \in told : w.entry = v.entry => w = v
    /\ \/ account[AccountOf(v.entry)] = "deleted"
       \/ status[v.entry] = v.verdict /\ result[v.entry] = v.id

(* What the four above need to be inductive.  Deleting an account leaves   *)
(* no rows; there is at most one live call per key, held by the request    *)
(* that acts for it, which is the first to tell anybody a final verdict;   *)
(* and a settled row names the mail that was accepted.                     *)
RowsHaveAccounts ==
  \A e \in Entries : account[AccountOf(e)] = "deleted" => status[e] = "none"

OneLiveCall ==
  /\ open \cap accepted = {}
  /\ \A c, d \in open \cup accepted : c.entry = d.entry => c = d

OwnersHold ==
  \A r \in Requests : pc[r] = "acting" =>
    /\ CallOf(r) \in open \cup accepted
    /\ \A v \in told : v.entry # job[r].entry

SettledRowsName ==
  \A e \in Entries :
    /\ status[e] = "sent" => [entry |-> e, id |-> result[e]] \in accepted
    /\ status[e] = "unknown" => result[e] = NoResult

SendInv ==
  /\ RetryOnlyWhenUndelivered /\ SingleOwner /\ VerdictsStand
  /\ RowsHaveAccounts /\ OneLiveCall /\ OwnersHold /\ SettledRowsName

(* A settled row (sent or unknown) is never written again; only deleting   *)
(* its account removes it.                                                 *)
SettledIsFinal ==
  [][\A e \in Entries :
       status[e] \in {"sent", "unknown"} =>
         \/ status'[e] = status[e] /\ result'[e] = result[e]
         \/ account'[AccountOf(e)] = "deleted"]_vars

(* A pending row whose request is gone (restart, or a failed write) is     *)
(* never claimed or settled by anybody else, and no provider call is ever  *)
(* made for it again: no blind retry.                                      *)
OrphansStayPending ==
  [][\A e \in Entries :
       /\ status[e] = "pending"
       /\ \A r \in Requests : pc[r] = "acting" => job[r].entry # e
       => \/ account'[AccountOf(e)] = "deleted"
          \/ /\ status'[e] = "pending"
             /\ \A c \in open' \ open : c.entry # e]_vars

(* A request that was admitted before its account was unassigned and       *)
(* deleted never gets a provider call afterwards: its claim finds no row   *)
(* and no account.                                                         *)
DeletedAccountNeverCalled ==
  [][\A c \in open' \ open : account[AccountOf(c.entry)] # "deleted"]_vars

(* The detailed module implements the ledger a caller may rely on.         *)
Ledger == INSTANCE SendLedger WITH
  status <- [e \in Entries |->
               IF account[AccountOf(e)] = "deleted" THEN "gone" ELSE status[e]],
  copies <- [e \in Entries |-> Cardinality({c \in accepted : c.entry = e})],
  retryable <- [e \in Entries |-> CallsOf(e) = {}]

ImplementsLedger == Ledger!LedgerSpec
===============================================================================
