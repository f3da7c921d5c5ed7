------------------------------ MODULE SendProofs ------------------------------
(***************************************************************************)
(* Theorems of SendOperations for every set of accounts, keys and          *)
(* requests.                                                               *)
(***************************************************************************)
EXTENDS SendOperations, FiniteSetTheorems, TLAPS

(* The account of an entry is an account. *)
LEMMA AccountOfEntry == \A e \in Entries : AccountOf(e) \in Accounts
  BY DEF Entries, AccountOf

(* Whatever the kind of provider, an answer settles a row as sent only     *)
(* when it says accepted, and as failed only when it says rejected.        *)
LEMMA OutcomeIsConfirmed ==
  ASSUME NEW kind, NEW answer \in Answers
  PROVE  /\ Outcome(kind, answer) \in {"sent", "failed", "unknown"}
         /\ Outcome(kind, answer) = "sent" <=> answer = "accepted"
         /\ Outcome(kind, answer) = "failed" => answer = "rejected"
  BY DEF Answers, Outcome, SmtpOutcome, GmailOutcome, JsonOutcome

(* Storing the number of its call leaves a request's locals well typed. *)
LEMMA JobWithCall ==
  ASSUME NEW j \in Job, NEW n \in Nat
  PROVE  /\ [j EXCEPT !.call = n] \in Job
         /\ [j EXCEPT !.call = n].entry = j.entry
         /\ [j EXCEPT !.call = n].call = n
  BY DEF Job

-------------------------------------------------------------------------------
(* Type correctness. *)

(* The state before the first request is well typed. *)
LEMMA InitTypeOK == Init => TypeOK
  BY DEF Init, TypeOK, NoResult

(* No step of a request leaves the types. *)
LEMMA RequestTypeOK ==
  ASSUME NEW r \in Requests, TypeOK, RequestStep(r), BoundsAssumption
  PROVE  TypeOK'
  <1> USE DEF TypeOK, admin, ledger, provider, requests
  <1>1. ASSUME NEW e \in Entries, RefuseAccess(r, e)
        PROVE  TypeOK'
    BY <1>1 DEF RefuseAccess, vars
  <1>2. ASSUME NEW e \in Entries, AnswerFromLedger(r, e)
        PROVE  TypeOK'
    BY <1>2 DEF AnswerFromLedger, Tell, Verdict
  <1>3. ASSUME NEW e \in Entries, BeginPreparing(r, e)
        PROVE  TypeOK'
    <2> DEFINE j == [entry |-> e, since |-> now - Window,
                     reclaim |-> status[e] = "failed", call |-> 0]
    <2>1. j \in Job
      BY <1>3 DEF Job, BoundsAssumption
    <2>2. job' = [job EXCEPT ![r] = j] /\ pc' = [pc EXCEPT ![r] = "preparing"]
      BY <1>3 DEF BeginPreparing
    <2> HIDE DEF j
    <2>3. QED
      BY <1>3, <2>1, <2>2 DEF BeginPreparing
  <1>4. CASE PreparationFails(r)
    BY <1>4 DEF PreparationFails, Finish
  <1>5. CASE RateLimited(r)
    BY <1>5 DEF RateLimited, Finish
  <1>6. CASE Claim(r)
    <2> DEFINE e == job[r].entry
               j == [job[r] EXCEPT !.call = lastCall + 1]
    <2>1. job[r] \in Job /\ e \in Entries /\ AccountOf(e) \in Accounts
      BY <1>6, AccountOfEntry DEF Claim, Job
    <2>2. j \in Job
      <3>1. lastCall + 1 \in Nat
        OBVIOUS
      <3>2. QED
        BY <2>1, <3>1, JobWithCall
    <2>3. job' = [job EXCEPT ![r] = j]
      BY <1>6, <2>1 DEF Claim, Job
    <2>4. attempts' \in [Accounts -> Seq(Nat)]
      BY <1>6, <2>1 DEF Claim, RecordAttempt
    <2>5. open' \subseteq Call /\ lastCall' \in Nat
      BY <1>6, <2>1 DEF Claim, Call
    <2>6. /\ job' \in [Requests -> Job \cup {NoJob}]
          /\ \A q \in Requests : pc'[q] # "idle" => job'[q] \in Job
      <3> HIDE DEF j
      <3> QED
        BY <1>6, <2>2, <2>3 DEF Claim
    <2>7. QED
      BY <1>6, <2>1, <2>4, <2>5, <2>6 DEF Claim
  <1>7. CASE LoseClaim(r)
    <2>1. job[r].entry \in Entries
      BY <1>7 DEF LoseClaim, Job
    <2>2. QED
      BY <1>7, <2>1 DEF LoseClaim, Tell, Finish, Verdict
  <1>8. ASSUME NEW answer \in Answers, ActionReturns(r, answer)
        PROVE  TypeOK'
    <2> DEFINE e == job[r].entry
               s == Outcome(Kind[AccountOf(e)], answer)
               id == IF s = "sent" THEN job[r].call ELSE NoResult
    <2>1. e \in Entries /\ id \in Nat
      BY <1>8 DEF ActionReturns, Job, NoResult
    <2>2. s \in {"sent", "failed", "unknown"}
      BY OutcomeIsConfirmed
    <2>3. Mark(e, s, id) /\ Tell(e, s, id) /\ Finish(r)
      BY <1>8 DEF ActionReturns
    <2>4. UNCHANGED <<admin, attempts, now, lastCall, accepted>> /\ open' \subseteq open
      BY <1>8 DEF ActionReturns
    <2> HIDE DEF s, id, e
    <2>5. status' \in [Entries -> {"none", "pending", "sent", "failed", "unknown"}]
      BY <2>1, <2>2, <2>3 DEF Mark
    <2>6. result' \in [Entries -> Nat]
      BY <2>1, <2>3 DEF Mark
    <2>7. told' \subseteq Verdict
      BY <2>1, <2>3 DEF Tell, Verdict
    <2>8. /\ pc' \in [Requests -> {"idle", "preparing", "acting"}]
          /\ job' \in [Requests -> Job \cup {NoJob}]
          /\ \A q \in Requests : pc'[q] # "idle" => job'[q] \in Job
      BY <2>3 DEF Finish
    <2>9. UNCHANGED <<account, granted>>
      BY <1>8 DEF ActionReturns
    <2>10. QED
      BY <2>4, <2>5, <2>6, <2>7, <2>8, <2>9
  <1>9. CASE LedgerWriteFails(r)
    BY <1>9 DEF LedgerWriteFails, Finish
  <1>10. QED
    BY <1>1, <1>2, <1>3, <1>4, <1>5, <1>6, <1>7, <1>8, <1>9 DEF RequestStep

(* Nor does any other step. *)
LEMMA NextTypeOK == TypeOK /\ [Next]_vars => TypeOK'
  <1> SUFFICES ASSUME TypeOK, [Next]_vars
               PROVE  TypeOK'
    OBVIOUS
  <1>1. ASSUME NEW r \in Requests, RequestStep(r)
        PROVE  TypeOK'
    BY <1>1, RequestTypeOK, BoundsAssumption
  <1> USE DEF TypeOK, admin, ledger, provider, requests
  <1>2. ASSUME NEW a \in Accounts, AdminStep(a)
        PROVE  TypeOK'
    <2>1. ASSUME NEW on \in BOOLEAN, SetEnabled(a, on)
          PROVE  TypeOK'
      BY <2>1 DEF SetEnabled
    <2>2. ASSUME NEW on \in BOOLEAN, SetGranted(a, on)
          PROVE  TypeOK'
      BY <2>2 DEF SetGranted
    <2>3. CASE DeleteAccount(a)
      BY <2>3 DEF DeleteAccount, NoResult
    <2>4. QED
      BY <1>2, <2>1, <2>2, <2>3 DEF AdminStep
  <1>3. ASSUME NEW c \in open, ProviderAccepts(c)
        PROVE  TypeOK'
    BY <1>3 DEF ProviderAccepts
  <1>4. CASE Restart
    BY <1>4 DEF Restart
  <1>5. CASE Tick
    BY <1>5 DEF Tick
  <1>6. CASE UNCHANGED vars
    BY <1>6 DEF vars
  <1>7. QED
    BY <1>1, <1>2, <1>3, <1>4, <1>5, <1>6 DEF Next

(* Every reachable state is well typed. *)
THEOREM TypeCorrect == Spec => []TypeOK
  BY InitTypeOK, NextTypeOK, PTL DEF Spec

-------------------------------------------------------------------------------
(* The inductive invariant. *)

(* Without rows, calls or verdicts the invariant holds. *)
LEMMA InitSendInv == Init => SendInv
  BY DEF Init, SendInv, RetryOnlyWhenUndelivered, SingleOwner, VerdictsStand,
         RowsHaveAccounts, OneLiveCall, OwnersHold, SettledRowsName, CallsOf

(* A request that acts in the next state acts already, for the same call. *)
NoNewOwner ==
  \A q \in Requests : pc'[q] = "acting" => pc[q] = "acting" /\ job'[q] = job[q]

(* A step that only moves requests which do not act, or drops some that    *)
(* do, preserves the invariant.                                            *)
LEMMA FrameSendInv ==
  ASSUME SendInv, NoNewOwner,
         UNCHANGED <<account, status, result, open, accepted, told>>
  PROVE  SendInv'
  BY DEF SendInv, NoNewOwner, RetryOnlyWhenUndelivered, SingleOwner,
         VerdictsStand, RowsHaveAccounts, OneLiveCall, OwnersHold,
         SettledRowsName, CallsOf, CallOf

(* Answering a request from the row of an existing account preserves it. *)
LEMMA TellSendInv ==
  ASSUME TypeOK, SendInv, NoNewOwner, NEW e \in Entries,
         account[AccountOf(e)] # "deleted", Tell(e, status[e], result[e]),
         UNCHANGED <<account, status, result, open, accepted>>
  PROVE  SendInv'
  <1>1. CASE status[e] \notin {"sent", "unknown"}
    <2>1. told' = told
      BY <1>1 DEF Tell
    <2>2. QED
      BY <2>1, FrameSendInv
  <1>2. CASE status[e] \in {"sent", "unknown"}
    <2> DEFINE v == [entry |-> e, verdict |-> status[e], id |-> result[e]]
    <2>1. told' = told \cup {v}
      BY <1>2 DEF Tell
    <2>2. v.entry = e /\ v.verdict = status[e] /\ v.id = result[e]
      OBVIOUS
    <2>3. ASSUME NEW w \in told, w.entry = e
          PROVE  w = v
      <3>1. w.verdict = status[e] /\ w.id = result[e]
        BY <2>3 DEF SendInv, VerdictsStand
      <3>2. w = [entry |-> w.entry, verdict |-> w.verdict, id |-> w.id]
        BY DEF TypeOK, Verdict
      <3>3. QED
        BY <2>3, <3>1, <3>2
    <2> HIDE DEF v
    <2>4. VerdictsStand'
      <3> SUFFICES ASSUME NEW w \in told'
                   PROVE  /\ w.verdict = "sent"
                               => [entry |-> w.entry, id |-> w.id] \in accepted
                          /\ \A x \in told' : x.entry = w.entry => x = w
                          /\ \/ account[AccountOf(w.entry)] = "deleted"
                             \/ status[w.entry] = w.verdict /\ result[w.entry] = w.id
        BY DEF VerdictsStand
      <3>1. CASE w = v
        BY <1>2, <2>1, <2>2, <2>3, <3>1 DEF SendInv, SettledRowsName
      <3>2. CASE w \in told
        BY <2>1, <2>2, <2>3, <3>2 DEF SendInv, VerdictsStand
      <3>3. QED
        BY <2>1, <3>1, <3>2
    <2>5. OwnersHold'
      <3> SUFFICES ASSUME NEW r \in Requests, pc'[r] = "acting"
                   PROVE  /\ CallOf(r)' \in open \cup accepted
                          /\ \A w \in told' : w.entry # job'[r].entry
        BY DEF OwnersHold
      <3>1. pc[r] = "acting" /\ job'[r] = job[r]
        BY DEF NoNewOwner
      <3>2. job[r].entry # e
        BY <1>2, <3>1 DEF SendInv, SingleOwner
      <3>3. QED
        BY <2>1, <2>2, <3>1, <3>2 DEF SendInv, OwnersHold, CallOf
    <2>6. QED
      BY <2>4, <2>5 DEF SendInv, NoNewOwner, RetryOnlyWhenUndelivered, SingleOwner,
         RowsHaveAccounts, OneLiveCall, SettledRowsName, CallsOf
  <1>3. QED
    BY <1>1, <1>2

(* A claim finds a row behind which there is no call, and adds one. *)
LEMMA ClaimSendInv ==
  ASSUME TypeOK, SendInv, NEW r \in Requests, Claim(r)
  PROVE  SendInv'
  <1> DEFINE e == job[r].entry
             c == [entry |-> e, id |-> lastCall + 1]
  <1>1. job[r] \in Job /\ e \in Entries /\ AccountOf(e) \in Accounts
    BY AccountOfEntry DEF Claim, TypeOK, Job
  <1>2. /\ status[e] \in {"none", "failed"}
        /\ account[AccountOf(e)] # "deleted"
    BY <1>1 DEF Claim, Claimable, SendInv, RowsHaveAccounts
  <1>3. CallsOf(e) = {}
    BY <1>1, <1>2 DEF SendInv, RetryOnlyWhenUndelivered
  <1>4. /\ status' = [status EXCEPT ![e] = "pending"]
        /\ open' = open \cup {c}
        /\ UNCHANGED <<account, result, accepted, told>>
    BY DEF Claim, admin
  <1>5. /\ pc' = [pc EXCEPT ![r] = "acting"]
        /\ job'[r].entry = e /\ job'[r].call = lastCall + 1
        /\ \A q \in Requests : q # r => job'[q] = job[q]
    BY <1>1, JobWithCall DEF Claim, TypeOK
  <1>6. \A q \in Requests : pc[q] = "acting" => job[q].entry \in Entries \ {e}
    BY <1>2 DEF SendInv, SingleOwner, TypeOK, Job
  <1>7. c.entry = e /\ CallOf(r)' = c
    BY <1>5 DEF CallOf
  <1>8. \A v \in told : v.entry \in Entries \ {e}
    BY <1>2 DEF SendInv, VerdictsStand, TypeOK, Verdict
  <1> HIDE DEF e, c
  <1>9. OneLiveCall'
    BY <1>3, <1>4, <1>7 DEF SendInv, OneLiveCall, CallsOf
  <1>10. OwnersHold'
    BY <1>4, <1>5, <1>6, <1>7, <1>8 DEF SendInv, OwnersHold, CallOf, TypeOK
  <1>11. SingleOwner'
    <2>1. \A q \in Requests : pc'[q] = "acting" /\ q # r =>
            /\ pc[q] = "acting" /\ job'[q] = job[q]
            /\ job'[q].entry \in Entries \ {e}
      BY <1>5, <1>6 DEF TypeOK
    <2>2. status'[e] = "pending" /\ \A f \in Entries : f # e => status'[f] = status[f]
      BY <1>1, <1>4 DEF TypeOK
    <2>3. ASSUME NEW q \in Requests, pc'[q] = "acting"
          PROVE  \/ status'[job'[q].entry] = "pending"
                 \/ account'[AccountOf(job'[q].entry)] = "deleted"
      BY <1>4, <1>5, <2>1, <2>2, <2>3 DEF SendInv, SingleOwner
    <2>4. ASSUME NEW p \in Requests, NEW q \in Requests, pc'[p] = "acting",
                 pc'[q] = "acting", job'[p].entry = job'[q].entry
          PROVE  p = q
      BY <1>5, <2>1, <2>4 DEF SendInv, SingleOwner
    <2>5. QED
      BY <2>3, <2>4 DEF SingleOwner
  <1>12. VerdictsStand'
    BY <1>1, <1>4, <1>8 DEF SendInv, VerdictsStand, TypeOK
  <1>13. RetryOnlyWhenUndelivered'
    BY <1>1, <1>4, <1>7 DEF SendInv, RetryOnlyWhenUndelivered, CallsOf, TypeOK
  <1>14. RowsHaveAccounts' /\ SettledRowsName'
    BY <1>1, <1>2, <1>4 DEF SendInv, RowsHaveAccounts, SettledRowsName, TypeOK
  <1>15. QED
    BY <1>9, <1>10, <1>11, <1>12, <1>13, <1>14 DEF SendInv

(* An answer closes at most its own call, and only a rejection makes its   *)
(* row retryable; afterwards the request no longer acts.                   *)
LEMMA ReturnSendInv ==
  ASSUME TypeOK, SendInv, NEW r \in Requests, NEW answer \in Answers,
         ActionReturns(r, answer)
  PROVE  SendInv'
  <1> DEFINE e == job[r].entry
             c == CallOf(r)
             s == Outcome(Kind[AccountOf(e)], answer)
             id == IF s = "sent" THEN job[r].call ELSE NoResult
             v == [entry |-> e, verdict |-> s, id |-> id]
  <1>1. e \in Entries /\ c.entry = e /\ c = [entry |-> e, id |-> job[r].call]
    BY DEF ActionReturns, TypeOK, Job, CallOf
  <1>2. /\ s \in {"sent", "failed", "unknown"}
        /\ s = "sent" => c \in accepted
        /\ s = "failed" => c \in open /\ answer = "rejected"
    BY OutcomeIsConfirmed DEF ActionReturns
  <1>3. /\ Mark(e, s, id) /\ Tell(e, s, id)
        /\ open' = IF answer = "rejected" THEN open \ {c} ELSE open
        /\ UNCHANGED <<account, accepted>>
    BY DEF ActionReturns, admin
  <1>4. /\ pc'[r] = "idle"
        /\ \A q \in Requests : q # r => pc'[q] = pc[q] /\ job'[q] = job[q]
    BY DEF ActionReturns, Finish, TypeOK
  <1>5. pc[r] = "acting"
    BY DEF ActionReturns
  <1>6. /\ \A w \in told : w.entry # e
        /\ c \in open \cup accepted
        /\ status[e] = "pending" \/ account[AccountOf(e)] = "deleted"
        /\ \A q \in Requests : pc'[q] = "acting" =>
             /\ q # r /\ pc[q] = "acting" /\ job'[q] = job[q]
             /\ job[q].entry \in Entries \ {e}
    BY <1>4, <1>5 DEF SendInv, OwnersHold, SingleOwner, TypeOK, Job
  <1>7. /\ s = "sent" => id = job[r].call
        /\ s # "sent" => id = NoResult
        /\ v.entry = e /\ v.verdict = s /\ v.id = id
    OBVIOUS
  <1>8. told' = IF s \in {"sent", "unknown"} THEN told \cup {v} ELSE told
    BY <1>3 DEF Tell
  <1>9. /\ \A f \in Entries : f # e => status'[f] = status[f] /\ result'[f] = result[f]
        /\ account[AccountOf(e)] # "deleted" => status'[e] = s /\ result'[e] = id
        /\ account[AccountOf(e)] = "deleted" => status' = status /\ result' = result
    BY <1>1, <1>3 DEF Mark, TypeOK
  <1> HIDE DEF e, c, s, id, v
  <1>10. OneLiveCall'
    BY <1>3 DEF SendInv, OneLiveCall
  <1>11. OwnersHold'
    <2> SUFFICES ASSUME NEW q \in Requests, pc'[q] = "acting"
                 PROVE  /\ CallOf(q)' \in open' \cup accepted'
                        /\ \A w \in told' : w.entry # job'[q].entry
      BY DEF OwnersHold
    <2>1. CallOf(q)' = CallOf(q) /\ CallOf(q) # c
      BY <1>1, <1>6 DEF CallOf
    <2>2. CallOf(q) \in open' \cup accepted'
      BY <1>3, <1>6, <2>1 DEF SendInv, OwnersHold
    <2>3. \A w \in told' : w.entry # job'[q].entry
      BY <1>6, <1>7, <1>8 DEF SendInv, OwnersHold
    <2>4. QED
      BY <2>1, <2>2, <2>3
  <1>12. SingleOwner'
    BY <1>3, <1>6, <1>9 DEF SendInv, SingleOwner
  <1>13. VerdictsStand'
    <2> SUFFICES ASSUME NEW w \in told'
                 PROVE  /\ w.verdict = "sent"
                             => [entry |-> w.entry, id |-> w.id] \in accepted'
                        /\ \A x \in told' : x.entry = w.entry => x = w
                        /\ \/ account'[AccountOf(w.entry)] = "deleted"
                           \/ status'[w.entry] = w.verdict /\ result'[w.entry] = w.id
      BY DEF VerdictsStand
    <2>1. CASE w \in told
      <3>1. w.entry \in Entries \ {e}
        BY <1>6, <2>1 DEF TypeOK, Verdict
      <3>2. QED
        BY <1>3, <1>7, <1>8, <1>9, <2>1, <3>1 DEF SendInv, VerdictsStand
    <2>2. CASE w \notin told
      <3>1. w = v /\ s \in {"sent", "unknown"}
        BY <1>8, <2>2
      <3>2. \A x \in told' : x.entry = e => x = v
        BY <1>6, <1>8
      <3>3. s = "sent" => [entry |-> e, id |-> id] \in accepted
        BY <1>1, <1>2, <1>7
      <3>4. QED
        BY <1>3, <1>7, <1>9, <3>1, <3>2, <3>3
    <2>3. QED
      BY <2>1, <2>2
  <1>14. RetryOnlyWhenUndelivered'
    <2> SUFFICES ASSUME NEW f \in Entries, status'[f] \in {"none", "failed"},
                        account'[AccountOf(f)] # "deleted"
                 PROVE  CallsOf(f)' = {}
      BY DEF RetryOnlyWhenUndelivered
    <2>1. CASE f # e
      BY <1>3, <1>9, <2>1 DEF SendInv, RetryOnlyWhenUndelivered, CallsOf
    <2>2. CASE f = e
      <3>1. answer = "rejected" /\ c \in open
        BY <1>2, <1>3, <1>9, <2>2
      <3>2. \A d \in open \cup accepted : d.entry = e => d = c
        BY <1>1, <1>6 DEF SendInv, OneLiveCall
      <3>3. c \notin accepted
        BY <3>1 DEF SendInv, OneLiveCall
      <3>4. QED
        BY <1>3, <2>2, <3>1, <3>2, <3>3 DEF CallsOf
    <2>3. QED
      BY <2>1, <2>2
  <1>15. RowsHaveAccounts'
    BY <1>3, <1>9 DEF SendInv, RowsHaveAccounts
  <1>16. SettledRowsName'
    <2> SUFFICES ASSUME NEW f \in Entries
                 PROVE  /\ status'[f] = "sent"
                             => [entry |-> f, id |-> result'[f]] \in accepted'
                        /\ status'[f] = "unknown" => result'[f] = NoResult
      BY DEF SettledRowsName
    <2>1. CASE f # e \/ account[AccountOf(e)] = "deleted"
      BY <1>3, <1>9, <2>1 DEF SendInv, SettledRowsName
    <2>2. CASE f = e /\ account[AccountOf(e)] # "deleted"
      BY <1>1, <1>2, <1>3, <1>7, <1>9, <2>2
    <2>3. QED
      BY <2>1, <2>2
  <1>17. QED
    BY <1>10, <1>11, <1>12, <1>13, <1>14, <1>15, <1>16 DEF SendInv

(* Moving a call from open to accepted keeps one live call per key. *)
LEMMA AcceptSendInv ==
  ASSUME TypeOK, SendInv, NEW c \in open, ProviderAccepts(c)
  PROVE  SendInv'
  <1>1. /\ open' \cup accepted' = open \cup accepted
        /\ open' \cap accepted' = {} /\ accepted \subseteq accepted'
        /\ UNCHANGED <<account, status, result, pc, job, told>>
    BY DEF ProviderAccepts, admin, ledger, requests, SendInv, OneLiveCall
  <1>2. OneLiveCall' /\ OwnersHold' /\ RetryOnlyWhenUndelivered'
    BY <1>1 DEF SendInv, OneLiveCall, OwnersHold, RetryOnlyWhenUndelivered,
       CallsOf, CallOf
  <1>3. SingleOwner' /\ VerdictsStand' /\ RowsHaveAccounts' /\ SettledRowsName'
    BY <1>1 DEF SendInv, SingleOwner, VerdictsStand, RowsHaveAccounts,
       SettledRowsName
  <1>4. QED
    BY <1>2, <1>3 DEF SendInv

(* Nor does the administrator disturb it: a deleted account stays deleted, *)
(* and its rows are gone.                                                  *)
LEMMA AdminSendInv ==
  ASSUME TypeOK, SendInv, NEW a \in Accounts, AdminStep(a)
  PROVE  SendInv'
  <1>1. ASSUME NEW on \in BOOLEAN, SetEnabled(a, on)
        PROVE  SendInv'
    <2>1. \A b \in Accounts : account'[b] = "deleted" <=> account[b] = "deleted"
      BY <1>1 DEF SetEnabled, TypeOK
    <2>2. UNCHANGED <<status, result, open, accepted, pc, job, told>>
      BY <1>1 DEF SetEnabled, ledger, requests, provider
    <2>3. /\ \A r \in Requests : pc[r] = "acting" => job[r].entry \in Entries
          /\ \A v \in told : v.entry \in Entries
      BY DEF TypeOK, Job, Verdict
    <2>4. SingleOwner' /\ VerdictsStand'
      BY <2>1, <2>2, <2>3, AccountOfEntry DEF SendInv, SingleOwner, VerdictsStand
    <2>5. RetryOnlyWhenUndelivered' /\ RowsHaveAccounts'
      BY <2>1, <2>2, AccountOfEntry
      DEF SendInv, RetryOnlyWhenUndelivered, RowsHaveAccounts, CallsOf
    <2>6. OneLiveCall' /\ OwnersHold' /\ SettledRowsName'
      BY <2>2 DEF SendInv, OneLiveCall, OwnersHold, SettledRowsName, CallOf
    <2>7. QED
      BY <2>4, <2>5, <2>6 DEF SendInv
  <1>2. ASSUME NEW on \in BOOLEAN, SetGranted(a, on)
        PROVE  SendInv'
    BY <1>2, FrameSendInv DEF SetGranted, ledger, requests, provider, NoNewOwner
  <1>3. CASE DeleteAccount(a)
    <2>1. /\ account'[a] = "deleted"
          /\ \A b \in Accounts : b # a => account'[b] = account[b]
      BY <1>3 DEF DeleteAccount, TypeOK
    <2>2. \A e \in Entries :
            IF AccountOf(e) = a THEN status'[e] = "none"
            ELSE status'[e] = status[e] /\ result'[e] = result[e]
      BY <1>3 DEF DeleteAccount
    <2>3. UNCHANGED <<open, accepted, pc, job, told>>
      BY <1>3 DEF DeleteAccount, requests, provider
    <2>4. /\ \A r \in Requests : pc[r] = "acting" => job[r].entry \in Entries
          /\ \A v \in told : v.entry \in Entries
      BY DEF TypeOK, Job, Verdict
    <2>5. SingleOwner'
      BY <2>1, <2>2, <2>3, <2>4, AccountOfEntry DEF SendInv, SingleOwner
    <2>6. VerdictsStand'
      BY <2>1, <2>2, <2>3, <2>4, AccountOfEntry DEF SendInv, VerdictsStand
    <2>7. RetryOnlyWhenUndelivered' /\ RowsHaveAccounts'
      BY <2>1, <2>2, <2>3, AccountOfEntry
      DEF SendInv, RetryOnlyWhenUndelivered, RowsHaveAccounts, CallsOf
    <2>8. OneLiveCall' /\ OwnersHold'
      BY <2>3 DEF SendInv, OneLiveCall, OwnersHold, CallOf
    <2>9. SettledRowsName'
      BY <2>2, <2>3 DEF SendInv, SettledRowsName
    <2>10. QED
      BY <2>5, <2>6, <2>7, <2>8, <2>9 DEF SendInv
  <1>4. QED
    BY <1>1, <1>2, <1>3 DEF AdminStep

(* Every step preserves the inductive invariant. *)
LEMMA NextSendInv == TypeOK /\ SendInv /\ [Next]_vars => SendInv'
  <1> SUFFICES ASSUME TypeOK, SendInv, [Next]_vars
               PROVE  SendInv'
    OBVIOUS
  <1>1. ASSUME NEW r \in Requests, RequestStep(r)
        PROVE  SendInv'
    <2> USE DEF admin, ledger, provider, requests
    <2>1. ASSUME NEW e \in Entries, RefuseAccess(r, e)
          PROVE  SendInv'
      BY <2>1, FrameSendInv DEF RefuseAccess, vars, NoNewOwner
    <2>2. ASSUME NEW e \in Entries, AnswerFromLedger(r, e)
          PROVE  SendInv'
      BY <2>2, TellSendInv DEF AnswerFromLedger, MayUse, NoNewOwner
    <2>3. ASSUME NEW e \in Entries, BeginPreparing(r, e)
          PROVE  SendInv'
      BY <2>3, FrameSendInv DEF BeginPreparing, NoNewOwner, TypeOK
    <2>4. CASE PreparationFails(r) \/ RateLimited(r) \/ LedgerWriteFails(r)
      BY <2>4, FrameSendInv
      DEF PreparationFails, RateLimited, LedgerWriteFails, Finish, NoNewOwner, TypeOK
    <2>5. CASE Claim(r)
      BY <2>5, ClaimSendInv
    <2>6. CASE LoseClaim(r)
      <3> DEFINE e == job[r].entry
      <3>1. e \in Entries
        BY <2>6 DEF LoseClaim, TypeOK, Job
      <3>2. /\ Tell(e, status[e], result[e]) /\ Finish(r)
            /\ UNCHANGED <<account, status, result, open, accepted>>
        BY <2>6 DEF LoseClaim
      <3>3. NoNewOwner
        BY <3>2 DEF Finish, NoNewOwner, TypeOK
      <3>4. CASE account[AccountOf(e)] = "deleted"
        <4>1. status[e] = "none"
          BY <3>1, <3>4 DEF SendInv, RowsHaveAccounts
        <4>2. told' = told
          BY <3>2, <4>1 DEF Tell
        <4>3. QED
          BY <3>2, <3>3, <4>2, FrameSendInv
      <3>5. CASE account[AccountOf(e)] # "deleted"
        BY <3>1, <3>2, <3>3, <3>5, TellSendInv
      <3>6. QED
        BY <3>4, <3>5
    <2>7. ASSUME NEW answer \in Answers, ActionReturns(r, answer)
          PROVE  SendInv'
      BY <2>7, ReturnSendInv
    <2>8. QED
      BY <1>1, <2>1, <2>2, <2>3, <2>4, <2>5, <2>6, <2>7 DEF RequestStep
  <1>2. ASSUME NEW a \in Accounts, AdminStep(a)
        PROVE  SendInv'
    BY <1>2, AdminSendInv
  <1>3. ASSUME NEW c \in open, ProviderAccepts(c)
        PROVE  SendInv'
    BY <1>3, AcceptSendInv
  <1>4. CASE Restart \/ Tick \/ UNCHANGED vars
    BY <1>4, FrameSendInv
    DEF Restart, Tick, vars, admin, ledger, provider, requests, NoNewOwner
  <1>5. QED
    BY <1>1, <1>2, <1>3, <1>4 DEF Next

(* The inductive invariant holds in every reachable state. *)
THEOREM SendInvariant == Spec => []SendInv
  <1>1. Spec => []TypeOK
    BY TypeCorrect
  <1>2. QED
    BY <1>1, InitSendInv, NextSendInv, PTL DEF Spec

(* At most one mail is accepted per idempotency key, through retries of    *)
(* runIdempotentOperation, restarts and account changes.                   *)
THEOREM AtMostOnceHolds == Spec => []AtMostOnce
  <1>1. SendInv => AtMostOnce
    BY DEF SendInv, OneLiveCall, AtMostOnce
  <1>2. QED
    BY <1>1, SendInvariant, PTL

(* A row that can be claimed has no call that delivered or could deliver. *)
THEOREM RetrySafe == Spec => []RetryOnlyWhenUndelivered
  <1>1. SendInv => RetryOnlyWhenUndelivered
    BY DEF SendInv
  <1>2. QED
    BY <1>1, SendInvariant, PTL

(* What callers were told about a key stays true. *)
THEOREM VerdictsStandHolds == Spec => []VerdictsStand
  <1>1. SendInv => VerdictsStand
    BY DEF SendInv
  <1>2. QED
    BY <1>1, SendInvariant, PTL

(* Two requests never act for one key, and the row of one is pending. *)
THEOREM SingleOwnerHolds == Spec => []SingleOwner
  <1>1. SendInv => SingleOwner
    BY DEF SendInv
  <1>2. QED
    BY <1>1, SendInvariant, PTL

-------------------------------------------------------------------------------
(* What a step may never do. *)

(* The steps that write a row: its account's deletion, a claim of an       *)
(* unclaimed row, and the answer to the request that acts for it.          *)
RowMoves(e) ==
  \/ status'[e] = status[e] /\ result'[e] = result[e]
  \/ account'[AccountOf(e)] = "deleted"
  \/ status[e] \in {"none", "failed"}
  \/ status[e] = "pending" /\ \E r \in Requests : pc[r] = "acting" /\ job[r].entry = e

LEMMA RowsMove ==
  ASSUME TypeOK, SendInv, [Next]_vars, NEW e \in Entries
  PROVE  RowMoves(e)
  <1> USE DEF admin, ledger, provider, requests
  <1>1. ASSUME NEW r \in Requests, RequestStep(r)
        PROVE  RowMoves(e)
    <2>1. ASSUME NEW f \in Entries,
                 RefuseAccess(r, f) \/ AnswerFromLedger(r, f) \/ BeginPreparing(r, f)
          PROVE  RowMoves(e)
      BY <2>1 DEF RefuseAccess, AnswerFromLedger, BeginPreparing, vars, RowMoves
    <2>2. CASE \/ PreparationFails(r) \/ RateLimited(r) \/ LoseClaim(r)
               \/ LedgerWriteFails(r)
      BY <2>2 DEF PreparationFails, RateLimited, LoseClaim, LedgerWriteFails, RowMoves
    <2>3. CASE Claim(r)
      <3>1. status[job[r].entry] \in {"none", "failed"}
        BY <2>3 DEF Claim, Claimable
      <3>2. /\ \A f \in Entries : f # job[r].entry => status'[f] = status[f]
            /\ result' = result
        BY <2>3 DEF Claim, TypeOK
      <3>3. QED
        BY <3>1, <3>2 DEF RowMoves
    <2>4. ASSUME NEW answer \in Answers, ActionReturns(r, answer)
          PROVE  RowMoves(e)
      <3> DEFINE f == job[r].entry
                 s == Outcome(Kind[AccountOf(f)], answer)
                 id == IF s = "sent" THEN job[r].call ELSE NoResult
      <3>1. pc[r] = "acting" /\ Mark(f, s, id) /\ account' = account
        BY <2>4 DEF ActionReturns
      <3> HIDE DEF s, id
      <3>2. CASE account[AccountOf(f)] = "deleted"
        BY <3>1, <3>2 DEF Mark, RowMoves
      <3>3. CASE account[AccountOf(f)] # "deleted"
        <4>1. status[f] = "pending"
          BY <3>1, <3>3 DEF SendInv, SingleOwner
        <4>2. e # f => status'[e] = status[e] /\ result'[e] = result[e]
          BY <3>1 DEF Mark, TypeOK
        <4>3. QED
          BY <3>1, <4>1, <4>2 DEF RowMoves
      <3>4. QED
        BY <3>2, <3>3
    <2>5. QED
      BY <1>1, <2>1, <2>2, <2>3, <2>4 DEF RequestStep
  <1>2. ASSUME NEW a \in Accounts, AdminStep(a)
        PROVE  RowMoves(e)
    <2>1. ASSUME NEW on \in BOOLEAN, SetEnabled(a, on) \/ SetGranted(a, on)
          PROVE  RowMoves(e)
      BY <2>1 DEF SetEnabled, SetGranted, RowMoves
    <2>2. CASE DeleteAccount(a)
      BY <2>2 DEF DeleteAccount, RowMoves, TypeOK
    <2>3. QED
      BY <1>2, <2>1, <2>2 DEF AdminStep
  <1>3. ASSUME NEW c \in open, ProviderAccepts(c)
        PROVE  RowMoves(e)
    BY <1>3 DEF ProviderAccepts, RowMoves
  <1>4. CASE Restart \/ Tick \/ UNCHANGED vars
    BY <1>4 DEF Restart, Tick, vars, RowMoves
  <1>5. QED
    BY <1>1, <1>2, <1>3, <1>4 DEF Next

(* A provider call begins only with the claim of a row that could be       *)
(* claimed, of an account that exists.                                     *)
LEMMA CallsBegin ==
  ASSUME TypeOK, SendInv, [Next]_vars, NEW c \in open' \ open
  PROVE  /\ c.entry \in Entries
         /\ status[c.entry] \in {"none", "failed"}
         /\ account[AccountOf(c.entry)] # "deleted"
  <1> USE DEF admin, ledger, provider, requests
  <1>1. ASSUME NEW r \in Requests, RequestStep(r)
        PROVE  /\ c.entry \in Entries
               /\ status[c.entry] \in {"none", "failed"}
               /\ account[AccountOf(c.entry)] # "deleted"
    <2>1. ASSUME NEW f \in Entries,
                 RefuseAccess(r, f) \/ AnswerFromLedger(r, f) \/ BeginPreparing(r, f)
          PROVE  FALSE
      BY <2>1 DEF RefuseAccess, AnswerFromLedger, BeginPreparing, vars
    <2>2. ~ \/ PreparationFails(r) \/ RateLimited(r) \/ LoseClaim(r)
            \/ LedgerWriteFails(r)
      BY DEF PreparationFails, RateLimited, LoseClaim, LedgerWriteFails
    <2>3. CASE Claim(r)
      <3>1. c.entry = job[r].entry /\ job[r].entry \in Entries
        BY <2>3 DEF Claim, TypeOK, Job
      <3>2. IF job[r].reclaim THEN status[c.entry] = "failed"
            ELSE status[c.entry] = "none" /\ account[AccountOf(c.entry)] # "deleted"
        BY <2>3, <3>1 DEF Claim, Claimable
      <3>3. QED
        BY <3>1, <3>2 DEF SendInv, RowsHaveAccounts
    <2>4. ASSUME NEW answer \in Answers, ActionReturns(r, answer)
          PROVE  FALSE
      BY <2>4 DEF ActionReturns
    <2>5. QED
      BY <1>1, <2>1, <2>2, <2>3, <2>4 DEF RequestStep
  <1>2. ASSUME NEW a \in Accounts, AdminStep(a)
        PROVE  FALSE
    BY <1>2 DEF AdminStep, SetEnabled, SetGranted, DeleteAccount
  <1>3. ASSUME NEW d \in open, ProviderAccepts(d)
        PROVE  FALSE
    BY <1>3 DEF ProviderAccepts
  <1>4. ~(Restart \/ Tick \/ UNCHANGED vars)
    BY DEF Restart, Tick, vars
  <1>5. QED
    BY <1>1, <1>2, <1>3, <1>4 DEF Next

(* A settled row is final, through retries, late answers and restarts. *)
THEOREM SettledIsFinalHolds == Spec => SettledIsFinal
  <1>1. TypeOK /\ SendInv /\ [Next]_vars =>
          [\A e \in Entries :
             status[e] \in {"sent", "unknown"} =>
               \/ status'[e] = status[e] /\ result'[e] = result[e]
               \/ account'[AccountOf(e)] = "deleted"]_vars
    BY RowsMove DEF RowMoves
  <1>2. QED
    BY <1>1, TypeCorrect, SendInvariant, PTL DEF Spec, SettledIsFinal

(* A pending row that no request acts for is never retried. *)
THEOREM OrphansStayPendingHolds == Spec => OrphansStayPending
  <1>1. TypeOK /\ SendInv /\ [Next]_vars =>
          [\A e \in Entries :
             /\ status[e] = "pending"
             /\ \A r \in Requests : pc[r] = "acting" => job[r].entry # e
             => \/ account'[AccountOf(e)] = "deleted"
                \/ /\ status'[e] = "pending"
                   /\ \A c \in open' \ open : c.entry # e]_vars
    BY RowsMove, CallsBegin DEF RowMoves
  <1>2. QED
    BY <1>1, TypeCorrect, SendInvariant, PTL DEF Spec, OrphansStayPending

(* No provider call begins for an account that has been deleted. *)
THEOREM DeletedAccountNeverCalledHolds == Spec => DeletedAccountNeverCalled
  <1>1. TypeOK /\ SendInv /\ [Next]_vars =>
          [\A c \in open' \ open : account[AccountOf(c.entry)] # "deleted"]_vars
    BY CallsBegin
  <1>2. QED
    BY <1>1, TypeCorrect, SendInvariant, PTL DEF Spec, DeletedAccountNeverCalled
-------------------------------------------------------------------------------
(* The rate limit. *)

(* What the bound needs: no attempt lies in the future, and the window a   *)
(* suspended request counts from began no later than the present one.      *)
AttemptsPast == \A a \in Accounts : \A i \in DOMAIN attempts[a] : attempts[a][i] <= now

WindowsOld ==
  \A r \in Requests : pc[r] = "preparing" => job[r].since <= now - Window

RateInv == AttemptsPast /\ WindowsOld /\ RateBound

(* An index set is finite. *)
LEMMA IndicesFinite ==
  ASSUME NEW n \in Nat
  PROVE  IsFiniteSet(1..n)
  <1>1. 1..n \in SUBSET Nat /\ \A i \in 1..n : i <= n
    OBVIOUS
  <1>2. QED
    BY <1>1, FS_BoundedSetOfNaturals

(* The attempts of an account that a window ending at t contains. *)
Within(a, t) == {i \in DOMAIN attempts[a] : attempts[a][i] \in (t - Window)..t}

LEMMA WithinFinite ==
  ASSUME TypeOK, NEW a \in Accounts, NEW t
  PROVE  IsFiniteSet(Within(a, t)) /\ Cardinality(Within(a, t)) \in Nat
  <1>1. DOMAIN attempts[a] = 1..Len(attempts[a]) /\ Len(attempts[a]) \in Nat
    BY DEF TypeOK
  <1>2. IsFiniteSet(1..Len(attempts[a]))
    BY <1>1, IndicesFinite
  <1>3. Within(a, t) \subseteq DOMAIN attempts[a]
    BY DEF Within
  <1>4. QED
    BY <1>1, <1>2, <1>3, FS_Subset, FS_CardinalityType

(* No attempt is counted twice: a later state whose windows contain only   *)
(* what some window of the earlier state contained keeps the bound.        *)
LEMMA RateBoundKept ==
  ASSUME TypeOK, RateBound, BoundsAssumption,
         \A a \in Accounts, t \in 0..now' :
           Within(a, t)' = {} \/ \E u \in 0..now : Within(a, t)' \subseteq Within(a, u)
  PROVE  RateBound'
  <1> SUFFICES ASSUME NEW a \in Accounts, NEW t \in 0..now'
               PROVE  Cardinality(Within(a, t)') <= MaxSends
    BY DEF RateBound, Within
  <1>1. CASE Within(a, t)' = {}
    BY <1>1, FS_EmptySet DEF BoundsAssumption
  <1>2. CASE \E u \in 0..now : Within(a, t)' \subseteq Within(a, u)
    <2>1. PICK u \in 0..now : Within(a, t)' \subseteq Within(a, u)
      BY <1>2
    <2>2. Cardinality(Within(a, u)) <= MaxSends
      BY DEF RateBound, Within
    <2>3. /\ Cardinality(Within(a, t)') <= Cardinality(Within(a, u))
          /\ IsFiniteSet(Within(a, t)')
      BY <2>1, WithinFinite, FS_Subset
    <2>4. Cardinality(Within(a, t)') \in Nat /\ Cardinality(Within(a, u)) \in Nat
      BY <2>3, WithinFinite, FS_CardinalityType
    <2>5. QED
      BY <2>2, <2>3, <2>4 DEF BoundsAssumption
  <1>3. QED
    BY <1>1, <1>2

(* Steps that leave the clock alone and drop whole accounts at most. *)
LEMMA FrameRateInv ==
  ASSUME TypeOK, RateInv, BoundsAssumption, now' = now,
         \A a \in Accounts : attempts'[a] = attempts[a] \/ attempts'[a] = <<>>,
         \A q \in Requests : pc'[q] = "preparing" => pc[q] = "preparing" /\ job'[q] = job[q]
  PROVE  RateInv'
  <1>1. AttemptsPast' /\ WindowsOld'
    BY DEF RateInv, AttemptsPast, WindowsOld
  <1>2. \A a \in Accounts, t \in 0..now' :
          Within(a, t)' = {} \/ \E u \in 0..now : Within(a, t)' \subseteq Within(a, u)
    BY DEF Within
  <1>3. QED
    BY <1>1, <1>2, RateBoundKept DEF RateInv

(* A claim is counted against a window that began no later than now's. *)
LEMMA ClaimRateInv ==
  ASSUME TypeOK, RateInv, BoundsAssumption, NEW r \in Requests, Claim(r)
  PROVE  RateInv'
  <1>0. PICK b \in Accounts : b = AccountOf(job[r].entry)
    BY AccountOfEntry DEF Claim, TypeOK, Job
  <1>1. job[r] \in Job /\ pc[r] = "preparing" /\ now' = now /\ now \in Nat
    BY DEF Claim, TypeOK
  <1>2. attempts' = [attempts EXCEPT ![b] = Append(@, now)]
    BY <1>0 DEF Claim, RecordAttempt
  <1>3. \A a \in Accounts : a # b => attempts'[a] = attempts[a]
    BY <1>2 DEF TypeOK
  <1>4. /\ attempts'[b] = Append(attempts[b], now)
        /\ attempts[b] \in Seq(Nat) /\ now \in Nat
    BY <1>1, <1>2 DEF TypeOK
  <1>n. PICK n \in Nat : n = Len(attempts[b])
    BY <1>4
  <1>5. /\ DOMAIN attempts[b] = 1..n /\ DOMAIN attempts'[b] = 1..(n + 1)
        /\ attempts'[b][n + 1] = now
        /\ \A i \in 1..n : attempts'[b][i] = attempts[b][i] /\ attempts[b][i] \in Nat
    <2>1. Len(Append(attempts[b], now)) = n + 1
      BY <1>4, <1>n
    <2>2. \A i \in 1..(n + 1) :
            Append(attempts[b], now)[i] = IF i <= n THEN attempts[b][i] ELSE now
      BY <1>4, <1>n
    <2>3. DOMAIN attempts'[b] = 1..(n + 1)
      BY <1>4, <1>n, <2>1
    <2>4. DOMAIN attempts[b] = 1..n /\ \A i \in 1..n : attempts[b][i] \in Nat
      BY <1>4, <1>n
    <2>5. QED
      BY <1>4, <2>2, <2>3, <2>4
  <1>6. \A q \in Requests : pc'[q] = "preparing" =>
          pc[q] = "preparing" /\ job'[q] = job[q]
    BY DEF Claim, TypeOK
  <1>7. job[r].since \in Int /\ job[r].since <= now - Window
    BY <1>1 DEF RateInv, WindowsOld, Job
  <1>8. RecentAttempts(b, job[r].since) < MaxSends
    BY <1>0 DEF Claim, WithinRate
  <1>9. AttemptsPast'
    <2> SUFFICES ASSUME NEW a \in Accounts, NEW i \in DOMAIN attempts'[a]
                 PROVE  attempts'[a][i] <= now
      BY <1>1 DEF AttemptsPast
    <2>1. CASE a # b
      BY <1>3, <2>1 DEF RateInv, AttemptsPast
    <2>2. CASE a = b
      <3>1. CASE i \in 1..n
        <4>1. attempts[b][i] <= now
          BY <1>5, <3>1 DEF RateInv, AttemptsPast
        <4>2. QED
          BY <1>5, <2>2, <3>1, <4>1
      <3>2. CASE i = n + 1
        BY <1>1, <1>5, <2>2, <3>2
      <3>3. QED
        BY <1>5, <2>2, <3>1, <3>2
    <2>3. QED
      BY <2>1, <2>2
  <1>10. WindowsOld'
    BY <1>1, <1>6 DEF RateInv, WindowsOld
  <1>11. ASSUME NEW a \in Accounts, NEW t \in 0..now', ~(a = b /\ t = now)
         PROVE  Within(a, t)' \subseteq Within(a, t)
    <2>1. CASE a # b
      BY <1>3, <2>1 DEF Within
    <2>2. CASE a = b
      <3>1. t < now
        BY <1>1, <1>4, <1>11, <2>2
      <3>2. QED
        BY <1>1, <1>5, <2>2, <3>1 DEF Within
    <2>3. QED
      BY <2>1, <2>2
  <1>12. ASSUME NEW t \in 0..now', t = now
         PROVE  Cardinality(Within(b, t)') <= MaxSends
    <2> DEFINE R == {i \in DOMAIN attempts[b] : attempts[b][i] >= job[r].since}
    <2>1. Cardinality(R) < MaxSends
      BY <1>8 DEF RecentAttempts
    <2>2. IsFiniteSet(R)
      <3>1. IsFiniteSet(1..n) /\ R \subseteq 1..n
        BY <1>5, IndicesFinite
      <3>2. QED
        BY <3>1, FS_Subset
    <2>3. Within(b, t)' \subseteq R \cup {n + 1}
      <3> SUFFICES ASSUME NEW i \in 1..n, attempts[b][i] \in (t - Window)..t
                   PROVE  attempts[b][i] >= job[r].since
        BY <1>5 DEF Within
      <3>1. attempts[b][i] \in Nat
        BY <1>5
      <3>2. QED
        BY <1>1, <1>7, <1>12, <3>1 DEF BoundsAssumption
    <2> HIDE DEF R
    <2>4. IsFiniteSet(R \cup {n + 1}) /\ Cardinality(R \cup {n + 1}) <= Cardinality(R) + 1
      <3>1. /\ IsFiniteSet(R \cup {n + 1})
            /\ Cardinality(R \cup {n + 1})
                 = IF n + 1 \in R THEN Cardinality(R) ELSE Cardinality(R) + 1
        BY <2>2, FS_AddElement
      <3>2. Cardinality(R) \in Nat
        BY <2>2, FS_CardinalityType
      <3>3. QED
        BY <3>1, <3>2
    <2>5. /\ Cardinality(Within(b, t)') <= Cardinality(R \cup {n + 1})
          /\ Cardinality(Within(b, t)') \in Nat
      BY <2>3, <2>4, FS_Subset, FS_CardinalityType
    <2>6. Cardinality(R) \in Nat /\ Cardinality(R \cup {n + 1}) \in Nat
      BY <2>2, <2>4, FS_CardinalityType
    <2>7. QED
      BY <2>1, <2>4, <2>5, <2>6 DEF BoundsAssumption
  <1>13. RateBound'
    <2> SUFFICES ASSUME NEW a \in Accounts, NEW t \in 0..now'
                 PROVE  Cardinality(Within(a, t)') <= MaxSends
      BY DEF RateBound, Within
    <2>1. CASE a = b /\ t = now
      BY <1>12, <2>1
    <2>2. CASE ~(a = b /\ t = now)
      <3>1. Cardinality(Within(a, t)') <= Cardinality(Within(a, t))
            /\ IsFiniteSet(Within(a, t)')
        BY <1>11, <2>2, WithinFinite, FS_Subset
      <3>2. Cardinality(Within(a, t)') \in Nat /\ Cardinality(Within(a, t)) \in Nat
        BY <3>1, WithinFinite, FS_CardinalityType
      <3>3. Cardinality(Within(a, t)) <= MaxSends
        BY <1>1 DEF RateInv, RateBound, Within
      <3>4. QED
        BY <3>1, <3>2, <3>3 DEF BoundsAssumption
    <2>3. QED
      BY <2>1, <2>2
  <1>14. QED
    BY <1>9, <1>10, <1>13 DEF RateInv

(* Every step keeps the bound and what it needs. *)
LEMMA NextRateInv ==
  TypeOK /\ RateInv /\ BoundsAssumption /\ [Next]_vars => RateInv'
  <1> SUFFICES ASSUME TypeOK, RateInv, BoundsAssumption, [Next]_vars
               PROVE  RateInv'
    OBVIOUS
  <1> USE DEF admin, ledger, provider, requests
  <1>1. ASSUME NEW r \in Requests, RequestStep(r)
        PROVE  RateInv'
    <2>1. ASSUME NEW e \in Entries, RefuseAccess(r, e) \/ AnswerFromLedger(r, e)
          PROVE  RateInv'
      BY <2>1, FrameRateInv DEF RefuseAccess, AnswerFromLedger, vars
    <2>2. ASSUME NEW e \in Entries, BeginPreparing(r, e)
          PROVE  RateInv'
      <3>1. UNCHANGED <<attempts, now>>
        BY <2>2 DEF BeginPreparing
      <3>2. AttemptsPast'
        BY <3>1 DEF RateInv, AttemptsPast
      <3>3. WindowsOld'
        <4>1. /\ job'[r].since = now - Window
              /\ \A q \in Requests : q # r => pc'[q] = pc[q] /\ job'[q] = job[q]
          BY <2>2 DEF BeginPreparing, TypeOK
        <4>2. now - Window <= now - Window
          BY DEF TypeOK, BoundsAssumption
        <4>3. QED
          BY <3>1, <4>1, <4>2 DEF RateInv, WindowsOld
      <3>4. RateBound'
        BY <3>1 DEF RateInv, RateBound
      <3>5. QED
        BY <3>2, <3>3, <3>4 DEF RateInv
    <2>3. CASE \/ PreparationFails(r) \/ RateLimited(r) \/ LoseClaim(r)
               \/ LedgerWriteFails(r) \/ \E answer \in Answers : ActionReturns(r, answer)
      BY <2>3, FrameRateInv
      DEF PreparationFails, RateLimited, LoseClaim, LedgerWriteFails, ActionReturns,
          Finish, TypeOK
    <2>4. CASE Claim(r)
      BY <2>4, ClaimRateInv
    <2>5. QED
      BY <1>1, <2>1, <2>2, <2>3, <2>4 DEF RequestStep
  <1>2. ASSUME NEW a \in Accounts, AdminStep(a)
        PROVE  RateInv'
    <2>1. ASSUME NEW on \in BOOLEAN, SetEnabled(a, on) \/ SetGranted(a, on)
          PROVE  RateInv'
      BY <2>1, FrameRateInv DEF SetEnabled, SetGranted
    <2>2. CASE DeleteAccount(a)
      BY <2>2, FrameRateInv DEF DeleteAccount, TypeOK
    <2>3. QED
      BY <1>2, <2>1, <2>2 DEF AdminStep
  <1>3. ASSUME NEW c \in open, ProviderAccepts(c)
        PROVE  RateInv'
    BY <1>3, FrameRateInv DEF ProviderAccepts
  <1>4. CASE Restart \/ UNCHANGED vars
    BY <1>4, FrameRateInv DEF Restart, vars
  <1>5. CASE Tick
    <2>1. now \in Nat /\ now' = now + 1 /\ UNCHANGED <<attempts, pc, job>>
      BY <1>5 DEF Tick, TypeOK
    <2>2. \A a \in Accounts : \A i \in DOMAIN attempts[a] :
            attempts[a][i] \in Nat /\ attempts[a][i] <= now
      BY DEF TypeOK, RateInv, AttemptsPast
    <2>3. AttemptsPast'
      BY <2>1, <2>2 DEF AttemptsPast
    <2>4. WindowsOld'
      <3> SUFFICES ASSUME NEW q \in Requests, pc[q] = "preparing"
                   PROVE  job[q].since <= (now + 1) - Window
        BY <2>1 DEF WindowsOld
      <3>1. job[q].since \in Int /\ job[q].since <= now - Window
        BY DEF TypeOK, Job, RateInv, WindowsOld
      <3>2. QED
        BY <2>1, <3>1 DEF BoundsAssumption
    <2>5. ASSUME NEW a \in Accounts, NEW t \in 0..now'
          PROVE  \E u \in 0..now : Within(a, t)' \subseteq Within(a, u)
      <3>1. CASE t \in 0..now
        BY <2>1, <3>1 DEF Within
      <3>2. CASE t = now + 1
        <4>1. Within(a, t)' \subseteq Within(a, now)
          BY <2>1, <2>2, <3>2 DEF Within, BoundsAssumption
        <4>2. QED
          BY <2>1, <4>1
      <3>3. QED
        BY <2>1, <3>1, <3>2
    <2>6. RateBound'
      BY <2>5, RateBoundKept DEF RateInv
    <2>7. QED
      BY <2>3, <2>4, <2>6 DEF RateInv
  <1>6. QED
    BY <1>1, <1>2, <1>3, <1>4, <1>5 DEF Next

(* No account starts more than MaxSends provider calls in any window, for  *)
(* any number of requests, although each counts a window it fixed before   *)
(* it was suspended.                                                       *)
THEOREM RateBoundHolds == Spec => []RateBound
  <1>1. Init => RateInv
    <2> SUFFICES ASSUME Init
                 PROVE  RateInv
      OBVIOUS
    <2>1. AttemptsPast /\ WindowsOld
      BY DEF Init, AttemptsPast, WindowsOld
    <2>2. RateBound
      <3> SUFFICES ASSUME NEW a \in Accounts, NEW t
                   PROVE  Cardinality(Within(a, t)) <= MaxSends
        BY DEF RateBound, Within
      <3>1. Within(a, t) = {}
        BY DEF Init, Within
      <3>2. QED
        BY <3>1, FS_EmptySet, BoundsAssumption DEF BoundsAssumption
    <2>3. QED
      BY <2>1, <2>2 DEF RateInv
  <1>2. RateInv => RateBound
    BY DEF RateInv
  <1>3. QED
    BY <1>1, <1>2, TypeCorrect, NextRateInv, BoundsAssumption, PTL DEF Spec
-------------------------------------------------------------------------------
(* The refinement of the ledger. *)

Row(e) == IF account[AccountOf(e)] = "deleted" THEN "gone" ELSE status[e]
Delivered(e) == \E c \in accepted : c.entry = e
NoLiveCall(e) == \A c \in open \cup accepted : c.entry # e

(* A set with at most one call per entry holds one or none of an entry's. *)
LEMMA OneOrNone ==
  ASSUME NEW S, \A c, d \in S : c.entry = d.entry => c = d, NEW e
  PROVE  Cardinality({c \in S : c.entry = e}) = IF \E c \in S : c.entry = e THEN 1 ELSE 0
  <1>1. CASE \E c \in S : c.entry = e
    <2>1. PICK c \in S : c.entry = e
      BY <1>1
    <2>2. {d \in S : d.entry = e} = {c}
      BY <2>1
    <2>3. QED
      BY <1>1, <2>2, FS_Singleton
  <1>2. CASE ~ \E c \in S : c.entry = e
    <2>1. {d \in S : d.entry = e} = {}
      BY <1>2
    <2>2. QED
      BY <1>2, <2>1, FS_EmptySet
  <1>3. QED
    BY <1>1, <1>2

(* The variables of the ledger, entry by entry. *)
RowFn == [e \in Entries |-> Row(e)]
CopiesFn == [e \in Entries |-> Cardinality({c \in accepted : c.entry = e})]
RetryFn == [e \in Entries |-> CallsOf(e) = {}]

(* Steps that move at most one entry, and steps that move none. *)
LEMMA OneEntryMoves ==
  ASSUME SendInv, SendInv', NEW e \in Entries,
         \A f \in Entries \ {e} :
           Row(f)' = Row(f) /\ (Delivered(f)' <=> Delivered(f))
                            /\ (NoLiveCall(f)' <=> NoLiveCall(f))
  PROVE  /\ RowFn' = [RowFn EXCEPT ![e] = Row(e)']
         /\ CopiesFn' = [CopiesFn EXCEPT ![e] = IF Delivered(e)' THEN 1 ELSE 0]
         /\ RetryFn' = [RetryFn EXCEPT ![e] = NoLiveCall(e)']
         /\ RowFn[e] = Row(e)
         /\ CopiesFn[e] = IF Delivered(e) THEN 1 ELSE 0
         /\ RetryFn[e] <=> NoLiveCall(e)
         /\ Row(e)' = Row(e) => RowFn' = RowFn
         /\ (Delivered(e)' <=> Delivered(e)) => CopiesFn' = CopiesFn
         /\ (NoLiveCall(e)' <=> NoLiveCall(e)) => RetryFn' = RetryFn
  <1>1. /\ RowFn = [f \in Entries |-> Row(f)]
        /\ CopiesFn = [f \in Entries |-> IF Delivered(f) THEN 1 ELSE 0]
        /\ RetryFn = [f \in Entries |-> NoLiveCall(f)]
    <2>1. \A f \in Entries : (CallsOf(f) = {}) = NoLiveCall(f)
      BY DEF CallsOf, NoLiveCall
    <2>2. \A f \in Entries : Cardinality({c \in accepted : c.entry = f})
                               = IF Delivered(f) THEN 1 ELSE 0
      <3>1. \A c, d \in accepted : c.entry = d.entry => c = d
        BY DEF SendInv, OneLiveCall
      <3>2. ASSUME NEW f \in Entries
            PROVE  Cardinality({c \in accepted : c.entry = f})
                     = IF \E c \in accepted : c.entry = f THEN 1 ELSE 0
        BY <3>1, OneOrNone
      <3>3. QED
        BY <3>2 DEF Delivered
    <2>3. QED
      BY <2>1, <2>2 DEF RowFn, CopiesFn, RetryFn
  <1>2. /\ RowFn' = [f \in Entries |-> Row(f)']
        /\ CopiesFn' = [f \in Entries |-> IF Delivered(f)' THEN 1 ELSE 0]
        /\ RetryFn' = [f \in Entries |-> NoLiveCall(f)']
    <2>1. \A f \in Entries : (CallsOf(f) = {})' = NoLiveCall(f)'
      BY DEF CallsOf, NoLiveCall
    <2>2. \A f \in Entries : Cardinality({c \in accepted' : c.entry = f})
                               = IF Delivered(f)' THEN 1 ELSE 0
      <3>1. \A c, d \in accepted' : c.entry = d.entry => c = d
        BY DEF SendInv, OneLiveCall
      <3>2. ASSUME NEW f \in Entries
            PROVE  Cardinality({c \in accepted' : c.entry = f})
                     = IF \E c \in accepted' : c.entry = f THEN 1 ELSE 0
        BY <3>1, OneOrNone
      <3>3. QED
        BY <3>2 DEF Delivered
    <2>3. QED
      BY <2>1, <2>2 DEF RowFn, CopiesFn, RetryFn
  <1>3. \A f \in Entries : NoLiveCall(f) \in BOOLEAN /\ NoLiveCall(f)' \in BOOLEAN
    BY DEF NoLiveCall
  <1>4. /\ RowFn' = [RowFn EXCEPT ![e] = Row(e)'] /\ RowFn[e] = Row(e)
        /\ Row(e)' = Row(e) => RowFn' = RowFn
    BY <1>1, <1>2
  <1>5. /\ CopiesFn' = [CopiesFn EXCEPT ![e] = IF Delivered(e)' THEN 1 ELSE 0]
        /\ CopiesFn[e] = IF Delivered(e) THEN 1 ELSE 0
        /\ (Delivered(e)' <=> Delivered(e)) => CopiesFn' = CopiesFn
    BY <1>1, <1>2
  <1>6. /\ RetryFn' = [RetryFn EXCEPT ![e] = NoLiveCall(e)']
        /\ RetryFn[e] <=> NoLiveCall(e)
        /\ (NoLiveCall(e)' <=> NoLiveCall(e)) => RetryFn' = RetryFn
    BY <1>1, <1>2, <1>3
  <1>7. QED
    BY <1>4, <1>5, <1>6

(* What the entry that moves may do: the steps of the ledger. *)
LedgerMove(e) ==
  \/ /\ Row(e) \in {"none", "failed"} /\ NoLiveCall(e)
     /\ Row(e)' = "pending" /\ ~NoLiveCall(e)' /\ (Delivered(e)' <=> Delivered(e))
  \/ /\ ~NoLiveCall(e) /\ ~Delivered(e) /\ Delivered(e)'
     /\ Row(e)' = Row(e) /\ ~NoLiveCall(e)'
  \/ /\ Row(e) = "pending" /\ Delivered(e) /\ Row(e)' = "sent"
     /\ Delivered(e)' /\ (NoLiveCall(e)' <=> NoLiveCall(e))
  \/ /\ Row(e) = "pending" /\ Row(e)' = "unknown" /\ (Delivered(e)' <=> Delivered(e))
     /\ (NoLiveCall(e)' <=> NoLiveCall(e)) \/ (~Delivered(e) /\ NoLiveCall(e)')
  \/ /\ Row(e) = "pending" /\ Row(e)' = "failed"
     /\ ~Delivered(e) /\ ~Delivered(e)' /\ NoLiveCall(e)'
  \/ /\ Row(e) = "gone" /\ Row(e)' = "gone"
     /\ ~Delivered(e) /\ ~Delivered(e)' /\ NoLiveCall(e)'
  \/ /\ Row(e)' = Row(e) /\ (Delivered(e)' <=> Delivered(e))
     /\ (NoLiveCall(e)' <=> NoLiveCall(e))

LEMMA LedgerMoveIsStep ==
  ASSUME SendInv, SendInv', NEW e \in Entries, LedgerMove(e),
         \A f \in Entries \ {e} :
           Row(f)' = Row(f) /\ (Delivered(f)' <=> Delivered(f))
                            /\ (NoLiveCall(f)' <=> NoLiveCall(f))
  PROVE  [Ledger!LedgerNext]_(Ledger!ledgerVars)
  <1> DEFINE Stutter == UNCHANGED <<RowFn, CopiesFn, RetryFn>>
  <1>1. \/ Stutter
        \/ Ledger!Open(e) \/ Ledger!Deliver(e) \/ Ledger!SettleSent(e)
        \/ Ledger!SettleUnknown(e) \/ Ledger!SettleFailed(e) \/ Ledger!RejectGone(e)
    <2>0. /\ RowFn' = [RowFn EXCEPT ![e] = Row(e)']
          /\ CopiesFn' = [CopiesFn EXCEPT ![e] = IF Delivered(e)' THEN 1 ELSE 0]
          /\ RetryFn' = [RetryFn EXCEPT ![e] = NoLiveCall(e)']
          /\ RowFn[e] = Row(e)
          /\ CopiesFn[e] = IF Delivered(e) THEN 1 ELSE 0
          /\ RetryFn[e] <=> NoLiveCall(e)
          /\ Row(e)' = Row(e) => RowFn' = RowFn
          /\ (Delivered(e)' <=> Delivered(e)) => CopiesFn' = CopiesFn
          /\ (NoLiveCall(e)' <=> NoLiveCall(e)) => RetryFn' = RetryFn
      BY OneEntryMoves
    <2>n. NoLiveCall(e)' \in BOOLEAN
      BY DEF NoLiveCall
    <2>o. Ledger!Open(e) <=>
            /\ RowFn[e] \in {"none", "failed"} /\ RetryFn[e]
            /\ RowFn' = [RowFn EXCEPT ![e] = "pending"]
            /\ RetryFn' = [RetryFn EXCEPT ![e] = FALSE] /\ CopiesFn' = CopiesFn
      BY DEF Ledger!Open, RowFn, CopiesFn, RetryFn, Row
    <2>d. Ledger!Deliver(e) <=>
            /\ ~RetryFn[e] /\ CopiesFn[e] = 0
            /\ CopiesFn' = [CopiesFn EXCEPT ![e] = 1]
            /\ RowFn' = RowFn /\ RetryFn' = RetryFn
      BY DEF Ledger!Deliver, RowFn, CopiesFn, RetryFn, Row
    <2>s. Ledger!SettleSent(e) <=>
            /\ RowFn[e] = "pending" /\ CopiesFn[e] = 1
            /\ RowFn' = [RowFn EXCEPT ![e] = "sent"]
            /\ CopiesFn' = CopiesFn /\ RetryFn' = RetryFn
      BY DEF Ledger!SettleSent, RowFn, CopiesFn, RetryFn, Row
    <2>u. Ledger!SettleUnknown(e) <=>
            /\ RowFn[e] = "pending"
            /\ RowFn' = [RowFn EXCEPT ![e] = "unknown"]
            /\ \/ RetryFn' = RetryFn
               \/ CopiesFn[e] = 0 /\ RetryFn' = [RetryFn EXCEPT ![e] = TRUE]
            /\ CopiesFn' = CopiesFn
      BY DEF Ledger!SettleUnknown, RowFn, CopiesFn, RetryFn, Row
    <2>f. Ledger!SettleFailed(e) <=>
            /\ RowFn[e] = "pending" /\ CopiesFn[e] = 0
            /\ RowFn' = [RowFn EXCEPT ![e] = "failed"]
            /\ RetryFn' = [RetryFn EXCEPT ![e] = TRUE] /\ CopiesFn' = CopiesFn
      BY DEF Ledger!SettleFailed, RowFn, CopiesFn, RetryFn, Row
    <2>g. Ledger!RejectGone(e) <=>
            /\ RowFn[e] = "gone" /\ CopiesFn[e] = 0
            /\ RetryFn' = [RetryFn EXCEPT ![e] = TRUE]
            /\ RowFn' = RowFn /\ CopiesFn' = CopiesFn
      BY DEF Ledger!RejectGone, RowFn, CopiesFn, RetryFn, Row
    <2>1. CASE Row(e) \in {"none", "failed"} /\ NoLiveCall(e)
               /\ Row(e)' = "pending" /\ ~NoLiveCall(e)' /\ (Delivered(e)' <=> Delivered(e))
      BY <2>0, <2>n, <2>o, <2>1
    <2>2. CASE ~NoLiveCall(e) /\ ~Delivered(e) /\ Delivered(e)'
               /\ Row(e)' = Row(e) /\ ~NoLiveCall(e)'
      BY <2>0, <2>d, <2>2
    <2>3. CASE Row(e) = "pending" /\ Delivered(e) /\ Row(e)' = "sent"
               /\ Delivered(e)' /\ (NoLiveCall(e)' <=> NoLiveCall(e))
      BY <2>0, <2>s, <2>3
    <2>4. CASE Row(e) = "pending" /\ Row(e)' = "unknown" /\ (Delivered(e)' <=> Delivered(e))
               /\ ((NoLiveCall(e)' <=> NoLiveCall(e)) \/ (~Delivered(e) /\ NoLiveCall(e)'))
      BY <2>0, <2>n, <2>u, <2>4
    <2>5. CASE Row(e) = "pending" /\ Row(e)' = "failed"
               /\ ~Delivered(e) /\ ~Delivered(e)' /\ NoLiveCall(e)'
      BY <2>0, <2>n, <2>f, <2>5
    <2>6. CASE Row(e) = "gone" /\ Row(e)' = "gone"
               /\ ~Delivered(e) /\ ~Delivered(e)' /\ NoLiveCall(e)'
      BY <2>0, <2>n, <2>g, <2>6
    <2>7. CASE Row(e)' = Row(e) /\ (Delivered(e)' <=> Delivered(e))
               /\ (NoLiveCall(e)' <=> NoLiveCall(e))
      BY <2>0, <2>7
    <2>8. QED
      BY <2>1, <2>2, <2>3, <2>4, <2>5, <2>6, <2>7 DEF LedgerMove
  <1>2. CASE Stutter
    BY <1>2 DEF Ledger!ledgerVars, RowFn, CopiesFn, RetryFn, Row
  <1>3. CASE ~Stutter
    BY <1>1, <1>3 DEF Ledger!LedgerNext
  <1>4. QED
    BY <1>2, <1>3

(* A step that disturbs no row and no call. *)
SameLedger ==
  \A f \in Entries : Row(f)' = Row(f) /\ (Delivered(f)' <=> Delivered(f))
                                      /\ (NoLiveCall(f)' <=> NoLiveCall(f))

LEMMA SameLedgerIsStep ==
  ASSUME SendInv, SendInv', SameLedger
  PROVE  [Ledger!LedgerNext]_(Ledger!ledgerVars)
  <1>1. CASE Entries = {}
    BY <1>1 DEF Ledger!ledgerVars
  <1>2. CASE Entries # {}
    <2>1. PICK e \in Entries : TRUE
      BY <1>2
    <2>2. LedgerMove(e)
      BY DEF SameLedger, LedgerMove
    <2>3. QED
      BY <2>2, LedgerMoveIsStep DEF SameLedger
  <1>3. QED
    BY <1>1, <1>2

(* A claim opens its entry. *)
LEMMA ClaimIsStep ==
  ASSUME TypeOK, SendInv, SendInv', NEW r \in Requests, Claim(r)
  PROVE  [Ledger!LedgerNext]_(Ledger!ledgerVars)
  <1>0. PICK e \in Entries : e = job[r].entry
    BY DEF Claim, TypeOK, Job
  <1>1. /\ status[e] \in {"none", "failed"} /\ account[AccountOf(e)] # "deleted"
        /\ CallsOf(e) = {}
    BY <1>0 DEF Claim, Claimable, SendInv, RowsHaveAccounts, RetryOnlyWhenUndelivered
  <1>2. /\ status' = [status EXCEPT ![e] = "pending"]
        /\ account' = account /\ accepted' = accepted
        /\ open' = open \cup {[entry |-> e, id |-> lastCall + 1]}
    BY <1>0 DEF Claim, admin
  <1>3. PICK i : open' = open \cup {[entry |-> e, id |-> i]}
    BY <1>2
  <1>4. [entry |-> e, id |-> i] \in open' /\ [entry |-> e, id |-> i].entry = e
    BY <1>3
  <1>5. ~NoLiveCall(e)' /\ NoLiveCall(e)
    BY <1>1, <1>4 DEF NoLiveCall, CallsOf
  <1>6. Row(e) \in {"none", "failed"} /\ Row(e)' = "pending"
    BY <1>1, <1>2 DEF Row, TypeOK
  <1>7. \A f \in Entries : Delivered(f)' <=> Delivered(f)
    BY <1>2 DEF Delivered
  <1>8. \A f \in Entries \ {e} : Row(f)' = Row(f) /\ (NoLiveCall(f)' <=> NoLiveCall(f))
    BY <1>2, <1>3 DEF Row, NoLiveCall, TypeOK
  <1>9. LedgerMove(e)
    BY <1>5, <1>6, <1>7 DEF LedgerMove
  <1>10. QED
    BY <1>7, <1>8, <1>9, LedgerMoveIsStep

(* An answer settles the entry of its request, or finds its row gone. *)
LEMMA ReturnIsStep ==
  ASSUME TypeOK, SendInv, SendInv', NEW r \in Requests, NEW answer \in Answers,
         ActionReturns(r, answer)
  PROVE  [Ledger!LedgerNext]_(Ledger!ledgerVars)
  <1>0. PICK e \in Entries : e = job[r].entry
    BY DEF ActionReturns, TypeOK, Job
  <1>s. PICK s : s = Outcome(Kind[AccountOf(e)], answer)
    OBVIOUS
  <1>c. PICK c \in open \cup accepted : c = CallOf(r) /\ c.entry = e
    BY <1>0 DEF ActionReturns, SendInv, OwnersHold, CallOf
  <1>1. /\ s \in {"sent", "failed", "unknown"}
        /\ s = "sent" <=> answer = "accepted"
        /\ s = "failed" => answer = "rejected"
        /\ answer = "accepted" => c \in accepted
        /\ answer = "rejected" => c \in open
    BY <1>s, <1>c, OutcomeIsConfirmed DEF ActionReturns
  <1>2. /\ \E id : Mark(e, s, id)
        /\ open' = IF answer = "rejected" THEN open \ {c} ELSE open
        /\ accepted' = accepted /\ account' = account
    BY <1>0, <1>s, <1>c DEF ActionReturns, admin
  <1>3. \A d \in open \cup accepted : d.entry = e => d = c
    BY <1>c DEF SendInv, OneLiveCall
  <1>4. \A f \in Entries : Delivered(f)' <=> Delivered(f)
    BY <1>2 DEF Delivered
  <1>5. \A f \in Entries \ {e} : Row(f)' = Row(f) /\ (NoLiveCall(f)' <=> NoLiveCall(f))
    BY <1>c, <1>2 DEF Row, NoLiveCall, Mark, TypeOK
  <1>6. /\ answer = "rejected" => ~Delivered(e) /\ NoLiveCall(e)'
        /\ answer # "rejected" => (NoLiveCall(e)' <=> NoLiveCall(e))
        /\ answer = "accepted" => Delivered(e)
    <2>1. ASSUME answer = "rejected"
          PROVE  ~Delivered(e) /\ NoLiveCall(e)'
      <3>1. c \in open /\ c \notin accepted
        BY <1>1, <2>1 DEF SendInv, OneLiveCall
      <3>2. QED
        BY <1>2, <1>3, <2>1, <3>1 DEF Delivered, NoLiveCall
    <2>2. answer # "rejected" => (NoLiveCall(e)' <=> NoLiveCall(e))
      BY <1>2 DEF NoLiveCall
    <2>3. answer = "accepted" => Delivered(e)
      BY <1>1, <1>c DEF Delivered
    <2>4. QED
      BY <2>1, <2>2, <2>3
  <1>7. CASE account[AccountOf(e)] = "deleted"
    <2>1. Row(e) = "gone" /\ Row(e)' = "gone"
      BY <1>2, <1>7 DEF Row
    <2>2. LedgerMove(e)
      BY <1>4, <1>6, <2>1 DEF LedgerMove
    <2>3. QED
      BY <1>4, <1>5, <2>2, LedgerMoveIsStep
  <1>8. CASE account[AccountOf(e)] # "deleted"
    <2>1. Row(e) = "pending" /\ Row(e)' = s
      BY <1>0, <1>2, <1>8 DEF Row, Mark, ActionReturns, SendInv, SingleOwner, TypeOK
    <2>2. LedgerMove(e)
      <3>1. CASE s = "sent"
        BY <1>1, <1>4, <1>6, <2>1, <3>1 DEF LedgerMove
      <3>2. CASE s = "unknown"
        BY <1>1, <1>4, <1>6, <2>1, <3>2 DEF LedgerMove
      <3>3. CASE s = "failed"
        BY <1>1, <1>4, <1>6, <2>1, <3>3 DEF LedgerMove
      <3>4. QED
        BY <1>1, <3>1, <3>2, <3>3
    <2>3. QED
      BY <1>4, <1>5, <2>2, LedgerMoveIsStep
  <1>9. QED
    BY <1>7, <1>8

(* The provider's acceptance delivers the entry of the call. *)
LEMMA AcceptIsStep ==
  ASSUME TypeOK, SendInv, SendInv', NEW c \in open, ProviderAccepts(c)
  PROVE  [Ledger!LedgerNext]_(Ledger!ledgerVars)
  <1>0. PICK e \in Entries : e = c.entry
    BY DEF TypeOK, Call
  <1>1. /\ open' = open \ {c} /\ accepted' = accepted \cup {c}
        /\ account' = account /\ status' = status
    BY DEF ProviderAccepts, admin, ledger
  <1>2. \A d \in accepted : d.entry # e
    BY <1>0 DEF SendInv, OneLiveCall
  <1>3. /\ ~NoLiveCall(e) /\ ~NoLiveCall(e)' /\ ~Delivered(e) /\ Delivered(e)'
    BY <1>0, <1>1, <1>2 DEF NoLiveCall, Delivered
  <1>4. \A f \in Entries : Row(f)' = Row(f)
    BY <1>1 DEF Row
  <1>5. \A f \in Entries \ {e} :
          (Delivered(f)' <=> Delivered(f)) /\ (NoLiveCall(f)' <=> NoLiveCall(f))
    BY <1>0, <1>1 DEF NoLiveCall, Delivered
  <1>6. LedgerMove(e)
    BY <1>3, <1>4 DEF LedgerMove
  <1>7. QED
    BY <1>4, <1>5, <1>6, LedgerMoveIsStep

(* Deleting an account forgets its entries. *)
LEMMA DeleteIsStep ==
  ASSUME TypeOK, NEW a \in Accounts, DeleteAccount(a)
  PROVE  [Ledger!LedgerNext]_(Ledger!ledgerVars)
  <1> DEFINE E == {e \in Entries : AccountOf(e) = a}
  <1>1. /\ account' = [account EXCEPT ![a] = "deleted"]
        /\ status' = [e \in Entries |-> IF AccountOf(e) = a THEN "none" ELSE status[e]]
        /\ open' = open /\ accepted' = accepted
    BY DEF DeleteAccount, provider
  <1>2. \A e \in Entries : Row(e)' = IF e \in E THEN "gone" ELSE Row(e)
    BY <1>1, AccountOfEntry DEF Row, TypeOK
  <1>3. RowFn' = [e \in Entries |-> IF e \in E THEN "gone" ELSE RowFn[e]]
    BY <1>2 DEF RowFn
  <1>4. CopiesFn' = CopiesFn /\ RetryFn' = RetryFn
    BY <1>1 DEF CopiesFn, RetryFn, CallsOf
  <1>5. Ledger!Forget(E)
    BY <1>3, <1>4 DEF Ledger!Forget, RowFn, CopiesFn, RetryFn, Row
  <1>6. E \in SUBSET Entries
    OBVIOUS
  <1>7. QED
    BY <1>5, <1>6 DEF Ledger!LedgerNext

(* Every step is a step of the ledger or leaves it alone. *)
LEMMA NextIsLedgerStep ==
  TypeOK /\ SendInv /\ SendInv' /\ [Next]_vars
    => [Ledger!LedgerNext]_(Ledger!ledgerVars)
  <1> SUFFICES ASSUME TypeOK, SendInv, SendInv', [Next]_vars
               PROVE  [Ledger!LedgerNext]_(Ledger!ledgerVars)
    OBVIOUS
  <1>0. UNCHANGED <<account, status, open, accepted>> => SameLedger
    BY DEF SameLedger, Row, Delivered, NoLiveCall
  <1> USE DEF admin, ledger, provider, requests
  <1>1. ASSUME NEW r \in Requests, RequestStep(r)
        PROVE  [Ledger!LedgerNext]_(Ledger!ledgerVars)
    <2>1. ASSUME NEW e \in Entries,
                 RefuseAccess(r, e) \/ AnswerFromLedger(r, e) \/ BeginPreparing(r, e)
          PROVE  UNCHANGED <<account, status, open, accepted>>
      BY <2>1 DEF RefuseAccess, AnswerFromLedger, BeginPreparing, vars
    <2>2. ASSUME \/ PreparationFails(r) \/ RateLimited(r) \/ LoseClaim(r)
                 \/ LedgerWriteFails(r)
          PROVE  UNCHANGED <<account, status, open, accepted>>
      BY <2>2 DEF PreparationFails, RateLimited, LoseClaim, LedgerWriteFails
    <2>3. CASE Claim(r)
      BY <2>3, ClaimIsStep
    <2>4. ASSUME NEW answer \in Answers, ActionReturns(r, answer)
          PROVE  [Ledger!LedgerNext]_(Ledger!ledgerVars)
      BY <2>4, ReturnIsStep
    <2>5. QED
      BY <1>0, <1>1, <2>1, <2>2, <2>3, <2>4, SameLedgerIsStep DEF RequestStep
  <1>2. ASSUME NEW a \in Accounts, AdminStep(a)
        PROVE  [Ledger!LedgerNext]_(Ledger!ledgerVars)
    <2>1. ASSUME NEW on \in BOOLEAN, SetEnabled(a, on) \/ SetGranted(a, on)
          PROVE  SameLedger
      <3>1. \A b \in Accounts : account'[b] = "deleted" <=> account[b] = "deleted"
        BY <2>1 DEF SetEnabled, SetGranted, TypeOK
      <3>2. UNCHANGED <<status, open, accepted>>
        BY <2>1 DEF SetEnabled, SetGranted
      <3>3. QED
        BY <3>1, <3>2, AccountOfEntry DEF SameLedger, Row, Delivered, NoLiveCall
    <2>2. CASE DeleteAccount(a)
      BY <2>2, DeleteIsStep
    <2>3. QED
      BY <1>2, <2>1, <2>2, SameLedgerIsStep DEF AdminStep
  <1>3. ASSUME NEW c \in open, ProviderAccepts(c)
        PROVE  [Ledger!LedgerNext]_(Ledger!ledgerVars)
    BY <1>3, AcceptIsStep
  <1>4. CASE Restart \/ Tick \/ UNCHANGED vars
    BY <1>0, <1>4, SameLedgerIsStep DEF Restart, Tick, vars
  <1>5. QED
    BY <1>1, <1>2, <1>3, <1>4 DEF Next

(* The rows and provider calls of the program implement the promise that   *)
(* SendLedger states: every step is one of the ledger's, or moves nothing  *)
(* a caller could notice.                                                  *)
THEOREM ImplementsLedgerHolds == Spec => ImplementsLedger
  <1>1. Init => Ledger!LedgerInit
    <2> SUFFICES ASSUME Init
                 PROVE  Ledger!LedgerInit
      OBVIOUS
    <2>1. \A e \in Entries : account[AccountOf(e)] = "enabled" /\ status[e] = "none"
      BY AccountOfEntry DEF Init
    <2>2. \A e \in Entries : {c \in accepted : c.entry = e} = {} /\ CallsOf(e) = {}
      BY DEF Init, CallsOf
    <2>3. QED
      BY <2>1, <2>2, FS_EmptySet DEF Ledger!LedgerInit
  <1>2. QED
    BY <1>1, TypeCorrect, SendInvariant, NextIsLedgerStep, PTL
    DEF Spec, ImplementsLedger, Ledger!LedgerSpec
===============================================================================
