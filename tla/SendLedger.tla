------------------------------ MODULE SendLedger ------------------------------
(***************************************************************************)
(* What the idempotency keys of slab-email promise to a caller, with no    *)
(* requests, awaits, clocks or restarts: an entry (an account and a key)   *)
(* moves through the statuses of its send_operations row, and the mail     *)
(* behind it reaches the provider's copies at most once, never while the   *)
(* entry says that a retry is safe.  SendOperations implements this.       *)
(***************************************************************************)

EXTENDS Naturals

CONSTANT Entries     \* the (account, idempotency key) pairs

VARIABLES status,    \* status[e]: the row's status, "none" without a row,
                     \* "gone" once the account has been deleted
          copies,    \* copies[e]: how often the provider accepted e's mail
          retryable  \* retryable[e]: no provider call can deliver e's mail any more

ledgerVars == <<status, copies, retryable>>

LedgerInit ==
  /\ status = [e \in Entries |-> "none"]
  /\ copies = [e \in Entries |-> 0]
  /\ retryable = [e \in Entries |-> TRUE]

(* A request claims a fresh entry, or reclaims a confirmed failure. *)
Open(e) ==
  /\ status[e] \in {"none", "failed"}
  /\ retryable[e]
  /\ status' = [status EXCEPT ![e] = "pending"]
  /\ retryable' = [retryable EXCEPT ![e] = FALSE]
  /\ UNCHANGED copies

(* The provider accepts the mail: possible only behind an open call, and   *)
(* possibly long after the row was settled as unknown or was deleted.      *)
Deliver(e) ==
  /\ ~retryable[e]
  /\ copies[e] = 0
  /\ copies' = [copies EXCEPT ![e] = 1]
  /\ UNCHANGED <<status, retryable>>

SettleSent(e) ==
  /\ status[e] = "pending"
  /\ copies[e] = 1
  /\ status' = [status EXCEPT ![e] = "sent"]
  /\ UNCHANGED <<copies, retryable>>

(* The outcome is not known.  Nothing is retried, although the call may    *)
(* turn out (unknown to the caller) never to deliver anything.             *)
SettleUnknown(e) ==
  /\ status[e] = "pending"
  /\ status' = [status EXCEPT ![e] = "unknown"]
  /\ \/ UNCHANGED retryable
     \/ copies[e] = 0 /\ retryable' = [retryable EXCEPT ![e] = TRUE]
  /\ UNCHANGED copies

(* Only a call that delivered nothing, and never will, is a failure. *)
SettleFailed(e) ==
  /\ status[e] = "pending"
  /\ copies[e] = 0
  /\ status' = [status EXCEPT ![e] = "failed"]
  /\ retryable' = [retryable EXCEPT ![e] = TRUE]
  /\ UNCHANGED copies

(* The provider rejects a call whose row is gone. *)
RejectGone(e) ==
  /\ status[e] = "gone"
  /\ copies[e] = 0
  /\ retryable' = [retryable EXCEPT ![e] = TRUE]
  /\ UNCHANGED <<status, copies>>

(* Deleting an account deletes its rows, and no key of it is used again. *)
Forget(E) ==
  /\ status' = [e \in Entries |-> IF e \in E THEN "gone" ELSE status[e]]
  /\ UNCHANGED <<copies, retryable>>

LedgerNext ==
  \/ \E e \in Entries :
        \/ Open(e) \/ Deliver(e) \/ SettleSent(e) \/ SettleUnknown(e)
        \/ SettleFailed(e) \/ RejectGone(e)
  \/ \E E \in SUBSET Entries : Forget(E)

LedgerSpec == LedgerInit /\ [][LedgerNext]_ledgerVars
===============================================================================
