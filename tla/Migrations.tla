------------------------------- MODULE Migrations -------------------------------
(***************************************************************************)
(* The upgrade of the database file by runMigrations, while other          *)
(* processes have the same file open: the migration job, a server that     *)
(* migrates as it starts, and servers started with SKIP_MIGRATIONS, which  *)
(* serve whatever schema they find.                                        *)
(*                                                                         *)
(* A migration looks up its version outside the transaction in which it    *)
(* does its work, so another process may do that work in between.  An      *)
(* action is one statement or one IMMEDIATE transaction of a process.  Of  *)
(* a server only the writes that the migrations touch are here: accounts,  *)
(* their inbound generation, and the ledger of sends.  SendOperations has  *)
(* the requests of one server in full; here a process has one at a time.   *)
(***************************************************************************)
EXTENDS Integers, FiniteSets

CONSTANTS Processes, Accounts, Keys,
          Null,                        \* no request in hand
          MaxGeneration, MaxAttempts   \* bounds of the model

ASSUME BoundsAssumption ==
  MaxGeneration \in Nat \ {0} /\ MaxAttempts \in Nat

ASSUME FiniteAssumption == IsFiniteSet(Keys)

Operations == Accounts \X Keys

ASSUME NullAssumption == Null \notin Operations

VARIABLES
  recorded,  \* the versions in schema_migrations
  schema,    \* which of the changed columns and tables exist
  account,   \* email_accounts: whether the row is there, inbound_generation
  ledger,    \* send_operations: operation -> status and copies delivered
  attempts,  \* the rows of send_attempts of each account
  proc       \* where a process is, and its local variables

tables == <<schema, account, ledger, attempts>>
vars == <<recorded, schema, account, ledger, attempts, proc>>

(* EMAIL_SCHEMA_VERSIONS *)
Versions == 1 .. 6

OperationsOf(a) == {o \in DOMAIN ledger : o[1] = a}
-------------------------------------------------------------------------------
(* A process. *)

Down == [at |-> "down", role |-> "job", version |-> 1, expanded |-> FALSE,
         request |-> Null]

Go(p, place) == proc' = [proc EXCEPT ![p].at = place]

(* The error of a failed migration is caught by nobody but main. *)
Exit(p) == proc' = [proc EXCEPT ![p] = Down]

(* The next migration, or the end of runMigrations: the job closes the     *)
(* database, a server begins to serve.                                     *)
Advance(p) ==
  IF proc[p].version < 6
    THEN proc' = [proc EXCEPT ![p].at = "check", ![p].version = @ + 1]
    ELSE IF proc[p].role = "job" THEN Exit(p) ELSE Go(p, "open")

(* The constructor of DatabaseService, and migrate.ts. *)
Start(p, role) ==
  /\ proc[p].at = "down"
  /\ proc' = [proc EXCEPT ![p] =
       [Down EXCEPT !.at = IF role = "skipping" THEN "open" ELSE "base",
                    !.role = role]]
  /\ UNCHANGED <<recorded, tables>>

(* A shutdown or a crash; what a transaction has not committed is undone. *)
Stop(p) ==
  /\ proc[p].at # "down"
  /\ Exit(p)
  /\ UNCHANGED <<recorded, tables>>
-------------------------------------------------------------------------------
(* The migrations. *)

(* applyBaseSchema: the tables that are missing, and versions 1 and 2 if   *)
(* they have not been recorded.                                            *)
ApplyBaseSchema(p) ==
  /\ proc[p].at = "base"
  /\ recorded' = recorded \cup {1, 2}
  /\ schema' = [schema EXCEPT !.expanded = @ \/ 1 \notin recorded]
  /\ proc' = [proc EXCEPT ![p].at = "check", ![p].version = 3]
  /\ UNCHANGED <<account, ledger, attempts>>

(* SELECT 1 FROM schema_migrations WHERE version = ... *)
CheckApplied(p) ==
  /\ proc[p].at = "check"
  /\ IF proc[p].version \in recorded
       THEN Advance(p)
       ELSE Go(p, IF proc[p].version = 3 THEN "inspect" ELSE "apply")
  /\ UNCHANGED <<recorded, tables>>

(* alreadyExpanded is read before the transaction, too. *)
InspectProviders(p) ==
  /\ proc[p].at = "inspect"
  /\ proc' = [proc EXCEPT ![p].at = "apply", ![p].expanded = schema.expanded]
  /\ UNCHANGED <<recorded, tables>>

(* Mutant: the version is recorded with INSERT OR IGNORE. *)
RefusedBySchema(v) ==
  (v = 4 /\ schema.generation) \/ (v = 6 /\ schema.attempts)

(* A version is recorded once, a column or a table is made once. *)
Refused(v) ==
  v \in recorded \/ (v = 4 /\ schema.generation) \/ (v = 6 /\ schema.attempts)

Applying(p, v) ==
  /\ proc[p].at = "apply" /\ proc[p].version = v
  /\ ~Refused(v)
  /\ recorded' = recorded \cup {v}

(* The transaction is rolled back and the start fails. *)
MigrationFails(p) ==
  /\ proc[p].at = "apply"
  /\ Refused(proc[p].version)
  /\ Exit(p)
  /\ UNCHANGED <<recorded, tables>>

(* migrateProviderTypes: the new table has the old columns and no others;  *)
(* with foreign_keys off, dropping the old one deletes nothing elsewhere.  *)
MigrateProviderTypes(p) ==
  /\ Applying(p, 3)
  /\ IF proc[p].expanded
       THEN UNCHANGED <<schema, account>>
       ELSE /\ schema' = [schema EXCEPT !.expanded = TRUE, !.generation = FALSE]
            /\ account' = [a \in Accounts |-> [account[a] EXCEPT !.generation = 0]]
  /\ Go(p, "verify")
  /\ UNCHANGED <<ledger, attempts>>

(* foreign_key_check, after the commit *)
VerifyForeignKeys(p) ==
  /\ proc[p].at = "verify"
  /\ IF \E o \in DOMAIN ledger : account[o[1]].state # "there"
       THEN Exit(p)
       ELSE Advance(p)
  /\ UNCHANGED <<recorded, tables>>

(* migrateInboundEvents *)
MigrateInboundEvents(p) ==
  /\ Applying(p, 4)
  /\ schema' = [schema EXCEPT !.generation = TRUE]
  /\ account' = [a \in Accounts |-> [account[a] EXCEPT !.generation = 1]]
  /\ Advance(p)
  /\ UNCHANGED <<ledger, attempts>>

(* Mutant: failed rows of earlier versions stay as they are. *)
FailedStays(row) == row

(* Before version 5 the mail of a failed row may have left. *)
FailedClosed(row) ==
  IF row.status = "failed" THEN [row EXCEPT !.status = "unknown"] ELSE row

(* migrateLegacyFailedSendOutcomes *)
MigrateLegacyFailedSendOutcomes(p) ==
  /\ Applying(p, 5)
  /\ ledger' = [o \in DOMAIN ledger |-> FailedClosed(ledger[o])]
  /\ Advance(p)
  /\ UNCHANGED <<schema, account, attempts>>

(* Mutant: the new table is left empty. *)
NoneCounted(a) == 0

(* INSERT INTO send_attempts SELECT ... FROM send_operations *)
OneEach(a) == Cardinality(OperationsOf(a))

(* migrateSendAttemptLedger *)
MigrateSendAttemptLedger(p) ==
  /\ Applying(p, 6)
  /\ schema' = [schema EXCEPT !.attempts = TRUE]
  /\ attempts' = [a \in Accounts |-> OneEach(a)]
  /\ Advance(p)
  /\ UNCHANGED <<account, ledger>>
-------------------------------------------------------------------------------
(* A server, of whatever schema: a statement that names a missing column   *)
(* or table fails and changes nothing.                                     *)

Serves(p) == proc[p].at = "open" /\ 1 \in recorded

(* upsertEmailAccount of a new account; ids are never used again. *)
CreateAccount(p, a) ==
  /\ Serves(p) /\ account[a].state = "none"
  /\ account' = [account EXCEPT ![a] =
       [state |-> "there", generation |-> IF schema.generation THEN 1 ELSE 0]]
  /\ UNCHANGED <<recorded, schema, ledger, attempts, proc>>

(* setAccountEnabled, and the edits that move the mailbox *)
AdvanceGeneration(p, a) ==
  /\ Serves(p) /\ schema.generation
  /\ account[a].state = "there" /\ account[a].generation < MaxGeneration
  /\ account' = [account EXCEPT ![a].generation = @ + 1]
  /\ UNCHANGED <<recorded, schema, ledger, attempts, proc>>

(* removeEmailAccount, with what cascades from it *)
DeleteAccount(p, a) ==
  /\ Serves(p) /\ account[a].state = "there"
  /\ account' = [account EXCEPT ![a].state = "gone"]
  /\ ledger' = [o \in DOMAIN ledger \ OperationsOf(a) |-> ledger[o]]
  /\ attempts' = [attempts EXCEPT ![a] = 0]
  /\ UNCHANGED <<recorded, schema, proc>>

(* createSendOperation and claimFailedSendOperation: the row and its       *)
(* attempt are written in one transaction, or neither is.                  *)
Claim(p, o) ==
  LET row == IF o \in DOMAIN ledger THEN ledger[o]
                                    ELSE [status |-> "failed", copies |-> 0]
  IN /\ Serves(p) /\ proc[p].request = Null
     /\ schema.attempts
     /\ account[o[1]].state = "there"
     /\ row.status = "failed" /\ attempts[o[1]] < MaxAttempts
     /\ ledger' = [x \in DOMAIN ledger \cup {o} |->
                     IF x = o THEN [row EXCEPT !.status = "pending"] ELSE ledger[x]]
     /\ attempts' = [attempts EXCEPT ![o[1]] = @ + 1]
     /\ proc' = [proc EXCEPT ![p].request = o]
     /\ UNCHANGED <<recorded, schema, account>>

(* What a verdict says of the copies the provider call has delivered. *)
Verdicts == {[status |-> "sent", copies |-> 1], [status |-> "failed", copies |-> 0],
             [status |-> "unknown", copies |-> 0], [status |-> "unknown", copies |-> 1]}

(* The provider call and markSendOperationStatus; the row may be gone. *)
Settle(p, verdict) ==
  LET o == proc[p].request
  IN /\ Serves(p) /\ o # Null
     /\ ledger' = [x \in DOMAIN ledger |->
                     IF x = o THEN [status |-> verdict.status,
                                    copies |-> ledger[x].copies + verdict.copies]
                              ELSE ledger[x]]
     /\ proc' = [proc EXCEPT ![p].request = Null]
     /\ UNCHANGED <<recorded, schema, account, attempts>>

(* The process ends when the provider has taken the mail and the verdict   *)
(* is not yet written.                                                     *)
StopUnsettled(p) ==
  LET o == proc[p].request
  IN /\ proc[p].at = "open" /\ o # Null
     /\ ledger' = [x \in DOMAIN ledger |->
                     IF x = o THEN [ledger[x] EXCEPT !.copies = @ + 1] ELSE ledger[x]]
     /\ Exit(p)
     /\ UNCHANGED <<recorded, schema, account, attempts>>
-------------------------------------------------------------------------------
(* What earlier versions have left in a ledger: a failed row of a mail     *)
(* that may have left, until version 5.                                    *)
Rows == [status : {"pending", "sent", "failed", "unknown"}, copies : 0 .. 1]

RowsOf(v) ==
  {row \in Rows : /\ row.status = "sent" => row.copies = 1
                  /\ row.status = "failed" /\ v >= 5 => row.copies = 0}

(* A file of every version: 0 is a new one, 2 and later have the base      *)
(* schema; a start that was cut short has left any of them.                *)
Init ==
  \E v \in {0, 2, 3, 4, 5, 6} :
    /\ recorded = 1 .. v
    /\ schema \in [expanded : IF v \in {0, 2} THEN BOOLEAN ELSE {TRUE},
                   generation : {v >= 4}, attempts : {v >= 6}]
    /\ v = 0 => ~schema.expanded
    /\ account \in [Accounts ->
         [state : IF v = 0 THEN {"none"} ELSE {"none", "there"},
          generation : {IF v >= 4 THEN 1 ELSE 0}]]
    /\ \E S \in SUBSET {o \in Operations : account[o[1]].state = "there"} :
         ledger \in [S -> RowsOf(v)]
    /\ attempts = [a \in Accounts |-> IF v >= 6 THEN Cardinality(OperationsOf(a)) ELSE 0]
    /\ proc = [p \in Processes |-> Down]

Migrate(p) ==
  \/ ApplyBaseSchema(p) \/ CheckApplied(p) \/ InspectProviders(p)
  \/ MigrateProviderTypes(p) \/ VerifyForeignKeys(p)
  \/ MigrateInboundEvents(p) \/ MigrateLegacyFailedSendOutcomes(p)
  \/ MigrateSendAttemptLedger(p) \/ MigrationFails(p)

Serve(p) ==
  \/ \E a \in Accounts : CreateAccount(p, a) \/ AdvanceGeneration(p, a)
                           \/ DeleteAccount(p, a)
  \/ \E o \in Operations : Claim(p, o)
  \/ \E verdict \in Verdicts : Settle(p, verdict)

Next ==
  \E p \in Processes :
    \/ \E role \in {"job", "server", "skipping"} : Start(p, role)
    \/ Migrate(p) \/ Serve(p) \/ Stop(p) \/ StopUnsettled(p)

Spec == Init /\ [][Next]_vars
-------------------------------------------------------------------------------
(* Properties. *)

(* No mail leaves twice: not by a retry of a failed row that an earlier    *)
(* version wrote for a mail that may have left, whichever process upgrades *)
(* the file and whichever serves it in the meantime.                       *)
SentOnce == \A o \in DOMAIN ledger : ledger[o].copies <= 1

(* Every operation of the ledger weighs on the hourly limit of its         *)
(* account, those from before there was a table of attempts included.      *)
EveryOperationCounted ==
  schema.attempts =>
    \A a \in Accounts : attempts[a] >= Cardinality(OperationsOf(a))

(* A failure that this version has confirmed stays open to a retry: once   *)
(* version 5 is recorded no belated migration turns it into an unknown     *)
(* outcome, which only a new attempt may do.                               *)
FailuresStand ==
  [][\A o \in DOMAIN ledger \cap DOMAIN ledger' :
       5 \in recorded /\ ledger[o].status = "failed" /\ ledger'[o].status # "failed"
         => attempts'[o[1]] > attempts[o[1]]]_vars

(* What an account has, it keeps until it is deleted: its row, the number  *)
(* its inbound generation has reached, its operations and its attempts.    *)
NothingLost ==
  [][\A a \in Accounts :
       account[a].state = "there" /\ account'[a].state # "gone" =>
         /\ account'[a].state = "there"
         /\ account'[a].generation >= account[a].generation
         /\ OperationsOf(a) \subseteq DOMAIN ledger'
         /\ attempts'[a] >= attempts[a]]_vars

(* What the four properties need to be inductive, in named parts.          *)
Places == {"down", "base", "check", "inspect", "apply", "verify", "open"}

Locals == [at : Places, role : {"job", "server", "skipping"}, version : Versions,
           expanded : BOOLEAN, request : Operations \cup {Null}]

TypeOK ==
  /\ recorded \subseteq Versions
  /\ schema \in [expanded : BOOLEAN, generation : BOOLEAN, attempts : BOOLEAN]
  /\ account \in [Accounts -> [state : {"none", "there", "gone"}, generation : Nat]]
  /\ DOMAIN ledger \subseteq Operations
  /\ \A o \in DOMAIN ledger :
       ledger[o] \in [status : {"pending", "sent", "failed", "unknown"}, copies : Nat]
  /\ attempts \in [Accounts -> Nat]
  /\ proc \in [Processes -> Locals]

(* A version is recorded after those before it, with what it has done. *)
SchemaRecorded ==
  /\ \A v \in recorded, w \in Versions : w < v => w \in recorded
  /\ 3 \in recorded => schema.expanded
  /\ schema.generation <=> 4 \in recorded
  /\ schema.attempts <=> 6 \in recorded
  /\ \A a \in Accounts : /\ ~schema.generation => account[a].generation = 0
                         /\ ~schema.attempts => attempts[a] = 0

(* A process is at a migration when all before it are recorded, and what   *)
(* it has read of the account table is still true.                         *)
MigratesInOrder ==
  \A p \in Processes :
    /\ proc[p].expanded => schema.expanded
    /\ proc[p].at \in {"check", "inspect", "apply", "verify"} =>
         \A w \in Versions : w < proc[p].version => w \in recorded
    /\ proc[p].at \in {"inspect", "verify"} => proc[p].version = 3
    /\ proc[p].at = "verify" => 3 \in recorded

(* A row is of an account; a failed one has not been sent by this version. *)
RowsOwned ==
  \A o \in DOMAIN ledger :
    /\ account[o[1]].state = "there"
    /\ 5 \in recorded /\ ledger[o].status = "failed" => ledger[o].copies = 0

(* A request in hand is the only one, and its row waits for the verdict. *)
RequestsApart ==
  \A p \in Processes :
    proc[p].request # Null =>
      /\ proc[p].at = "open"
      /\ \A q \in Processes \ {p} : proc[q].request # proc[p].request
      /\ LET o == proc[p].request
         IN IF o \in DOMAIN ledger
              THEN ledger[o].status = "pending" /\ ledger[o].copies = 0
              ELSE account[o[1]].state = "gone"

UpgradeInv ==
  /\ TypeOK /\ SchemaRecorded /\ MigratesInOrder /\ RowsOwned /\ RequestsApart
  /\ SentOnce /\ EveryOperationCounted
===============================================================================
