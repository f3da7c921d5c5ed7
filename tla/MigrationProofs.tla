---------------------------- MODULE MigrationProofs ----------------------------
(***************************************************************************)
(* Theorems of Migrations for every number of processes and accounts and   *)
(* every finite set of keys.                                               *)
(***************************************************************************)
EXTENDS Migrations, FiniteSetTheorems, TLAPS

(* The operations of an account are finitely many. *)
LEMMA OperationsFinite ==
  ASSUME TypeOK, NEW a \in Accounts
  PROVE  IsFiniteSet(OperationsOf(a)) /\ Cardinality(OperationsOf(a)) \in Nat
  <1>1. OperationsOf(a) \subseteq {a} \X Keys
    BY DEF TypeOK, OperationsOf, Operations
  <1>2. IsFiniteSet({a} \X Keys)
    BY FS_Product, FS_Singleton, FiniteAssumption DEF FiniteAssumption
  <1>3. QED
    BY <1>1, <1>2, FS_Subset, FS_CardinalityType
-------------------------------------------------------------------------------
(* The processes. *)

(* Where a process without a request may be, given what is recorded and    *)
(* what the account table is.                                              *)
Placed(l, done) ==
  /\ l \in Locals /\ l.request = Null
  /\ l.expanded => schema.expanded
  /\ l.at \in {"check", "inspect", "apply", "verify"} =>
       \A w \in Versions : w < l.version => w \in done
  /\ l.at \in {"inspect", "verify"} => l.version = 3
  /\ l.at = "verify" => 3 \in done

(* A process that is down is nowhere. *)
LEMMA DownPlaced == \A done : Placed(Down, done)
  BY DEF Placed, Down, Locals, Places, Versions

(* A process that has no request in hand has none after it has moved. *)
LEMMA IdleRequest ==
  ASSUME UpgradeInv, NEW p \in Processes, proc[p].at # "open"
  PROVE  /\ proc[p] \in Locals /\ proc[p].request = Null
         /\ proc[p].expanded => schema.expanded
  BY DEF UpgradeInv, TypeOK, RequestsApart, MigratesInOrder

(* A process goes on when its version is recorded. *)
LEMMA AdvancePlaced ==
  ASSUME UpgradeInv, NEW p \in Processes, NEW done, proc[p].at # "open",
         Advance(p), \A w \in Versions : w <= proc[p].version => w \in done
  PROVE  \E l : Placed(l, done) /\ proc' = [proc EXCEPT ![p] = l]
  <1>1. /\ proc[p] \in Locals /\ proc[p].request = Null
        /\ proc[p].expanded => schema.expanded
    BY IdleRequest
  <1>2. proc \in [Processes -> Locals]
    BY DEF UpgradeInv, TypeOK
  <1>3. CASE proc[p].version < 6
    <2> DEFINE l == [proc[p] EXCEPT !.at = "check", !.version = @ + 1]
    <2>1. proc' = [proc EXCEPT ![p] = l]
      BY <1>2, <1>3 DEF Advance
    <2>3. proc[p].version \in Int /\ proc[p].version + 1 \in Versions
      BY <1>1, <1>3 DEF Locals, Versions
    <2>2. /\ l.at = "check" /\ l.version = proc[p].version + 1 /\ l.request = Null
          /\ l.expanded = proc[p].expanded /\ l \in Locals
      BY <1>1, <2>3 DEF Locals, Places
    <2>4. Placed(l, done)
      <3>1. \A w \in Versions : w < l.version => w <= proc[p].version
        BY <2>2, <2>3 DEF Versions
      <3> HIDE DEF l
      <3>2. QED
        BY <1>1, <2>2, <3>1 DEF Placed
    <2>5. QED
      BY <2>1, <2>4
  <1>4. CASE ~(proc[p].version < 6)
    <2> DEFINE l == [proc[p] EXCEPT !.at = "open"]
    <2>1. CASE proc[p].role = "job"
      BY <1>4, <2>1, DownPlaced DEF Advance, Exit
    <2>2. CASE proc[p].role # "job"
      <3>1. proc' = [proc EXCEPT ![p] = l]
        BY <1>2, <1>4, <2>2 DEF Advance, Go
      <3>2. /\ l \in Locals /\ l.request = Null /\ l.at = "open"
            /\ l.expanded = proc[p].expanded
        BY <1>1 DEF Locals, Places
      <3> HIDE DEF l
      <3>3. Placed(l, done)
        BY <1>1, <3>2 DEF Placed
      <3>4. QED
        BY <3>1, <3>3
    <2>3. QED
      BY <2>1, <2>2
  <1>5. QED
    BY <1>3, <1>4

(* A process goes to a place of the same version. *)
LEMMA GoPlaced ==
  ASSUME UpgradeInv, NEW p \in Processes, NEW place \in Places, NEW done,
         proc[p].at # "open", Go(p, place),
         \A w \in Versions : w < proc[p].version => w \in done,
         place \in {"inspect", "verify"} => proc[p].version = 3,
         place = "verify" => 3 \in done
  PROVE  \E l : Placed(l, done) /\ proc' = [proc EXCEPT ![p] = l]
  <1> DEFINE l == [proc[p] EXCEPT !.at = place]
  <1>1. /\ proc[p] \in Locals /\ proc[p].request = Null
        /\ proc[p].expanded => schema.expanded
    BY IdleRequest
  <1>2. proc' = [proc EXCEPT ![p] = l]
    BY DEF Go, UpgradeInv, TypeOK
  <1>3. /\ l \in Locals /\ l.request = Null /\ l.at = place
        /\ l.version = proc[p].version /\ l.expanded = proc[p].expanded
    BY <1>1 DEF Locals
  <1> HIDE DEF l
  <1>4. Placed(l, done)
    BY <1>1, <1>3 DEF Placed
  <1>5. QED
    BY <1>2, <1>4

(* A move without a request keeps processes in order and requests apart. *)
LEMMA ProcMoves ==
  ASSUME UpgradeInv, NEW p \in Processes,
         \E l : Placed(l, recorded') /\ proc' = [proc EXCEPT ![p] = l],
         recorded \subseteq recorded', schema.expanded => schema'.expanded,
         DOMAIN ledger' = DOMAIN ledger,
         \A o \in DOMAIN ledger : ledger[o].status = "pending" => ledger'[o] = ledger[o],
         \A a \in Accounts : account'[a].state = account[a].state
  PROVE  MigratesInOrder' /\ RequestsApart' /\ proc' \in [Processes -> Locals]
  <1>1. PICK l : Placed(l, recorded') /\ proc' = [proc EXCEPT ![p] = l]
    OBVIOUS
  <1>2. proc \in [Processes -> Locals]
    BY DEF UpgradeInv, TypeOK
  <1>3. proc' \in [Processes -> Locals]
    BY <1>1, <1>2 DEF Placed
  <1>4. proc'[p] = l /\ \A q \in Processes \ {p} : proc'[q] = proc[q]
    BY <1>1, <1>2
  <1>5. MigratesInOrder'
    BY <1>1, <1>4 DEF MigratesInOrder, UpgradeInv, Placed
  <1>6. RequestsApart'
    <2> SUFFICES ASSUME NEW q \in Processes, proc'[q].request # Null
                 PROVE  /\ proc'[q].at = "open"
                        /\ \A r \in Processes \ {q} : proc'[r].request # proc'[q].request
                        /\ LET o == proc'[q].request
                           IN IF o \in DOMAIN ledger'
                                THEN ledger'[o].status = "pending" /\ ledger'[o].copies = 0
                                ELSE account'[o[1]].state = "gone"
      BY DEF RequestsApart
    <2>1. q # p /\ proc'[q] = proc[q]
      BY <1>1, <1>4 DEF Placed
    <2> DEFINE o == proc[q].request
    <2>2. o \in Operations /\ o[1] \in Accounts
      BY <1>2, <2>1 DEF Locals, Operations
    <2>3. /\ proc[q].at = "open"
          /\ \A r \in Processes \ {q} : proc[r].request # o
          /\ IF o \in DOMAIN ledger
               THEN ledger[o].status = "pending" /\ ledger[o].copies = 0
               ELSE account[o[1]].state = "gone"
      BY <2>1 DEF UpgradeInv, RequestsApart
    <2>4. \A r \in Processes \ {q} : proc'[r].request # o
      BY <1>1, <1>4, <2>1, <2>3 DEF Placed
    <2>5. QED
      BY <2>1, <2>2, <2>3, <2>4
  <1>7. QED
    BY <1>3, <1>5, <1>6

(* A step that changes nothing but where a process is. *)
LEMMA MovesOnly ==
  ASSUME UpgradeInv, NEW p \in Processes, UNCHANGED <<recorded, tables>>,
         \E l : Placed(l, recorded) /\ proc' = [proc EXCEPT ![p] = l]
  PROVE  UpgradeInv'
  <1> USE DEF tables
  <1>1. MigratesInOrder' /\ RequestsApart' /\ proc' \in [Processes -> Locals]
    BY ProcMoves
  <1>2. TypeOK'
    BY <1>1 DEF UpgradeInv, TypeOK
  <1>3. SchemaRecorded' /\ RowsOwned' /\ SentOnce'
    BY DEF UpgradeInv, SchemaRecorded, RowsOwned, SentOnce
  <1>4. EveryOperationCounted'
    BY DEF UpgradeInv, EveryOperationCounted, OperationsOf
  <1>5. QED
    BY <1>1, <1>2, <1>3, <1>4 DEF UpgradeInv
-------------------------------------------------------------------------------
(* The migrations. *)

(* Starts, stops and the steps between two transactions. *)
LEMMA WaitingSteps ==
  ASSUME UpgradeInv, NEW p \in Processes,
         \/ \E role \in {"job", "server", "skipping"} : Start(p, role)
         \/ CheckApplied(p) \/ InspectProviders(p) \/ MigrationFails(p)
         \/ VerifyForeignKeys(p) \/ Stop(p)
  PROVE  UpgradeInv'
  <1>0. UNCHANGED <<recorded, tables>>
    BY DEF Start, CheckApplied, InspectProviders, MigrationFails,
           VerifyForeignKeys, Stop
  <1> SUFFICES \E l : Placed(l, recorded) /\ proc' = [proc EXCEPT ![p] = l]
    BY <1>0, MovesOnly
  <1>1. ASSUME NEW role \in {"job", "server", "skipping"}, Start(p, role)
        PROVE  \E l : Placed(l, recorded) /\ proc' = [proc EXCEPT ![p] = l]
    <2> DEFINE place == IF role = "skipping" THEN "open" ELSE "base"
               l == [Down EXCEPT !.at = place, !.role = role]
    <2>2. proc' = [proc EXCEPT ![p] = l]
      BY <1>1 DEF Start
    <2>0. place \in {"open", "base"}
      OBVIOUS
    <2> HIDE DEF place
    <2>1. /\ l \in Locals /\ l.request = Null /\ l.at \in {"open", "base"}
          /\ ~l.expanded
      <3>1. Down \in Locals /\ Down.request = Null /\ ~Down.expanded
        BY DEF Down, Locals, Places, Versions
      <3> HIDE DEF Down
      <3>2. QED
        BY <2>0, <3>1 DEF Locals, Places
    <2> HIDE DEF l
    <2>3. QED
      BY <2>1, <2>2 DEF Placed
  <1>2. CASE Stop(p) \/ MigrationFails(p)
    <2>1. proc' = [proc EXCEPT ![p] = Down]
      BY <1>2 DEF Stop, MigrationFails, Exit
    <2>2. QED
      BY <2>1, DownPlaced
  <1>3. ASSUME proc[p].at \in {"check", "inspect", "apply", "verify"}
        PROVE  /\ proc[p] \in Locals /\ proc[p].version \in Versions
               /\ \A w \in Versions : w < proc[p].version => w \in recorded
               /\ proc[p].version \in recorded =>
                    \A w \in Versions : w <= proc[p].version => w \in recorded
    <2>1. proc[p] \in Locals /\ proc[p].version \in Versions
      BY DEF UpgradeInv, TypeOK, Locals
    <2>2. \A w \in Versions : w < proc[p].version => w \in recorded
      BY <1>3 DEF UpgradeInv, MigratesInOrder
    <2>3. QED
      BY <2>1, <2>2 DEF Versions
  <1>4. CASE CheckApplied(p)
    <2>1. CASE proc[p].version \in recorded
      BY <1>3, <1>4, <2>1, AdvancePlaced DEF CheckApplied
    <2>2. CASE proc[p].version \notin recorded
      <3>1. CASE proc[p].version = 3
        <4>1. Go(p, "inspect") /\ proc[p].at = "check"
          BY <1>4, <2>2, <3>1 DEF CheckApplied
        <4>2. \A w \in Versions : w < proc[p].version => w \in recorded
          BY <1>3, <4>1
        <4>3. QED
          BY <3>1, <4>1, <4>2, GoPlaced DEF Places
      <3>2. CASE proc[p].version # 3
        <4>1. Go(p, "apply") /\ proc[p].at = "check"
          BY <1>4, <2>2, <3>2 DEF CheckApplied
        <4>2. \A w \in Versions : w < proc[p].version => w \in recorded
          BY <1>3, <4>1
        <4>3. QED
          BY <4>1, <4>2, GoPlaced DEF Places
      <3>3. QED
        BY <3>1, <3>2
    <2>3. QED
      BY <2>1, <2>2
  <1>5. CASE InspectProviders(p)
    <2> DEFINE l == [proc[p] EXCEPT !.at = "apply", !.expanded = schema.expanded]
    <2>1. /\ proc[p].at = "inspect"
          /\ proc' = [proc EXCEPT ![p].at = "apply", ![p].expanded = schema.expanded]
      BY <1>5 DEF InspectProviders
    <2>2. proc[p] \in Locals /\ proc[p].request = Null
      BY <2>1, IdleRequest
    <2>3. proc' = [proc EXCEPT ![p] = l]
      BY <2>1, <2>2 DEF UpgradeInv, TypeOK
    <2>4. /\ l \in Locals /\ l.request = Null /\ l.at = "apply"
          /\ l.version = proc[p].version /\ l.expanded = schema.expanded
      BY <2>2 DEF Locals, Places, UpgradeInv, TypeOK
    <2>5. \A w \in Versions : w < proc[p].version => w \in recorded
      BY <1>3, <2>1
    <2> HIDE DEF l
    <2>6. QED
      BY <2>3, <2>4, <2>5 DEF Placed
  <1>6. CASE VerifyForeignKeys(p)
    <2>1. proc[p].at = "verify" /\ (Advance(p) \/ Exit(p))
      BY <1>6 DEF VerifyForeignKeys
    <2>2. CASE Exit(p)
      <3>1. proc' = [proc EXCEPT ![p] = Down]
        BY <2>2 DEF Exit
      <3>2. QED
        BY <3>1, DownPlaced
    <2>3. CASE Advance(p)
      <3>1. proc[p].version \in recorded
        BY <2>1 DEF UpgradeInv, MigratesInOrder
      <3>2. \A w \in Versions : w <= proc[p].version => w \in recorded
        BY <1>3, <2>1, <3>1
      <3>3. QED
        BY <2>1, <2>3, <3>2, AdvancePlaced
    <2>4. QED
      BY <2>1, <2>2, <2>3
  <1>7. QED
    BY <1>1, <1>2, <1>4, <1>5, <1>6

(* applyBaseSchema *)
LEMMA BaseStep ==
  ASSUME UpgradeInv, NEW p \in Processes, ApplyBaseSchema(p)
  PROVE  UpgradeInv'
  <1> DEFINE l == [proc[p] EXCEPT !.at = "check", !.version = 3]
  <1>1. /\ proc[p].at = "base" /\ recorded' = recorded \cup {1, 2}
        /\ schema' = [schema EXCEPT !.expanded = @ \/ 1 \notin recorded]
        /\ proc' = [proc EXCEPT ![p].at = "check", ![p].version = 3]
        /\ UNCHANGED <<account, ledger, attempts>>
    BY DEF ApplyBaseSchema
  <1>2. /\ proc[p] \in Locals /\ proc[p].request = Null
        /\ proc[p].expanded => schema.expanded
    BY <1>1, IdleRequest
  <1>3. proc' = [proc EXCEPT ![p] = l]
    BY <1>1, <1>2 DEF UpgradeInv, TypeOK
  <1>4. /\ l \in Locals /\ l.request = Null /\ l.at = "check" /\ l.version = 3
        /\ l.expanded = proc[p].expanded
    <2>1. 3 \in Versions
      BY DEF Versions
    <2>2. QED
      BY <1>2, <2>1 DEF Locals, Places
  <1> HIDE DEF l
  <1>14. schema.expanded => schema'.expanded
    BY <1>1 DEF UpgradeInv, TypeOK
  <1>5. Placed(l, recorded')
    BY <1>1, <1>2, <1>4, <1>14 DEF Placed, Versions
  <1>6. MigratesInOrder' /\ RequestsApart' /\ proc' \in [Processes -> Locals]
    BY <1>1, <1>3, <1>5, <1>14, ProcMoves
  <1>7. /\ schema' \in [expanded : BOOLEAN, generation : BOOLEAN, attempts : BOOLEAN]
        /\ schema'.generation = schema.generation /\ schema'.attempts = schema.attempts
        /\ schema.expanded => schema'.expanded
    BY <1>1 DEF UpgradeInv, TypeOK
  <1>8. TypeOK'
    BY <1>1, <1>6, <1>7 DEF UpgradeInv, TypeOK, Versions
  <1>9. \A v \in {3, 4, 5, 6} : v \in recorded' <=> v \in recorded
    BY <1>1
  <1>10. SchemaRecorded'
    <2>1. \A v \in recorded', w \in Versions : w < v => w \in recorded'
      BY <1>1 DEF UpgradeInv, SchemaRecorded, TypeOK, Versions
    <2>2. QED
      BY <1>1, <1>7, <1>9, <2>1 DEF UpgradeInv, SchemaRecorded
  <1>11. RowsOwned' /\ SentOnce'
    BY <1>1, <1>9 DEF UpgradeInv, RowsOwned, SentOnce
  <1>12. EveryOperationCounted'
    BY <1>1, <1>7 DEF UpgradeInv, EveryOperationCounted, OperationsOf
  <1>13. QED
    BY <1>6, <1>8, <1>10, <1>11, <1>12 DEF UpgradeInv

(* A migration that does its work finds the file as the one before left it. *)
LEMMA ApplyingFacts ==
  ASSUME UpgradeInv, NEW p \in Processes, NEW v \in 3 .. 6, Applying(p, v)
  PROVE  /\ proc[p].at = "apply" /\ proc[p].version = v
         /\ recorded' = recorded \cup {v}
         /\ \A w \in Versions : w \in recorded <=> w < v
         /\ \A w \in Versions : w \in recorded' <=> w <= v
         /\ \A w, x \in Versions : w < x /\ x \in recorded' => w \in recorded'
  <1>1. /\ proc[p].at = "apply" /\ proc[p].version = v /\ v \notin recorded
        /\ recorded' = recorded \cup {v}
    BY DEF Applying, Refused
  <1>2. \A w \in Versions : w < v => w \in recorded
    BY <1>1 DEF UpgradeInv, MigratesInOrder
  <1>3. \A w \in Versions : w > v => w \notin recorded
    BY <1>1 DEF UpgradeInv, SchemaRecorded, Versions
  <1>4. \A w \in Versions : w \in recorded <=> w < v
    BY <1>1, <1>2, <1>3 DEF Versions
  <1>5. QED
    BY <1>1, <1>4 DEF Versions

(* migrateProviderTypes *)
LEMMA ProviderStep ==
  ASSUME UpgradeInv, NEW p \in Processes, MigrateProviderTypes(p)
  PROVE  UpgradeInv'
  <1>1. Applying(p, 3) /\ Go(p, "verify") /\ UNCHANGED <<ledger, attempts>>
    BY DEF MigrateProviderTypes
  <1>2. /\ proc[p].at = "apply" /\ proc[p].version = 3
        /\ recorded' = recorded \cup {3}
        /\ \A w \in Versions : w \in recorded <=> w < 3
        /\ \A w \in Versions : w \in recorded' <=> w <= 3
    BY <1>1, ApplyingFacts
  <1>3. \A w \in Versions : w < proc[p].version => w \in recorded'
    BY <1>2
  <1>4. \E l : Placed(l, recorded') /\ proc' = [proc EXCEPT ![p] = l]
    BY <1>1, <1>2, <1>3, GoPlaced DEF Places
  <1>5. /\ account' \in [Accounts -> [state : {"none", "there", "gone"}, generation : Nat]]
        /\ \A a \in Accounts : /\ account'[a].state = account[a].state
                               /\ account[a].generation = 0 => account'[a].generation = 0
    <2>1. CASE account' = account
      BY <2>1 DEF UpgradeInv, TypeOK
    <2>2. CASE account' = [a \in Accounts |-> [account[a] EXCEPT !.generation = 0]]
      BY <2>2 DEF UpgradeInv, TypeOK
    <2>3. QED
      BY <2>1, <2>2 DEF MigrateProviderTypes
  <1>7. ~schema.generation /\ ~schema.attempts
    BY <1>2 DEF UpgradeInv, SchemaRecorded, Versions
  <1>8. /\ schema' \in [expanded : BOOLEAN, generation : BOOLEAN, attempts : BOOLEAN]
        /\ schema'.expanded /\ ~schema'.generation /\ ~schema'.attempts
    <2>1. CASE proc[p].expanded
      BY <1>7, <2>1 DEF MigrateProviderTypes, UpgradeInv, TypeOK, MigratesInOrder
    <2>2. CASE ~proc[p].expanded
      <3>1. schema' = [schema EXCEPT !.expanded = TRUE, !.generation = FALSE]
        BY <2>2 DEF MigrateProviderTypes
      <3>2. QED
        BY <1>7, <3>1 DEF UpgradeInv, TypeOK
    <2>3. QED
      BY <2>1, <2>2
  <1>6. MigratesInOrder' /\ RequestsApart' /\ proc' \in [Processes -> Locals]
    BY <1>1, <1>2, <1>4, <1>5, <1>8, ProcMoves
  <1>9. TypeOK'
    BY <1>1, <1>2, <1>5, <1>6, <1>8 DEF UpgradeInv, TypeOK, Versions
  <1>10. SchemaRecorded'
    BY <1>1, <1>2, <1>5, <1>7, <1>8, ApplyingFacts DEF UpgradeInv, SchemaRecorded, Versions, TypeOK
  <1>11. RowsOwned'
    BY <1>1, <1>2, <1>5 DEF UpgradeInv, RowsOwned, TypeOK, Operations, Versions
  <1>12. SentOnce' /\ EveryOperationCounted'
    BY <1>1, <1>8 DEF UpgradeInv, SentOnce, EveryOperationCounted
  <1>13. QED
    BY <1>6, <1>9, <1>10, <1>11, <1>12 DEF UpgradeInv

(* After its work a migration goes on to the next. *)
LEMMA AppliedPlaced ==
  ASSUME UpgradeInv, NEW p \in Processes, NEW v \in 3 .. 6, Applying(p, v),
         Advance(p)
  PROVE  \E l : Placed(l, recorded') /\ proc' = [proc EXCEPT ![p] = l]
  <1>1. /\ proc[p].at = "apply" /\ proc[p].version = v
        /\ \A w \in Versions : w <= proc[p].version => w \in recorded'
    BY ApplyingFacts
  <1>2. QED
    BY <1>1, AdvancePlaced

(* migrateInboundEvents *)
LEMMA InboundStep ==
  ASSUME UpgradeInv, NEW p \in Processes, MigrateInboundEvents(p)
  PROVE  UpgradeInv'
  <1>1. /\ Applying(p, 4) /\ Advance(p) /\ UNCHANGED <<ledger, attempts>>
        /\ schema' = [schema EXCEPT !.generation = TRUE]
        /\ account' = [a \in Accounts |-> [account[a] EXCEPT !.generation = 1]]
    BY DEF MigrateInboundEvents
  <1>2. /\ recorded' = recorded \cup {4}
        /\ \A w \in Versions : w \in recorded <=> w < 4
        /\ \A w \in Versions : w \in recorded' <=> w <= 4
        /\ \A w, x \in Versions : w < x /\ x \in recorded' => w \in recorded'
    BY <1>1, ApplyingFacts
  <1>3. /\ account' \in [Accounts -> [state : {"none", "there", "gone"}, generation : Nat]]
        /\ \A a \in Accounts : account'[a].state = account[a].state
    BY <1>1 DEF UpgradeInv, TypeOK
  <1>4. /\ schema' \in [expanded : BOOLEAN, generation : BOOLEAN, attempts : BOOLEAN]
        /\ schema'.generation /\ (schema.expanded => schema'.expanded)
        /\ schema'.attempts = schema.attempts
    BY <1>1 DEF UpgradeInv, TypeOK
  <1>5. MigratesInOrder' /\ RequestsApart' /\ proc' \in [Processes -> Locals]
    <2>1. \E l : Placed(l, recorded') /\ proc' = [proc EXCEPT ![p] = l]
      BY <1>1, AppliedPlaced
    <2>2. QED
      BY <1>1, <1>2, <1>3, <1>4, <2>1, ProcMoves
  <1>6. TypeOK'
    BY <1>1, <1>2, <1>3, <1>4, <1>5 DEF UpgradeInv, TypeOK, Versions
  <1>7. SchemaRecorded'
    BY <1>1, <1>2, <1>4, <1>6 DEF UpgradeInv, SchemaRecorded, Versions, TypeOK
  <1>8. RowsOwned'
    BY <1>1, <1>2, <1>3 DEF UpgradeInv, RowsOwned, TypeOK, Operations, Versions
  <1>9. SentOnce' /\ EveryOperationCounted'
    BY <1>1, <1>4 DEF UpgradeInv, SentOnce, EveryOperationCounted, OperationsOf
  <1>10. QED
    BY <1>5, <1>6, <1>7, <1>8, <1>9 DEF UpgradeInv

(* migrateLegacyFailedSendOutcomes *)
LEMMA OutcomeStep ==
  ASSUME UpgradeInv, NEW p \in Processes, MigrateLegacyFailedSendOutcomes(p)
  PROVE  UpgradeInv'
  <1>1. /\ Applying(p, 5) /\ Advance(p) /\ UNCHANGED <<schema, account, attempts>>
        /\ ledger' = [o \in DOMAIN ledger |-> FailedClosed(ledger[o])]
    BY DEF MigrateLegacyFailedSendOutcomes
  <1>2. /\ recorded' = recorded \cup {5}
        /\ \A w \in Versions : w \in recorded <=> w < 5
        /\ \A w, x \in Versions : w < x /\ x \in recorded' => w \in recorded'
    BY <1>1, ApplyingFacts
  <1>3. /\ DOMAIN ledger' = DOMAIN ledger
        /\ \A o \in DOMAIN ledger :
             /\ ledger'[o] \in [status : {"pending", "sent", "failed", "unknown"}, copies : Nat]
             /\ ledger'[o].copies = ledger[o].copies /\ ledger'[o].status # "failed"
             /\ ledger[o].status = "pending" => ledger'[o] = ledger[o]
    BY <1>1 DEF UpgradeInv, TypeOK, FailedClosed
  <1>4. MigratesInOrder' /\ RequestsApart' /\ proc' \in [Processes -> Locals]
    <2>1. \E l : Placed(l, recorded') /\ proc' = [proc EXCEPT ![p] = l]
      BY <1>1, AppliedPlaced
    <2>2. QED
      BY <1>1, <1>2, <1>3, <2>1, ProcMoves
  <1>5. TypeOK'
    BY <1>1, <1>2, <1>3, <1>4 DEF UpgradeInv, TypeOK, Versions
  <1>6. SchemaRecorded'
    <2>1. \A v \in recorded', w \in Versions : w < v => w \in recorded'
      BY <1>2, <1>5 DEF TypeOK
    <2>2. \A v \in {3, 4, 6} : v \in recorded' <=> v \in recorded
      BY <1>2
    <2>3. QED
      BY <1>1, <2>1, <2>2 DEF UpgradeInv, SchemaRecorded
  <1>7. RowsOwned' /\ SentOnce'
    BY <1>1, <1>3 DEF UpgradeInv, RowsOwned, SentOnce
  <1>8. EveryOperationCounted'
    BY <1>1, <1>3 DEF UpgradeInv, EveryOperationCounted, OperationsOf
  <1>9. QED
    BY <1>4, <1>5, <1>6, <1>7, <1>8 DEF UpgradeInv

(* migrateSendAttemptLedger *)
LEMMA AttemptStep ==
  ASSUME UpgradeInv, NEW p \in Processes, MigrateSendAttemptLedger(p)
  PROVE  UpgradeInv'
  <1>1. /\ Applying(p, 6) /\ Advance(p) /\ UNCHANGED <<account, ledger>>
        /\ schema' = [schema EXCEPT !.attempts = TRUE]
        /\ attempts' = [a \in Accounts |-> Cardinality(OperationsOf(a))]
    BY DEF MigrateSendAttemptLedger, OneEach
  <1>2. /\ recorded' = recorded \cup {6}
        /\ \A w \in Versions : w \in recorded <=> w < 6
        /\ \A w, x \in Versions : w < x /\ x \in recorded' => w \in recorded'
    BY <1>1, ApplyingFacts
  <1>3. attempts' \in [Accounts -> Nat]
    BY <1>1, OperationsFinite DEF UpgradeInv
  <1>4. /\ schema' \in [expanded : BOOLEAN, generation : BOOLEAN, attempts : BOOLEAN]
        /\ schema'.attempts /\ (schema.expanded => schema'.expanded)
        /\ schema'.generation = schema.generation
    BY <1>1 DEF UpgradeInv, TypeOK
  <1>5. MigratesInOrder' /\ RequestsApart' /\ proc' \in [Processes -> Locals]
    BY <1>1, <1>2, <1>4, AppliedPlaced, ProcMoves
  <1>6. TypeOK'
    BY <1>1, <1>2, <1>3, <1>4, <1>5 DEF UpgradeInv, TypeOK, Versions
  <1>7. SchemaRecorded'
    BY <1>1, <1>2, <1>4 DEF UpgradeInv, SchemaRecorded, Versions, TypeOK
  <1>8. RowsOwned' /\ SentOnce'
    BY <1>1, <1>2 DEF UpgradeInv, RowsOwned, SentOnce, Versions
  <1>9. EveryOperationCounted'
    <2>1. \A a \in Accounts : Cardinality(OperationsOf(a)) \in Nat
      BY OperationsFinite DEF UpgradeInv
    <2>2. \A a \in Accounts : OperationsOf(a)' = OperationsOf(a)
      BY <1>1 DEF OperationsOf
    <2>3. QED
      BY <1>1, <2>1, <2>2 DEF EveryOperationCounted
  <1>10. QED
    BY <1>5, <1>6, <1>7, <1>8, <1>9 DEF UpgradeInv
-------------------------------------------------------------------------------
(* The servers. *)

(* An account is created, or moves to its next generation. *)
LEMMA AccountStep ==
  ASSUME UpgradeInv, NEW p \in Processes, NEW a \in Accounts,
         CreateAccount(p, a) \/ AdvanceGeneration(p, a)
  PROVE  UpgradeInv'
  <1>1. UNCHANGED <<recorded, schema, ledger, attempts, proc>>
    BY DEF CreateAccount, AdvanceGeneration
  <1>2. /\ account' \in [Accounts -> [state : {"none", "there", "gone"}, generation : Nat]]
        /\ \A b \in Accounts :
             /\ account[b].state \in {"there", "gone"} => account'[b].state = account[b].state
             /\ ~schema.generation => account'[b].generation = 0
    <2>1. CASE CreateAccount(p, a)
      <3> DEFINE new == [state |-> "there", generation |-> IF schema.generation THEN 1 ELSE 0]
      <3>1. account[a].state = "none" /\ account' = [account EXCEPT ![a] = new]
        BY <2>1 DEF CreateAccount
      <3>2. new \in [state : {"none", "there", "gone"}, generation : Nat]
            /\ (~schema.generation => new.generation = 0)
        OBVIOUS
      <3> HIDE DEF new
      <3>3. QED
        BY <3>1, <3>2 DEF UpgradeInv, TypeOK, SchemaRecorded
    <2>2. CASE AdvanceGeneration(p, a)
      BY <2>2 DEF AdvanceGeneration, UpgradeInv, TypeOK
    <2>3. QED
      BY <2>1, <2>2
  <1>3. TypeOK'
    BY <1>1, <1>2 DEF UpgradeInv, TypeOK
  <1>4. SchemaRecorded'
    BY <1>1, <1>2 DEF UpgradeInv, SchemaRecorded
  <1>5. MigratesInOrder'
    BY <1>1 DEF UpgradeInv, MigratesInOrder
  <1>6. \A o \in Operations : o[1] \in Accounts
    BY DEF Operations
  <1>7. RowsOwned'
    BY <1>1, <1>2, <1>6 DEF UpgradeInv, RowsOwned, TypeOK
  <1>8. RequestsApart'
    <2>1. \A q \in Processes : proc[q].request # Null => proc[q].request \in Operations
      BY DEF UpgradeInv, TypeOK, Locals
    <2>2. QED
      BY <1>1, <1>2, <1>6, <2>1 DEF UpgradeInv, RequestsApart
  <1>9. SentOnce' /\ EveryOperationCounted'
    BY <1>1 DEF UpgradeInv, SentOnce, EveryOperationCounted, OperationsOf
  <1>10. QED
    BY <1>3, <1>4, <1>5, <1>7, <1>8, <1>9 DEF UpgradeInv

(* An account goes, and what belongs to it. *)
LEMMA DeleteStep ==
  ASSUME UpgradeInv, NEW p \in Processes, NEW a \in Accounts, DeleteAccount(p, a)
  PROVE  UpgradeInv'
  <1>1. /\ account[a].state = "there"
        /\ account' = [account EXCEPT ![a].state = "gone"]
        /\ ledger' = [o \in DOMAIN ledger \ OperationsOf(a) |-> ledger[o]]
        /\ attempts' = [attempts EXCEPT ![a] = 0]
        /\ UNCHANGED <<recorded, schema, proc>>
    BY DEF DeleteAccount
  <1>2. /\ account' \in [Accounts -> [state : {"none", "there", "gone"}, generation : Nat]]
        /\ account'[a].state = "gone"
        /\ \A b \in Accounts : /\ account'[b].generation = account[b].generation
                               /\ b # a => account'[b] = account[b]
    BY <1>1 DEF UpgradeInv, TypeOK
  <1>3. /\ attempts' \in [Accounts -> Nat] /\ attempts'[a] = 0
        /\ \A b \in Accounts : b # a => attempts'[b] = attempts[b]
    BY <1>1 DEF UpgradeInv, TypeOK
  <1>4. /\ DOMAIN ledger' = {o \in DOMAIN ledger : o[1] # a}
        /\ \A o \in DOMAIN ledger' : ledger'[o] = ledger[o]
    BY <1>1 DEF OperationsOf
  <1>5. TypeOK'
    BY <1>1, <1>2, <1>3, <1>4 DEF UpgradeInv, TypeOK
  <1>6. SchemaRecorded' /\ MigratesInOrder'
    BY <1>1, <1>2, <1>3 DEF UpgradeInv, SchemaRecorded, MigratesInOrder
  <1>7. \A o \in Operations : o[1] \in Accounts
    BY DEF Operations
  <1>8. RowsOwned' /\ SentOnce'
    BY <1>1, <1>2, <1>4, <1>7 DEF UpgradeInv, RowsOwned, SentOnce, TypeOK
  <1>9. RequestsApart'
    <2>1. \A q \in Processes : proc[q].request # Null => proc[q].request \in Operations
      BY DEF UpgradeInv, TypeOK, Locals
    <2>2. QED
      BY <1>1, <1>2, <1>4, <1>7, <2>1 DEF UpgradeInv, RequestsApart
  <1>10. EveryOperationCounted'
    <2>1. OperationsOf(a)' = {} /\ Cardinality({}) = 0
      BY <1>4, FS_EmptySet DEF OperationsOf
    <2>2. \A b \in Accounts : b # a => OperationsOf(b)' = OperationsOf(b)
      BY <1>4 DEF OperationsOf
    <2>3. \A b \in Accounts : b # a =>
            (schema.attempts => attempts'[b] >= Cardinality(OperationsOf(b)'))
      BY <1>3, <2>2 DEF UpgradeInv, EveryOperationCounted
    <2>4. attempts'[a] >= Cardinality(OperationsOf(a)')
      BY <1>3, <2>1
    <2>5. schema' = schema
      BY <1>1
    <2>6. QED
      BY <2>3, <2>4, <2>5 DEF EveryOperationCounted
  <1>11. QED
    BY <1>5, <1>6, <1>8, <1>9, <1>10 DEF UpgradeInv

(* One more element makes a set larger by one at most. *)
LEMMA OneMore ==
  ASSUME NEW S, NEW x, IsFiniteSet(S)
  PROVE  Cardinality(S \cup {x}) \in Nat /\ Cardinality(S \cup {x}) <= Cardinality(S) + 1
  <1>1. Cardinality(S) \in Nat
    BY FS_CardinalityType
  <1>2. Cardinality(S \cup {x}) = IF x \in S THEN Cardinality(S) ELSE Cardinality(S) + 1
    BY FS_AddElement, Zenon
  <1>3. QED
    BY <1>1, <1>2

(* An operation is claimed, with its attempt. *)
LEMMA ClaimStep ==
  ASSUME UpgradeInv, NEW p \in Processes, NEW o \in Operations, Claim(p, o)
  PROVE  UpgradeInv'
  <1> DEFINE row == IF o \in DOMAIN ledger THEN ledger[o]
                                          ELSE [status |-> "failed", copies |-> 0]
             claimed == [row EXCEPT !.status = "pending"]
  <1>1. /\ proc[p].at = "open" /\ proc[p].request = Null /\ schema.attempts
        /\ account[o[1]].state = "there" /\ row.status = "failed"
        /\ ledger' = [x \in DOMAIN ledger \cup {o} |-> IF x = o THEN claimed ELSE ledger[x]]
        /\ attempts' = [attempts EXCEPT ![o[1]] = @ + 1]
        /\ proc' = [proc EXCEPT ![p].request = o]
        /\ UNCHANGED <<recorded, schema, account>>
    BY DEF Claim, Serves
  <1>2. o[1] \in Accounts /\ o # Null
    BY NullAssumption DEF Operations, NullAssumption
  <1>3. 5 \in recorded
    <2>1. 6 \in recorded
      BY <1>1 DEF UpgradeInv, SchemaRecorded
    <2>2. QED
      BY <2>1 DEF UpgradeInv, SchemaRecorded, Versions
  <1>4. /\ row \in [status : {"pending", "sent", "failed", "unknown"}, copies : Nat]
        /\ row.copies = 0
    BY <1>1, <1>3 DEF UpgradeInv, TypeOK, RowsOwned
  <1>5. /\ claimed \in [status : {"pending", "sent", "failed", "unknown"}, copies : Nat]
        /\ claimed.status = "pending" /\ claimed.copies = 0
    <2> HIDE DEF row
    <2> QED
      BY <1>4
  <1> HIDE DEF row, claimed
  <1>6. /\ DOMAIN ledger' = DOMAIN ledger \cup {o} /\ ledger'[o] = claimed
        /\ \A x \in DOMAIN ledger : x # o => ledger'[x] = ledger[x]
    BY <1>1
  <1>7. /\ attempts' \in [Accounts -> Nat]
        /\ attempts'[o[1]] = attempts[o[1]] + 1
        /\ \A a \in Accounts : a # o[1] => attempts'[a] = attempts[a]
    BY <1>1, <1>2 DEF UpgradeInv, TypeOK
  <1>8. /\ proc' \in [Processes -> Locals] /\ proc'[p] = [proc[p] EXCEPT !.request = o]
        /\ \A q \in Processes \ {p} : proc'[q] = proc[q]
    BY <1>1 DEF UpgradeInv, TypeOK, Locals
  <1>9. /\ proc'[p].request = o /\ proc'[p].at = "open"
        /\ proc'[p].version = proc[p].version /\ proc'[p].expanded = proc[p].expanded
    BY <1>1, <1>8 DEF UpgradeInv, TypeOK, Locals
  <1>10. TypeOK'
    BY <1>1, <1>5, <1>6, <1>7, <1>8 DEF UpgradeInv, TypeOK
  <1>11. SchemaRecorded'
    BY <1>1 DEF UpgradeInv, SchemaRecorded
  <1>12. MigratesInOrder'
    BY <1>1, <1>8, <1>9 DEF UpgradeInv, MigratesInOrder
  <1>13. RowsOwned' /\ SentOnce'
    BY <1>1, <1>5, <1>6 DEF UpgradeInv, RowsOwned, SentOnce
  <1>14. \A q \in Processes : proc[q].request # o
    <2>1. CASE o \in DOMAIN ledger
      BY <1>1, <1>2, <2>1 DEF UpgradeInv, RequestsApart, row
    <2>2. CASE o \notin DOMAIN ledger
      BY <1>1, <1>2, <2>2 DEF UpgradeInv, RequestsApart
    <2>3. QED
      BY <2>1, <2>2
  <1>15. RequestsApart'
    <2> SUFFICES ASSUME NEW q \in Processes, proc'[q].request # Null
                 PROVE  /\ proc'[q].at = "open"
                        /\ \A r \in Processes \ {q} : proc'[r].request # proc'[q].request
                        /\ LET x == proc'[q].request
                           IN IF x \in DOMAIN ledger'
                                THEN ledger'[x].status = "pending" /\ ledger'[x].copies = 0
                                ELSE account'[x[1]].state = "gone"
      BY DEF RequestsApart
    <2>1. CASE q = p
      <3>1. proc'[q].request = o /\ proc'[q].at = "open"
        BY <1>9, <2>1
      <3>2. \A r \in Processes \ {p} : proc'[r].request # o
        BY <1>8, <1>14
      <3>3. o \in DOMAIN ledger' /\ ledger'[o].status = "pending" /\ ledger'[o].copies = 0
        BY <1>5, <1>6
      <3>4. QED
        BY <2>1, <3>1, <3>2, <3>3
    <2>2. CASE q # p
      BY <1>1, <1>6, <1>8, <1>9, <1>14, <2>2 DEF UpgradeInv, RequestsApart
    <2>3. QED
      BY <2>1, <2>2
  <1>16. EveryOperationCounted'
    <2>1. ASSUME NEW a \in Accounts
          PROVE  attempts'[a] >= Cardinality(OperationsOf(a)')
      <3>1. CASE a # o[1]
        <4>1. OperationsOf(a)' = OperationsOf(a)
          BY <1>6, <3>1 DEF OperationsOf
        <4>2. QED
          BY <1>1, <1>7, <3>1, <4>1 DEF UpgradeInv, EveryOperationCounted
      <3>2. CASE a = o[1]
        <4>1. OperationsOf(a)' = OperationsOf(a) \cup {o}
          BY <1>6, <3>2 DEF OperationsOf
        <4>2. IsFiniteSet(OperationsOf(a)) /\ Cardinality(OperationsOf(a)) \in Nat
          BY OperationsFinite DEF UpgradeInv
        <4>3. Cardinality(OperationsOf(a) \cup {o}) <= Cardinality(OperationsOf(a)) + 1
          BY <4>2, OneMore
        <4>4. attempts[a] \in Nat /\ attempts[a] >= Cardinality(OperationsOf(a))
          BY <1>1 DEF UpgradeInv, TypeOK, EveryOperationCounted
        <4>5. Cardinality(OperationsOf(a) \cup {o}) \in Nat
          BY <4>2, OneMore
        <4>6. QED
          BY <1>7, <3>2, <4>1, <4>2, <4>3, <4>4, <4>5
      <3>3. QED
        BY <3>1, <3>2
    <2>2. QED
      BY <2>1 DEF EveryOperationCounted
  <1>17. QED
    BY <1>10, <1>11, <1>12, <1>13, <1>15, <1>16 DEF UpgradeInv

(* A step that touches at most the row of its own request, which it ends.  *)
LEMMA EndsRequest ==
  ASSUME UpgradeInv, NEW p \in Processes, proc[p].request # Null,
         NEW l \in Locals, l.request = Null, l.at \in {"open", "down"},
         l.expanded => schema.expanded,
         proc' = [proc EXCEPT ![p] = l],
         UNCHANGED <<recorded, schema, account, attempts>>,
         DOMAIN ledger' = DOMAIN ledger,
         \A o \in DOMAIN ledger : o # proc[p].request => ledger'[o] = ledger[o],
         proc[p].request \in DOMAIN ledger =>
           LET row == ledger'[proc[p].request]
           IN /\ row \in [status : {"pending", "sent", "failed", "unknown"}, copies : 0 .. 1]
              /\ row.status = "failed" => row.copies = 0
  PROVE  UpgradeInv'
  <1>1. /\ proc' \in [Processes -> Locals] /\ proc'[p] = l
        /\ \A q \in Processes \ {p} : proc'[q] = proc[q]
    BY DEF UpgradeInv, TypeOK
  <1>2. TypeOK'
    BY <1>1 DEF UpgradeInv, TypeOK
  <1>3. SchemaRecorded'
    BY DEF UpgradeInv, SchemaRecorded
  <1>4. MigratesInOrder'
    BY <1>1 DEF UpgradeInv, MigratesInOrder
  <1>5. RowsOwned' /\ SentOnce'
    BY DEF UpgradeInv, RowsOwned, SentOnce
  <1>6. RequestsApart'
    BY <1>1 DEF UpgradeInv, RequestsApart
  <1>7. EveryOperationCounted'
    BY DEF UpgradeInv, EveryOperationCounted, OperationsOf
  <1>8. QED
    BY <1>2, <1>3, <1>4, <1>5, <1>6, <1>7 DEF UpgradeInv

(* The verdict on a request, or the end of the process before it. *)
LEMMA SettleStep ==
  ASSUME UpgradeInv, NEW p \in Processes,
         (\E verdict \in Verdicts : Settle(p, verdict)) \/ StopUnsettled(p)
  PROVE  UpgradeInv'
  <1> DEFINE o == proc[p].request
  <1>1. proc[p].request # Null /\ proc[p].at = "open" /\ proc[p] \in Locals
    BY DEF Settle, StopUnsettled, Serves, UpgradeInv, TypeOK
  <1>2. o \in DOMAIN ledger => ledger[o].status = "pending" /\ ledger[o].copies = 0
    BY <1>1 DEF UpgradeInv, RequestsApart
  <1>3. ASSUME NEW verdict \in Verdicts, Settle(p, verdict)
        PROVE  UpgradeInv'
    <2> DEFINE l == [proc[p] EXCEPT !.request = Null]
    <2>1. proc' = [proc EXCEPT ![p] = l]
      BY <1>3 DEF Settle, UpgradeInv, TypeOK
    <2>2. l \in Locals /\ l.request = Null /\ l.at = "open" /\ l.expanded = proc[p].expanded
      BY <1>1 DEF Locals
    <2>3. l.expanded => schema.expanded
      BY <2>2 DEF UpgradeInv, MigratesInOrder
    <2>4. /\ UNCHANGED <<recorded, schema, account, attempts>>
          /\ DOMAIN ledger' = DOMAIN ledger
          /\ \A x \in DOMAIN ledger : x # o => ledger'[x] = ledger[x]
          /\ o \in DOMAIN ledger =>
               ledger'[o] = [status |-> verdict.status,
                             copies |-> ledger[o].copies + verdict.copies]
      BY <1>3 DEF Settle
    <2>5. o \in DOMAIN ledger => ledger'[o] = [status |-> verdict.status, copies |-> verdict.copies]
      BY <1>2, <2>4 DEF Verdicts
    <2>6. o \in DOMAIN ledger =>
            /\ ledger'[o] \in [status : {"pending", "sent", "failed", "unknown"}, copies : 0 .. 1]
            /\ ledger'[o].status = "failed" => ledger'[o].copies = 0
      BY <2>5 DEF Verdicts
    <2> HIDE DEF l
    <2>7. QED
      BY <1>1, <2>1, <2>2, <2>3, <2>4, <2>6, EndsRequest
  <1>4. CASE StopUnsettled(p)
    <2>1. /\ UNCHANGED <<recorded, schema, account, attempts>>
          /\ DOMAIN ledger' = DOMAIN ledger /\ proc' = [proc EXCEPT ![p] = Down]
          /\ \A x \in DOMAIN ledger : x # o => ledger'[x] = ledger[x]
          /\ o \in DOMAIN ledger => ledger'[o] = [ledger[o] EXCEPT !.copies = @ + 1]
      BY <1>4 DEF StopUnsettled, Exit
    <2>2. o \in DOMAIN ledger =>
            /\ ledger'[o] \in [status : {"pending", "sent", "failed", "unknown"}, copies : 0 .. 1]
            /\ ledger'[o].status = "pending"
      BY <1>2, <2>1 DEF UpgradeInv, TypeOK
    <2>3. Down \in Locals /\ Down.request = Null /\ Down.at = "down" /\ ~Down.expanded
      BY DEF Down, Locals, Places, Versions
    <2>4. QED
      BY <1>1, <2>1, <2>2, <2>3, EndsRequest
  <1>5. QED
    BY <1>3, <1>4
-------------------------------------------------------------------------------
(* A file of an earlier version satisfies the invariant. *)
LEMMA UpgradeInit ==
  ASSUME Init
  PROVE  UpgradeInv
  <1>1. PICK v \in {0, 2, 3, 4, 5, 6} :
          /\ recorded = 1 .. v
          /\ schema \in [expanded : IF v \in {0, 2} THEN BOOLEAN ELSE {TRUE},
                         generation : {v >= 4}, attempts : {v >= 6}]
          /\ account \in [Accounts ->
               [state : IF v = 0 THEN {"none"} ELSE {"none", "there"},
                generation : {IF v >= 4 THEN 1 ELSE 0}]]
          /\ \E S \in SUBSET {o \in Operations : account[o[1]].state = "there"} :
               ledger \in [S -> RowsOf(v)]
          /\ attempts = [a \in Accounts |-> IF v >= 6 THEN Cardinality(OperationsOf(a)) ELSE 0]
          /\ proc = [p \in Processes |-> Down]
    BY DEF Init
  <1>2. /\ schema.generation = (v >= 4) /\ schema.attempts = (v >= 6)
        /\ v >= 3 => schema.expanded
        /\ schema \in [expanded : BOOLEAN, generation : BOOLEAN, attempts : BOOLEAN]
    <2>1. /\ schema = [expanded |-> schema.expanded, generation |-> schema.generation,
                       attempts |-> schema.attempts]
          /\ schema.expanded \in (IF v \in {0, 2} THEN BOOLEAN ELSE {TRUE})
          /\ schema.generation = (v >= 4) /\ schema.attempts = (v >= 6)
      BY <1>1, Zenon
    <2>2. (v >= 4) \in BOOLEAN /\ (v >= 6) \in BOOLEAN
      OBVIOUS
    <2>3. schema.expanded \in BOOLEAN
      BY <2>1, Zenon
    <2>4. v >= 3 => v \notin {0, 2}
      OBVIOUS
    <2>5. v >= 3 => schema.expanded
      BY <2>1, <2>4, Zenon
    <2>6. schema \in [expanded : BOOLEAN, generation : BOOLEAN, attempts : BOOLEAN]
      BY <2>1, <2>2, <2>3, Zenon
    <2>7. QED
      BY <2>1, <2>5, <2>6, Zenon
  <1>3. /\ account \in [Accounts -> [state : {"none", "there", "gone"}, generation : Nat]]
        /\ \A a \in Accounts : v < 4 => account[a].generation = 0
    BY <1>1
  <1>4. /\ DOMAIN ledger \subseteq Operations
        /\ \A o \in DOMAIN ledger : ledger[o] \in RowsOf(v) /\ account[o[1]].state = "there"
    <2>1. PICK S \in SUBSET {o \in Operations : account[o[1]].state = "there"} :
            ledger \in [S -> RowsOf(v)]
      BY <1>1
    <2>2. QED
      BY <2>1
  <1>5. \A row \in RowsOf(v) :
          /\ row \in [status : {"pending", "sent", "failed", "unknown"}, copies : Nat]
          /\ row.copies <= 1
          /\ row.status = "failed" /\ v >= 5 => row.copies = 0
    BY DEF RowsOf, Rows
  <1>6. \A a \in Accounts : IsFiniteSet(OperationsOf(a)) /\ Cardinality(OperationsOf(a)) \in Nat
    <2>1. \A a \in Accounts : OperationsOf(a) \subseteq {a} \X Keys
      BY <1>4 DEF OperationsOf, Operations
    <2>2. \A a \in Accounts : IsFiniteSet({a} \X Keys)
      BY FS_Product, FS_Singleton, FiniteAssumption DEF FiniteAssumption
    <2>3. QED
      BY <2>1, <2>2, FS_Subset, FS_CardinalityType
  <1>7. attempts \in [Accounts -> Nat] /\ \A a \in Accounts : v < 6 => attempts[a] = 0
    BY <1>1, <1>6
  <1>8. /\ Down \in Locals /\ Down.request = Null /\ Down.at = "down" /\ ~Down.expanded
        /\ \A p \in Processes : proc[p] = Down
        /\ proc \in [Processes -> Locals]
    BY <1>1 DEF Down, Locals, Places, Versions
  <1>9. TypeOK
    BY <1>1, <1>2, <1>3, <1>4, <1>5, <1>7, <1>8 DEF TypeOK, Versions
  <1>10. SchemaRecorded
    BY <1>1, <1>2, <1>3, <1>7 DEF SchemaRecorded, Versions
  <1>11. MigratesInOrder /\ RequestsApart
    BY <1>8 DEF MigratesInOrder, RequestsApart
  <1>12. RowsOwned /\ SentOnce
    BY <1>1, <1>4, <1>5 DEF RowsOwned, SentOnce
  <1>13. EveryOperationCounted
    BY <1>1, <1>2, <1>6 DEF EveryOperationCounted
  <1>14. QED
    BY <1>9, <1>10, <1>11, <1>12, <1>13 DEF UpgradeInv

(* Every step preserves the invariant. *)
LEMMA UpgradeStep ==
  ASSUME UpgradeInv, [Next]_vars
  PROVE  UpgradeInv'
  <1>1. CASE UNCHANGED vars
    BY <1>1 DEF vars, UpgradeInv, TypeOK, SchemaRecorded, MigratesInOrder,
       RowsOwned, RequestsApart, SentOnce, EveryOperationCounted, OperationsOf
  <1>2. ASSUME NEW p \in Processes,
               \/ \E role \in {"job", "server", "skipping"} : Start(p, role)
               \/ Migrate(p) \/ Serve(p) \/ Stop(p) \/ StopUnsettled(p)
        PROVE  UpgradeInv'
    <2>1. CASE Migrate(p)
      BY <2>1, BaseStep, WaitingSteps, ProviderStep, InboundStep, OutcomeStep,
         AttemptStep DEF Migrate
    <2>2. CASE Serve(p)
      BY <2>2, AccountStep, DeleteStep, ClaimStep, SettleStep DEF Serve
    <2>3. CASE Stop(p) \/ \E role \in {"job", "server", "skipping"} : Start(p, role)
      BY <2>3, WaitingSteps
    <2>4. CASE StopUnsettled(p)
      BY <2>4, SettleStep
    <2>5. QED
      BY <1>2, <2>1, <2>2, <2>3, <2>4
  <1>3. QED
    BY <1>1, <1>2 DEF Next
-------------------------------------------------------------------------------
(* The invariant holds throughout: the schema never runs ahead of the      *)
(* versions recorded, no process applies a migration before those it       *)
(* builds on, and no two requests hold one operation.                      *)
THEOREM UpgradeInvariant == Spec => []UpgradeInv
  BY UpgradeInit, UpgradeStep, PTL DEF Spec

(* No mail leaves twice while a file is upgraded, however many jobs and    *)
(* servers run runMigrations on it and whichever of them serve it.         *)
THEOREM SentOnceHolds == Spec => []SentOnce
  <1>1. UpgradeInv => SentOnce
    BY DEF UpgradeInv
  <1>2. QED
    BY <1>1, UpgradeInvariant, PTL

(* The table of attempts that version 6 makes, and that every claim writes *)
(* from then on, never falls behind the operations of an account.          *)
THEOREM EveryOperationCountedHolds == Spec => []EveryOperationCounted
  <1>1. UpgradeInv => EveryOperationCounted
    BY DEF UpgradeInv
  <1>2. QED
    BY <1>1, UpgradeInvariant, PTL

(* What a step does to the rows of the ledger that stay: nothing, or what  *)
(* a claim, a verdict or version 5 does.                                   *)
LEMMA FailedRowLeaves ==
  ASSUME UpgradeInv, Next, NEW o \in DOMAIN ledger \cap DOMAIN ledger',
         5 \in recorded, ledger[o].status = "failed", ledger'[o].status # "failed"
  PROVE  attempts'[o[1]] > attempts[o[1]]
  <1>1. o \in Operations /\ o[1] \in Accounts
    BY DEF UpgradeInv, TypeOK, Operations
  <1>2. PICK p \in Processes :
          \/ \E role \in {"job", "server", "skipping"} : Start(p, role)
          \/ Migrate(p) \/ Serve(p) \/ Stop(p) \/ StopUnsettled(p)
    BY DEF Next
  <1>3. CASE Migrate(p) \/ Stop(p) \/ \E role \in {"job", "server", "skipping"} : Start(p, role)
    <2>1. ledger' = ledger
      BY <1>3 DEF Migrate, ApplyBaseSchema, CheckApplied, InspectProviders,
         MigrateProviderTypes, VerifyForeignKeys, MigrateInboundEvents,
         MigrateLegacyFailedSendOutcomes, MigrateSendAttemptLedger, MigrationFails,
         Applying, Refused, Stop, Start, tables
    <2>2. QED
      BY <2>1
  <1>4. ASSUME NEW x \in Operations, Claim(p, x)
        PROVE  attempts'[o[1]] > attempts[o[1]]
    <2>1. /\ attempts' = [attempts EXCEPT ![x[1]] = @ + 1]
          /\ \A y \in DOMAIN ledger : y # x => ledger'[y] = ledger[y]
      BY <1>4 DEF Claim
    <2>2. QED
      BY <1>1, <2>1 DEF UpgradeInv, TypeOK
  <1>5. CASE (\E verdict \in Verdicts : Settle(p, verdict)) \/ StopUnsettled(p)
    <2>1. /\ proc[p].request # Null
          /\ \A y \in DOMAIN ledger : y # proc[p].request => ledger'[y] = ledger[y]
      BY <1>5 DEF Settle, StopUnsettled
    <2>2. QED
      BY <2>1 DEF UpgradeInv, RequestsApart
  <1>6. CASE \E a \in Accounts : CreateAccount(p, a) \/ AdvanceGeneration(p, a)
                                     \/ DeleteAccount(p, a)
    BY <1>6 DEF CreateAccount, AdvanceGeneration, DeleteAccount
  <1>7. QED
    BY <1>2, <1>3, <1>4, <1>5, <1>6 DEF Serve

(* A failure that version 5 or later has recorded is reopened by a claim   *)
(* and by nothing else; a migration that comes late rolls back.            *)
THEOREM FailuresStandHolds == Spec => FailuresStand
  <1>1. ASSUME UpgradeInv, [Next]_vars
        PROVE  [\A o \in DOMAIN ledger \cap DOMAIN ledger' :
                  5 \in recorded /\ ledger[o].status = "failed"
                    /\ ledger'[o].status # "failed"
                    => attempts'[o[1]] > attempts[o[1]]]_vars
    BY <1>1, FailedRowLeaves
  <1>2. QED
    BY <1>1, UpgradeInvariant, PTL DEF Spec, FailuresStand

(* What an account has at a step, it has after it. *)
LEMMA AccountKeeps ==
  ASSUME UpgradeInv, Next, NEW a \in Accounts,
         account[a].state = "there", account'[a].state # "gone"
  PROVE  /\ account'[a].state = "there"
         /\ account'[a].generation >= account[a].generation
         /\ OperationsOf(a) \subseteq DOMAIN ledger'
         /\ attempts'[a] >= attempts[a]
  <1> DEFINE Keeps == /\ account'[a].state = "there"
                      /\ account'[a].generation >= account[a].generation
                      /\ OperationsOf(a) \subseteq DOMAIN ledger'
                      /\ attempts'[a] >= attempts[a]
  <1>1. /\ account[a].generation \in Nat /\ attempts[a] \in Nat
        /\ account \in [Accounts -> [state : {"none", "there", "gone"}, generation : Nat]]
        /\ attempts \in [Accounts -> Nat]
    BY DEF UpgradeInv, TypeOK
  <1>2. OperationsOf(a) \subseteq DOMAIN ledger
    BY DEF OperationsOf
  <1>3. CASE UNCHANGED <<account, attempts>> /\ DOMAIN ledger \subseteq DOMAIN ledger'
    BY <1>1, <1>2, <1>3
  <1>4. PICK p \in Processes :
          \/ \E role \in {"job", "server", "skipping"} : Start(p, role)
          \/ Migrate(p) \/ Serve(p) \/ Stop(p) \/ StopUnsettled(p)
    BY DEF Next
  <1>5. CASE Stop(p) \/ \E role \in {"job", "server", "skipping"} : Start(p, role)
    BY <1>3, <1>5 DEF Stop, Start, tables
  <1>6. CASE StopUnsettled(p) \/ \E verdict \in Verdicts : Settle(p, verdict)
    BY <1>3, <1>6 DEF StopUnsettled, Settle
  <1>7. CASE Migrate(p)
    <2>1. CASE MigrateProviderTypes(p)
      <3>1. CASE UNCHANGED account
        BY <1>3, <2>1, <3>1 DEF MigrateProviderTypes
      <3>2. CASE account' = [b \in Accounts |-> [account[b] EXCEPT !.generation = 0]]
        <4>1. 3 \notin recorded
          BY <2>1 DEF MigrateProviderTypes, Applying, Refused
        <4>2. ~schema.generation
          BY <4>1 DEF UpgradeInv, SchemaRecorded, Versions
        <4>3. account[a].generation = 0
          BY <4>2 DEF UpgradeInv, SchemaRecorded
        <4>4. account'[a] = [account[a] EXCEPT !.generation = 0]
          BY <3>2
        <4>5. account'[a].state = account[a].state /\ account'[a].generation = 0
          BY <1>1, <4>4
        <4>6. attempts' = attempts /\ ledger' = ledger
          BY <2>1 DEF MigrateProviderTypes
        <4>7. QED
          BY <1>1, <1>2, <4>3, <4>5, <4>6
      <3>3. QED
        BY <2>1, <3>1, <3>2 DEF MigrateProviderTypes
    <2>2. CASE MigrateInboundEvents(p)
      <3>1. ~schema.generation
        BY <2>2 DEF MigrateInboundEvents, Applying, Refused
      <3>2. account[a].generation = 0
        BY <3>1 DEF UpgradeInv, SchemaRecorded
      <3>3. /\ account'[a] = [account[a] EXCEPT !.generation = 1]
            /\ attempts' = attempts /\ ledger' = ledger
        BY <2>2 DEF MigrateInboundEvents
      <3>4. account'[a].state = account[a].state /\ account'[a].generation = 1
        BY <1>1, <3>3
      <3>5. QED
        BY <1>1, <1>2, <3>2, <3>3, <3>4
    <2>3. CASE MigrateSendAttemptLedger(p)
      <3>1. ~schema.attempts
        BY <2>3 DEF MigrateSendAttemptLedger, Applying, Refused
      <3>2. attempts[a] = 0
        BY <3>1 DEF UpgradeInv, SchemaRecorded
      <3>3. /\ attempts'[a] = Cardinality(OperationsOf(a))
            /\ account' = account /\ ledger' = ledger
        BY <2>3 DEF MigrateSendAttemptLedger, OneEach
      <3>4. Cardinality(OperationsOf(a)) \in Nat
        BY OperationsFinite DEF UpgradeInv
      <3>5. QED
        BY <1>1, <1>2, <3>2, <3>3, <3>4
    <2>4. CASE MigrateLegacyFailedSendOutcomes(p)
      BY <1>3, <2>4 DEF MigrateLegacyFailedSendOutcomes
    <2>5. CASE ApplyBaseSchema(p)
      BY <1>3, <2>5 DEF ApplyBaseSchema
    <2>6. CASE CheckApplied(p) \/ InspectProviders(p) \/ VerifyForeignKeys(p) \/ MigrationFails(p)
      BY <1>3, <2>6 DEF CheckApplied, InspectProviders, VerifyForeignKeys, MigrationFails, tables
    <2>7. QED
      BY <1>7, <2>1, <2>2, <2>3, <2>4, <2>5, <2>6 DEF Migrate
  <1>8. ASSUME NEW b \in Accounts, CreateAccount(p, b) \/ AdvanceGeneration(p, b)
        PROVE  Keeps
    <2>1. attempts' = attempts /\ ledger' = ledger
      BY <1>8 DEF CreateAccount, AdvanceGeneration
    <2>2. CASE CreateAccount(p, b)
      <3>1. b # a /\ account'[a] = account[a]
        BY <1>1, <2>2 DEF CreateAccount
      <3>2. QED
        BY <1>1, <1>2, <2>1, <3>1
    <2>3. CASE AdvanceGeneration(p, b)
      <3>1. account' = [account EXCEPT ![b].generation = @ + 1]
        BY <2>3 DEF AdvanceGeneration
      <3>2. account'[a].state = "there" /\ account'[a].generation >= account[a].generation
        BY <1>1, <3>1
      <3>3. QED
        BY <1>1, <1>2, <2>1, <3>2
    <2>4. QED
      BY <1>8, <2>2, <2>3
  <1>9. ASSUME NEW b \in Accounts, DeleteAccount(p, b)
        PROVE  Keeps
    <2>1. /\ account' = [account EXCEPT ![b].state = "gone"]
          /\ DOMAIN ledger' = DOMAIN ledger \ OperationsOf(b)
          /\ attempts' = [attempts EXCEPT ![b] = 0]
      BY <1>9 DEF DeleteAccount
    <2>2. b # a
      BY <1>1, <2>1
    <2>3. OperationsOf(a) \subseteq DOMAIN ledger'
      BY <2>1, <2>2 DEF OperationsOf
    <2>4. QED
      BY <1>1, <2>1, <2>2, <2>3
  <1>10. ASSUME NEW x \in Operations, Claim(p, x)
         PROVE  Keeps
    <2>1. /\ account' = account /\ DOMAIN ledger \subseteq DOMAIN ledger'
          /\ attempts' = [attempts EXCEPT ![x[1]] = @ + 1]
      BY <1>10 DEF Claim
    <2>2. attempts'[a] >= attempts[a]
      BY <1>1, <2>1
    <2>3. QED
      BY <1>1, <1>2, <2>1, <2>2
  <1>11. QED
    BY <1>4, <1>5, <1>6, <1>7, <1>8, <1>9, <1>10 DEF Serve

(* No migration takes anything from an account: not its row, although      *)
(* version 3 drops its table and builds another, nor the number its        *)
(* inbound generation has reached, its operations or its attempts.         *)
THEOREM NothingLostHolds == Spec => NothingLost
  <1>1. ASSUME UpgradeInv, [Next]_vars
        PROVE  [\A a \in Accounts :
                  account[a].state = "there" /\ account'[a].state # "gone" =>
                    /\ account'[a].state = "there"
                    /\ account'[a].generation >= account[a].generation
                    /\ OperationsOf(a) \subseteq DOMAIN ledger'
                    /\ attempts'[a] >= attempts[a]]_vars
    BY <1>1, AccountKeeps
  <1>2. QED
    BY <1>1, UpgradeInvariant, PTL DEF Spec, NothingLost
===============================================================================
