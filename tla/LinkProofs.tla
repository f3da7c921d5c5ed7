------------------------------ MODULE LinkProofs ------------------------------
(***************************************************************************)
(* No call of the controller's object waits for a process or a start that  *)
(* is over, for any number of processes and calls.                         *)
(***************************************************************************)
EXTENDS ControllerLink, FiniteSetTheorems, SequenceTheorems, TLAPS

(* What request does for the calls ps: each of them is written to a        *)
(* process that was not told to stop, or is settled.                       *)
LEMMA WriteTypes ==
  ASSUME LinkInv, NEW ps \in SUBSET Calls, Write(ps), process' = process,
         CallsAssumption
  PROVE  /\ stdin' \in [Children -> Seq(Calls)]
         /\ call' \in [Calls -> {"new", "starting", "pending", "settled"}]
         /\ target' \in [Calls -> Children \cup {Null}]
         /\ \A p \in ps : call'[p] \in {"pending", "settled"}
         /\ \A p \in Calls \ ps : call'[p] = call[p]
         /\ \A p \in Calls : call'[p] = "pending" =>
              target'[p] # Null /\ process[target'[p]] # "gone"
  <1> USE DEF LinkInv, TypeOK
  <1>1. CASE Usable
    <2>1. child \in Children /\ process[child] # "gone"
      BY <1>1 DEF Usable
    <2>2. PICK line \in [1 .. Cardinality(ps) -> ps] :
                 stdin' = [stdin EXCEPT ![child] = @ \o line]
      BY <1>1 DEF Write
    <2>3. line \in Seq(Calls)
      <3>1. Cardinality(ps) \in Nat
        BY FS_Subset, FS_CardinalityType DEF CallsAssumption
      <3>2. line \in [1 .. Cardinality(ps) -> Calls]
        OBVIOUS
      <3>3. QED
        BY <3>1, <3>2, SeqDef
    <2>4. stdin' \in [Children -> Seq(Calls)]
      BY <2>1, <2>2, <2>3
    <2>5. /\ call' = [p \in Calls |-> IF p \in ps THEN "pending" ELSE call[p]]
          /\ target' = [p \in Calls |-> IF p \in ps THEN child ELSE target[p]]
      BY <1>1 DEF Write
    <2>6. child # Null
      BY <1>1 DEF Usable
    <2>7. ASSUME NEW p \in Calls, call'[p] = "pending"
          PROVE  target'[p] # Null /\ process[target'[p]] # "gone"
      BY <2>1, <2>5, <2>6, <2>7 DEF EveryWaiterHasAWaker, Pending
    <2>8. QED
      BY <2>1, <2>4, <2>5, <2>7
  <1>2. CASE ~Usable
    BY <1>2 DEF Write, Settle, EveryWaiterHasAWaker, Pending
  <1>3. QED
    BY <1>1, <1>2

(* No process, no call: the invariant holds. *)
LEMMA InitLink == Init /\ NullAssumption /\ BoundAssumption => LinkInv
  BY DEF Init, LinkInv, TypeOK, EveryWaiterHasAWaker, Starters, Pending, Children

(* Every event of the object and of its processes preserves it. *)
LEMMA NextLink ==
  ASSUME LinkInv, [Next]_vars, NullAssumption, BoundAssumption, CallsAssumption
  PROVE  LinkInv'
  <1> USE DEF LinkInv, TypeOK, EveryWaiterHasAWaker, Starters, Pending
  <1>1. ASSUME NEW p \in Calls, JoinStart(p) PROVE LinkInv'
    BY <1>1 DEF JoinStart
  <1>2. ASSUME NEW p \in Calls, UseChild(p) PROVE LinkInv'
    <2>1. Write({p}) /\ process' = process
      BY <1>2 DEF UseChild
    <2>2. {p} \in SUBSET Calls
      OBVIOUS
    <2>3. QED
      BY <1>2, <2>1, <2>2, WriteTypes DEF UseChild
  <1>3. ASSUME NEW p \in Calls, Spawn(p) PROVE LinkInv'
    <2>1. spawned + 1 \in Children /\ spawned \in Nat
      BY <1>3 DEF Spawn, Children, BoundAssumption
    <2>2. process[spawned + 1] = "none"
      BY <2>1
    <2>3. ASSUME NEW q \in Calls, call'[q] = "pending"
          PROVE  target'[q] # Null /\ process'[target'[q]] # "gone"
      BY <1>3, <2>1, <2>2, <2>3 DEF Spawn
    <2>4. ASSUME NEW c \in Children, c > spawned'
          PROVE  process'[c] = "none" /\ c \notin armed'
      BY <1>3, <2>1, <2>4 DEF Spawn, Children
    <2>5. child' \in armed' /\ process'[child'] # "gone" /\ start' = child'
      BY <1>3, <2>1 DEF Spawn
    <2>6. TypeOK'
      BY <1>3, <2>1 DEF Spawn
    <2>7. QED
      BY <2>3, <2>4, <2>5, <2>6
  <1>4. ASSUME NEW p \in Calls, RequestTimesOut(p) PROVE LinkInv'
    BY <1>4 DEF RequestTimesOut, Settle
  <1>5. ASSUME NEW c \in Children, ReadReady(c) PROVE LinkInv'
    <2>1. Write(Starters) /\ process' = process /\ Starters \in SUBSET Calls
      BY <1>5 DEF ReadReady
    <2>2. Starters' = {}
      BY <2>1, WriteTypes
    <2>3. stdout' \in [Children -> Seq(Calls \cup {"ready"})]
      BY <1>5 DEF ReadReady
    <2>4. QED
      BY <1>5, <2>1, <2>2, <2>3, WriteTypes DEF ReadReady
  <1>6. ASSUME NEW c \in Children, ReadReply(c) PROVE LinkInv'
    <2>1. stdout' \in [Children -> Seq(Calls \cup {"ready"})]
      BY <1>6 DEF ReadReply
    <2>2. QED
      BY <1>6, <2>1 DEF ReadReply, Settle
  <1>7. ASSUME NEW c \in Children, HandleExit(c) PROVE LinkInv'
    BY <1>7 DEF HandleExit, Settle, Rejected
  <1>8. ASSUME NEW c \in Children, StartTimer(c) PROVE LinkInv'
    <2>1. CASE start # Null
      <3>1. killed' \in [Children -> BOOLEAN]
        BY <1>8, <2>1 DEF StartTimer, Kill
      <3>5. call' = [p \in Calls |-> IF p \in Starters THEN "settled" ELSE call[p]]
        BY <1>8, <2>1 DEF StartTimer, Settle
      <3>2. Starters' = {} /\ \A p \in Calls : call'[p] = "pending" => call[p] = "pending"
        BY <3>5
      <3>3. call' \in [Calls -> {"new", "starting", "pending", "settled"}]
        BY <1>8, <2>1 DEF StartTimer, Settle
      <3>4. QED
        BY <1>8, <2>1, <3>1, <3>2, <3>3 DEF StartTimer
    <2>2. CASE start = Null
      <3>1. Starters = {}
        BY <2>2, NullAssumption DEF Children
      <3>2. QED
        BY <1>8, <2>2, <3>1 DEF StartTimer
    <2>3. QED
      BY <2>1, <2>2
  <1>9. ASSUME Stop PROVE LinkInv'
    BY <1>9 DEF Stop, Kill
  <1>10. ASSUME NEW c \in Children, Boots(c) PROVE LinkInv'
    BY <1>10 DEF Boots
  <1>11. ASSUME NEW c \in Children, Serves(c) PROVE LinkInv'
    BY <1>11 DEF Serves
  <1>12. ASSUME NEW c \in Children, Dies(c) PROVE LinkInv'
    BY <1>12 DEF Dies, Running
  <1>13. CASE UNCHANGED vars
    BY <1>13 DEF vars
  <1>14. QED
    BY <1>1, <1>2, <1>3, <1>4, <1>5, <1>6, <1>7, <1>8, <1>9, <1>10, <1>11, <1>12,
       <1>13 DEF Next, Node, Python

(* The inductive invariant of the controller's object. *)
THEOREM LinkInvariant == Spec => []LinkInv
  <1>1. Init => LinkInv
    BY InitLink, NullAssumption, BoundAssumption
  <1>2. LinkInv /\ [Next]_vars => LinkInv'
    BY NextLink, NullAssumption, BoundAssumption, CallsAssumption
  <1>3. QED
    BY <1>1, <1>2, PTL DEF Spec

(* No call waits for a start that is over or for a process whose exit was  *)
(* handled (start, request and the exit handler of controller.ts).         *)
THEOREM WaitersAreWoken == Spec => []EveryWaiterHasAWaker
  <1>1. LinkInv => EveryWaiterHasAWaker
    BY DEF LinkInv
  <1>2. QED
    BY <1>1, LinkInvariant, PTL
===============================================================================
