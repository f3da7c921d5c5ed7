---------------------------- MODULE ControllerLink ----------------------------
(***************************************************************************)
(* The lifecycle of the Python child process of the managed Bridge:        *)
(* PythonProtonBridgeController of src/src/proton/controller.ts.  There is *)
(* one object and, over time, several child processes: a process that was  *)
(* told to stop may still run when the next one is spawned, and the exit   *)
(* handler, the lines and the start timer of an old process act on the     *)
(* fields of the object, whichever process they belong to by then.         *)
(*                                                                         *)
(* What the processes do with a request is module BridgeCli's; here a      *)
(* line is a call's id or the word "ready".                                *)
(***************************************************************************)
EXTENDS Naturals, Sequences, FiniteSets

CONSTANTS
  Calls,       \* ids of requests (randomUUID: a call is made once)
  MaxChildren, \* bound: processes spawned in a behaviour
  Null

ASSUME NullAssumption == Null \notin Nat
ASSUME CallsAssumption == IsFiniteSet(Calls) /\ "ready" \notin Calls
ASSUME BoundAssumption == MaxChildren \in Nat

Children == 1 .. MaxChildren

VARIABLES
  spawned,     \* how many processes were spawned
  process,     \* "booting", "ready" or "dead"; "gone" once its exit was handled
  killed,      \* child.killed: a signal was sent
  armed,       \* the start timers that have not fired
  stdin,       \* the lines a process has not read
  stdout,      \* the lines of a process Node has not read
  child,       \* this.child
  start,       \* the process whose spawning made this.startPromise, or Null
  call,        \* what became of each call
  target       \* the process a call was written to

vars == <<spawned, process, killed, armed, stdin, stdout, child, start, call, target>>

TypeOK ==
  /\ spawned \in 0 .. MaxChildren
  /\ process \in [Children -> {"none", "booting", "ready", "dead", "gone"}]
  /\ killed \in [Children -> BOOLEAN]
  /\ armed \subseteq Children
  /\ stdin \in [Children -> Seq(Calls)]
  /\ stdout \in [Children -> Seq(Calls \cup {"ready"})]
  /\ child \in Children \cup {Null}
  /\ start \in Children \cup {Null}
  /\ call \in [Calls -> {"new", "starting", "pending", "settled"}]
  /\ target \in [Calls -> Children \cup {Null}]

Init ==
  /\ spawned = 0
  /\ process = [c \in Children |-> "none"]
  /\ killed = [c \in Children |-> FALSE]
  /\ armed = {}
  /\ stdin = [c \in Children |-> <<>>] /\ stdout = [c \in Children |-> <<>>]
  /\ child = Null /\ start = Null
  /\ call = [p \in Calls |-> "new"]
  /\ target = [p \in Calls |-> Null]

Running == {c \in Children : process[c] \in {"booting", "ready"}}
Starters == {p \in Calls : call[p] = "starting"}
Pending == {p \in Calls : call[p] = "pending"}

Settle(ps) == call' = [p \in Calls |-> IF p \in ps THEN "settled" ELSE call[p]]

(* A signal reaches any process whose exit Node has not seen.              *)
Kill(c) == killed' = [killed EXCEPT ![c] = @ \/ process[c] # "gone"]

-----------------------------------------------------------------------------
(* Calls.                                                                  *)

(* request after its await, for the calls of ps in any order: refused when *)
(* there is no process, or one that was told to stop.                      *)
Usable == child # Null /\ ~killed[child]

Write(ps) ==
  IF Usable
    THEN /\ \E line \in [1 .. Cardinality(ps) -> ps] :
              /\ \A p \in ps : \E i \in DOMAIN line : line[i] = p
              /\ stdin' = [stdin EXCEPT ![child] = @ \o line]
         /\ call' = [p \in Calls |-> IF p \in ps THEN "pending" ELSE call[p]]
         /\ target' = [p \in Calls |-> IF p \in ps THEN child ELSE target[p]]
    ELSE Settle(ps) /\ UNCHANGED <<stdin, target>>

(* start: a start under way is shared.                                     *)
JoinStart(p) ==
  /\ call[p] = "new" /\ start # Null
  /\ call' = [call EXCEPT ![p] = "starting"]
  /\ UNCHANGED <<spawned, process, killed, armed, stdin, stdout, child, start, target>>

(* start: the process there is.                                            *)
UseChild(p) ==
  /\ call[p] = "new" /\ start = Null /\ Usable
  /\ Write({p})
  /\ UNCHANGED <<spawned, process, killed, armed, stdout, child, start>>

(* start: a new process, its exit handler, its promise and its timer.      *)
Spawn(p) ==
  LET c == spawned + 1 IN
  /\ call[p] = "new" /\ start = Null /\ ~Usable
  /\ spawned < MaxChildren
  /\ spawned' = c
  /\ process' = [process EXCEPT ![c] = "booting"]
  /\ child' = c /\ start' = c
  /\ armed' = armed \cup {c}
  /\ call' = [call EXCEPT ![p] = "starting"]
  /\ UNCHANGED <<killed, stdin, stdout, target>>

(* The timer of request.                                                   *)
RequestTimesOut(p) ==
  /\ call[p] = "pending"
  /\ Settle({p})
  /\ UNCHANGED <<spawned, process, killed, armed, stdin, stdout, child, start, target>>

-----------------------------------------------------------------------------
(* Events of a process.                                                    *)

(* onLine.                                                                 *)
ReadReady(c) ==
  /\ stdout[c] # <<>> /\ Head(stdout[c]) = "ready" /\ process[c] # "gone"
  /\ stdout' = [stdout EXCEPT ![c] = Tail(@)]
  /\ start' = Null
  /\ Write(Starters)
  /\ UNCHANGED <<spawned, process, killed, armed, child>>

ReadReply(c) ==
  /\ stdout[c] # <<>> /\ Head(stdout[c]) # "ready" /\ process[c] # "gone"
  /\ stdout' = [stdout EXCEPT ![c] = Tail(@)]
  /\ Settle({Head(stdout[c])} \cap Pending)
  /\ UNCHANGED <<spawned, process, killed, armed, stdin, child, start, target>>

(* Mutants: calls that wait for the start are left to its timer, and an    *)
(* exit handler of an old process leaves the later ones alone.             *)
RejectedCalls(c) == Pending
RejectedOfChild(c) == IF child = c THEN Starters \cup Pending ELSE {}

(* The calls the exit handler of c rejects: whoever waits.                 *)
Rejected(c) == Starters \cup Pending

(* The exit handler, for the fields as they are now.                       *)
HandleExit(c) ==
  /\ process[c] = "dead"
  /\ process' = [process EXCEPT ![c] = "gone"]
  /\ child' = Null /\ start' = Null
  /\ Settle(Rejected(c))
  /\ UNCHANGED <<spawned, killed, armed, stdin, stdout, target>>

(* The timer that start set for c: it is never cleared, and rejects the    *)
(* start that is open when it fires.                                       *)
StartTimer(c) ==
  /\ c \in armed
  /\ armed' = armed \ {c}
  /\ IF start # Null
       THEN start' = Null /\ Settle(Starters) /\ Kill(c)
       ELSE UNCHANGED <<start, call, killed>>
  /\ UNCHANGED <<spawned, process, stdin, stdout, child, target>>

(* stop: SIGTERM now and SIGKILL after five seconds.                       *)
Stop ==
  /\ child # Null
  /\ Kill(child)
  /\ UNCHANGED <<spawned, process, armed, stdin, stdout, child, start, call, target>>

-----------------------------------------------------------------------------
(* The processes.                                                          *)

(* main of bridge_controller.py: the ready line, then a reply per line;    *)
(* both end with the signal, what was written before is still read.        *)
Boots(c) ==
  /\ process[c] = "booting" /\ ~killed[c]
  /\ process' = [process EXCEPT ![c] = "ready"]
  /\ stdout' = [stdout EXCEPT ![c] = Append(@, "ready")]
  /\ UNCHANGED <<spawned, killed, armed, stdin, child, start, call, target>>

Serves(c) ==
  /\ process[c] = "ready" /\ ~killed[c] /\ stdin[c] # <<>>
  /\ stdin' = [stdin EXCEPT ![c] = Tail(@)]
  /\ stdout' = [stdout EXCEPT ![c] = Append(@, Head(stdin[c]))]
  /\ UNCHANGED <<spawned, process, killed, armed, child, start, call, target>>

(* A failed startup, a crash, or the signal.                               *)
Dies(c) ==
  /\ c \in Running
  /\ process' = [process EXCEPT ![c] = "dead"]
  /\ UNCHANGED <<spawned, killed, armed, stdin, stdout, child, start, call, target>>

-----------------------------------------------------------------------------
Node ==
  \/ \E p \in Calls : JoinStart(p) \/ UseChild(p) \/ Spawn(p) \/ RequestTimesOut(p)
  \/ \E c \in Children : ReadReady(c) \/ ReadReply(c) \/ HandleExit(c) \/ StartTimer(c)
  \/ Stop

Python == \E c \in Children : Boots(c) \/ Serves(c) \/ Dies(c)

Next == Node \/ Python

Spec == Init /\ [][Next]_vars

-----------------------------------------------------------------------------
(* Nobody waits for what will not come: a call that waits for a start      *)
(* waits for one that is open and whose timer will end it, and a call that *)
(* was written waits for a process whose exit has not been handled, since  *)
(* every exit handler rejects all of them (start, request, clearStart).    *)
EveryWaiterHasAWaker ==
  /\ Starters # {} => start \in armed
  /\ \A p \in Pending : process[target[p]] # "gone"

(* With it, what a step relies on: the timer of an open start has not      *)
(* fired, and this.child is a process whose exit was not handled.          *)
LinkInv ==
  /\ TypeOK
  /\ EveryWaiterHasAWaker
  /\ start # Null => start \in armed
  /\ child # Null => process[child] # "gone"
  /\ \A p \in Pending : target[p] # Null
  /\ \A c \in Children : c > spawned => process[c] = "none" /\ c \notin armed
===============================================================================
