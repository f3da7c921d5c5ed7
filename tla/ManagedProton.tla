---------------------------- MODULE ManagedProton ----------------------------
(***************************************************************************)
(* The managed Proton Bridge of slab-email: ManagedProtonBridge of         *)
(* src/src/services/proton-bridge-manager.ts, the account rows it keeps    *)
(* through AccountService, and the JSON-lines link to the Python process   *)
(* of module BridgeCli.                                                    *)
(*                                                                         *)
(* A handler runs without interruption up to the line it writes to the     *)
(* process and again from the line it reads: `Begin...', Dispatch and      *)
(* Receive are these pieces.  Between them the other handlers, the         *)
(* administrator's access profiles, a request timeout, the exit of the     *)
(* Python process and the restart of the server take their steps.          *)
(***************************************************************************)
EXTENDS BridgeCli

CONSTANTS
  Admins,      \* concurrent admin API requests
  Boot,        \* the start-up task of index.ts
  MaxFailures, \* bound: exits, failed starts, timeouts and restarts in a behaviour
  MaxCalls     \* bound: admin requests in a behaviour

ASSUME CallersAssumption == Callers = Admins \cup {Boot} /\ Boot \notin Admins
ASSUME BoundsAssumption == MaxFailures \in Nat /\ MaxCalls \in Nat
ASSUME RowsAssumption == Null \notin [login : Logins, enabled : BOOLEAN, assigned : BOOLEAN]

VARIABLES
  row,      \* the managed proton_bridge accounts by (lower-case) address
  child,    \* the controller's child process runs
  started, upstreamConnected, setupActive,
  setups,   \* this.pending: the login each known challenge belongs to
  op,       \* what each caller is doing
  failures, calls

mgrVars == <<child, started, upstreamConnected, setupActive, setups>>
vars == <<cliVars, mgrVars, row, op, failures, calls>>

Kinds == {"connect", "challenge", "abort", "status", "boot", "disconnect", "sync"}
Idle == [stage |-> "idle", kind |-> "status", login |-> Null, id |-> Null,
         group |-> {}, missing |-> FALSE]

TypeOK ==
  /\ CliTypeOK
  /\ row \in [Addresses -> [login : Logins, enabled : BOOLEAN, assigned : BOOLEAN] \cup {Null}]
  /\ child \in BOOLEAN /\ started \in BOOLEAN
  /\ upstreamConnected \in BOOLEAN /\ setupActive \in BOOLEAN
  /\ setups \in [Challenges -> Logins \cup {Null}]
  /\ op \in [Callers -> [stage : {"idle", "starting", "waiting"}, kind : Kinds,
                         login : Logins \cup {Null}, id : Challenges \cup {Null},
                         group : SUBSET Addresses, missing : BOOLEAN]]
  /\ failures \in 0 .. MaxFailures /\ calls \in 0 .. MaxCalls

(* The server starts on the database and the keychain of its earlier life; *)
(* main calls startIfConfigured when there is a managed account.           *)
BootOf(rows) ==
  IF rows = {} THEN Idle ELSE [Idle EXCEPT !.stage = "starting", !.kind = "boot"]

Init ==
  \E known \in SUBSET Logins, imported \in SUBSET (Addresses \ Logins) :
  /\ CliInit(known)
  /\ \A a \in imported : \E l \in known : a \in aliases[l]
  /\ row = [a \in Addresses |->
             IF a \in known \cup imported
               THEN [login |-> CHOOSE l \in known : a \in aliases[l],
                     enabled |-> TRUE, assigned |-> FALSE]
               ELSE Null]
  /\ child = FALSE /\ started = FALSE
  /\ upstreamConnected = FALSE /\ setupActive = FALSE
  /\ setups = [c \in Challenges |-> Null]
  /\ op = [p \in Callers |-> IF p = Boot THEN BootOf(known) ELSE Idle]
  /\ failures = 0 /\ calls = 0

-----------------------------------------------------------------------------
(* The account rows.                                                       *)
Present == {a \in Addresses : row[a] # Null}
GroupIn(rows, l) == {a \in Addresses : rows[a] # Null /\ rows[a].login = l}
Group(l) == GroupIn(row, l)
Assigned == {a \in Present : row[a].assigned}

(* upsertManagedProtonBridgeAccount.                                       *)
Upsert(as, l) ==
  [a \in Addresses |->
     IF a \notin as THEN row[a]
     ELSE IF row[a] = Null THEN [login |-> l, enabled |-> TRUE, assigned |-> FALSE]
     ELSE [row[a] EXCEPT !.login = l]]

(* A handler that holds the rows it read before its await finds a row that *)
(* was deleted since under no id: the same address may come back as        *)
(* another account.                                                        *)
Forget(ops, gone) ==
  [p \in Callers |-> [ops[p] EXCEPT !.group = @ \ gone,
                                    !.missing = @ \/ ops[p].group \cap gone # {}]]

Done(p) == [op EXCEPT ![p] = Idle]

-----------------------------------------------------------------------------
(* The handlers up to their first await.                                   *)
Ask(p, kind, l, id, group) ==
  op' = [op EXCEPT ![p] = [stage |-> "starting", kind |-> kind, login |-> l, id |-> id,
                           group |-> group, missing |-> FALSE]]

BeginConnect(p, l) ==
  /\ setupActive' = TRUE
  /\ Ask(p, "connect", l, Null, {})
  /\ UNCHANGED <<row, child, started, upstreamConnected, setups>>

BeginContinue(p, c) ==
  /\ c \in 1 .. issued
  /\ IF setups[c] = Null \/ c \in lapsed
       THEN /\ setups' = [setups EXCEPT ![c] = Null]
            /\ setupActive' = FALSE
            /\ UNCHANGED op
       ELSE /\ Ask(p, "challenge", setups[c], c, {})
            /\ UNCHANGED <<setups, setupActive>>
  /\ UNCHANGED <<row, child, started, upstreamConnected>>

BeginAbort(p, c) ==
  /\ c \in 1 .. issued
  /\ IF started THEN Ask(p, "abort", Null, c, {}) /\ UNCHANGED setupActive
                ELSE setupActive' = FALSE /\ UNCHANGED op
  /\ UNCHANGED <<row, child, started, upstreamConnected, setups>>

BeginStatus(p) ==
  /\ IF started THEN Ask(p, "status", Null, Null, {}) /\ UNCHANGED upstreamConnected
                ELSE upstreamConnected' = FALSE /\ UNCHANGED op
  /\ UNCHANGED <<row, child, started, setupActive, setups>>

(* disconnectAccount: the affected rows, the two refusals and the alias    *)
(* that is deleted without a word to Bridge.                               *)
Impacted(a) == IF a = row[a].login THEN Group(a) ELSE {a}

BeginDisconnect(p, a) ==
  /\ a \in Present
  /\ Impacted(a) \cap Assigned = {}
  /\ IF a = row[a].login
       THEN /\ Ask(p, "disconnect", a, Null, Group(a))
            /\ UNCHANGED row
       ELSE /\ row' = [row EXCEPT ![a] = Null]
            /\ op' = Forget(op, {a})
  /\ UNCHANGED mgrVars

BeginSync(p, a) ==
  /\ a \in Present
  /\ Ask(p, "sync", row[a].login, Null, {})
  /\ UNCHANGED <<mgrVars, row>>

(* ensureStarted and request: the line is written once a child runs.       *)
Action(kind) == CASE kind = "boot" -> "status"
                  [] kind = "disconnect" -> "remove"
                  [] kind = "sync" -> "addresses"
                  [] OTHER -> kind

Dispatch(p) ==
  /\ op[p].stage = "starting"
  /\ started' = TRUE
  /\ child' = TRUE
  /\ cli' = IF child THEN cli ELSE Fresh
  /\ requests' = Append(requests, [caller |-> p, action |-> Action(op[p].kind),
                                   login |-> op[p].login, id |-> op[p].id])
  /\ op' = [op EXCEPT ![p].stage = "waiting"]
  /\ UNCHANGED <<upstreamConnected, setupActive, setups, row, vault, aliases, issued,
                 lapsed, replies, changes, entered, failures, calls>>

-----------------------------------------------------------------------------
(* The error paths: connect and abort end the setup, a failed status       *)
(* request reports Bridge as not connected, the others only throw.         *)
Fail(ps) ==
  /\ setupActive' = (setupActive /\ \A p \in ps : op[p].kind \notin {"connect", "abort"})
  /\ upstreamConnected' = (upstreamConnected /\ \A p \in ps : op[p].kind \notin {"status", "boot"})
  /\ op' = [p \in Callers |-> IF p \in ps THEN Idle ELSE op[p]]
  /\ UNCHANGED <<setups, row>>

(* handleSetupResult: the login is stored under the name it was asked for. *)
HandleSetup(p, result) ==
  \/ /\ result.state = "challenge_required"
     /\ setupActive' = TRUE
     /\ setups' = [setups EXCEPT ![result.id] = op[p].login]
     /\ op' = Done(p)
     /\ UNCHANGED <<upstreamConnected, row>>
  \/ /\ result.state = "connected"
     /\ setups' = [c \in Challenges |-> IF setups[c] = op[p].login THEN Null ELSE setups[c]]
     /\ upstreamConnected' = TRUE
     /\ setupActive' = FALSE
     /\ row' = Upsert({result.address}, op[p].login)
     /\ op' = Done(p)

HandleStatus(p, result) ==
  /\ result.state = "ready"
  /\ upstreamConnected' = result.connected
  /\ op' = Done(p)
  /\ UNCHANGED <<setupActive, setups, row>>

HandleAbort(p, result) ==
  /\ result.state = "aborted"
  /\ setups' = [setups EXCEPT ![op[p].id] = Null]
  /\ setupActive' = FALSE
  /\ op' = Done(p)
  /\ UNCHANGED <<upstreamConnected, row>>

(* Mutant: the assignments are not looked at again after the sign-out. *)
RemovedWithoutRecheck(p) ==
  IF op[p].missing \/ op[p].group \cap Assigned # {}
    THEN SUBSET (op[p].group \ Assigned) ELSE {op[p].group}

(* disconnectAccount after the sign-out: the rows it deletes.  The loop    *)
(* stops at a row that is no longer there.                                 *)
Deleted(p) ==
  IF op[p].group \cap Assigned # {} THEN {{}}
  ELSE IF op[p].missing THEN SUBSET op[p].group
  ELSE {op[p].group}

HandleRemoved(p, result) ==
  /\ result.state = "removed"
  /\ \E gone \in Deleted(p) :
       /\ row' = [a \in Addresses |-> IF a \in gone THEN Null ELSE row[a]]
       /\ op' = Forget(Done(p), gone)
  /\ UNCHANGED <<upstreamConnected, setupActive, setups>>

(* Mutants: only senders in use are reconciled; every stale row is deleted. *)
StaleInUse(l, as) == (Group(l) \cap Assigned) \ as
DeletableAll(rows) == rows

(* syncAddresses after the discovery: rows for the returned addresses;     *)
(* a row that was not returned is deleted, or disabled while assigned.     *)
Stale(l, as) == Group(l) \ as
Deletable(rows) == rows \ Assigned

HandleAddresses(p, result) ==
  /\ result.state = "addresses"
  /\ LET l == op[p].login
         stale == Stale(l, result.addresses)
         gone == Deletable(stale)
         kept == Upsert(result.addresses, l)
     IN /\ row' = [a \in Addresses |->
                     IF a \in gone THEN Null
                     ELSE IF a \in stale THEN [row[a] EXCEPT !.enabled = FALSE]
                     ELSE kept[a]]
        /\ op' = Forget(Done(p), gone)
  /\ UNCHANGED <<upstreamConnected, setupActive, setups>>

(* onLine: the oldest line goes to its call, if that still waits.          *)
Receive ==
  /\ replies # <<>>
  /\ replies' = Tail(replies)
  /\ LET p == Head(replies).caller
         result == Head(replies).result
     IN IF p = Null
          THEN UNCHANGED <<upstreamConnected, setupActive, setups, row, op>>
          ELSE CASE result.state = "error" -> Fail({p})
                 [] op[p].kind \in {"connect", "challenge"} -> HandleSetup(p, result)
                 [] op[p].kind \in {"status", "boot"} -> HandleStatus(p, result)
                 [] op[p].kind = "abort" -> HandleAbort(p, result)
                 [] op[p].kind = "disconnect" -> HandleRemoved(p, result)
                 [] op[p].kind = "sync" -> HandleAddresses(p, result)
  /\ UNCHANGED <<child, started, vault, aliases, cli, issued, lapsed, requests, changes,
                 entered, failures, calls>>

-----------------------------------------------------------------------------
Fault == failures < MaxFailures /\ failures' = failures + 1

(* Mutant: the timer rejects the call and leaves it among the pending.     *)
KeptRegistered(lines, p) == lines

(* request's timer: the call is given up, the line it wrote is not.        *)
Orphan(lines, p) ==
  [i \in DOMAIN lines |-> IF lines[i].caller = p THEN [lines[i] EXCEPT !.caller = Null] ELSE lines[i]]

Timeout(p) ==
  /\ Fault
  /\ op[p].stage = "waiting"
  /\ requests' = Orphan(requests, p)
  /\ replies' = Orphan(replies, p)
  /\ Fail({p})
  /\ UNCHANGED <<child, started, vault, aliases, cli, issued, lapsed, changes, entered, calls>>

(* Mutant: a call whose reply is on its way is not rejected. *)
WaitingToBeRead == {p \in Callers : \E i \in DOMAIN requests : requests[i].caller = p}

Waiting == {p \in Callers : op[p].stage = "waiting"}

(* The Python process exits: every waiting call is rejected and what it    *)
(* had not read or written is gone.  The manager is not told.              *)
ChildExits ==
  /\ child
  /\ Fault
  /\ child' = FALSE
  /\ cli' = Fresh
  /\ requests' = <<>> /\ replies' = <<>>
  /\ Fail(Waiting)
  /\ UNCHANGED <<started, vault, aliases, issued, lapsed, changes, entered, calls>>

(* start rejects: the process did not become ready, and every call that   *)
(* waits for the same start fails with it.                                 *)
Starting == {p \in Callers : op[p].stage = "starting"}

StartFails ==
  /\ Starting # {} /\ ~child
  /\ Fault
  /\ Fail(Starting)
  /\ UNCHANGED <<child, started, cliVars, calls>>

(* The server process ends at any point and starts again: main calls       *)
(* startIfConfigured.                                                      *)
Restart ==
  /\ Fault
  /\ child' = FALSE /\ started' = FALSE
  /\ upstreamConnected' = FALSE /\ setupActive' = FALSE
  /\ setups' = [c \in Challenges |-> Null]
  /\ cli' = Fresh
  /\ requests' = <<>> /\ replies' = <<>>
  /\ op' = [p \in Callers |-> IF p = Boot THEN BootOf(Present) ELSE Idle]
  /\ UNCHANGED <<row, vault, aliases, issued, lapsed, changes, entered, calls>>

(* setProfileAccounts by the administrator.                                *)
SetAssigned(a, value) ==
  /\ a \in Present /\ row[a].assigned # value
  /\ row' = [row EXCEPT ![a].assigned = value]
  /\ UNCHANGED <<mgrVars, op>>

-----------------------------------------------------------------------------
Begin(p) ==
  /\ op[p].stage = "idle"
  /\ \/ \E l \in Logins : BeginConnect(p, l)
     \/ \E c \in Challenges : BeginContinue(p, c) \/ BeginAbort(p, c)
     \/ BeginStatus(p)
     \/ \E a \in Addresses : BeginDisconnect(p, a) \/ BeginSync(p, a)

Admin ==
  /\ calls < MaxCalls
  /\ calls' = calls + 1
  /\ \/ \E p \in Admins : Begin(p)
     \/ \E a \in Addresses, value \in BOOLEAN : SetAssigned(a, value)
  /\ UNCHANGED <<cliVars, failures>>

Environment ==
  /\ UpstreamChanges \/ \E c \in Challenges : Lapse(c)
  /\ UNCHANGED <<mgrVars, row, op, failures, calls>>

Python == Serve /\ UNCHANGED <<mgrVars, row, op, failures, calls>>

Link ==
  \/ \E p \in Callers : Dispatch(p) \/ Timeout(p)
  \/ StartFails \/ Receive
  \/ ChildExits

Next == Admin \/ Python \/ Link \/ Environment \/ Restart

Spec == Init /\ [][Next]_vars

(* The two event loops run: a started call is written out, a line the      *)
(* Python process or the Node process can read is handled.                 *)
FairSpec ==
  /\ Spec
  /\ WF_vars(Python) /\ WF_vars(Receive)
  /\ \A p \in Callers : WF_vars(Dispatch(p))

-----------------------------------------------------------------------------
(* What the managed Bridge promises.                                       *)
Received(p, state) ==
  Receive /\ Head(replies).caller = p /\ Head(replies).result.state = state

(* A mailbox that an access profile uses is never deleted, whichever       *)
(* sign-out, synchronisation or alias removal runs at the same time:       *)
(* disconnectAccount and syncAddresses look at the assignments again after *)
(* their await.                                                            *)
AssignedRowsSurvive == [][\A a \in Assigned : row'[a] # Null]_vars

(* After the sign-out disconnectAccount deletes every row it set out to    *)
(* delete or, when a profile took one of them in the meantime, none; the   *)
(* exception is a row another request deleted, which ends the loop.        *)
WholeGroupOrNone ==
  [][\A p \in Callers :
       Received(p, "removed") /\ ~op[p].missing =>
         \/ \A a \in op[p].group : row'[a] = row[a]
         \/ \A a \in op[p].group : row'[a] = Null]_vars

(* A credential given for one login's challenge is never typed into        *)
(* another login's dialog, whatever was aborted, timed out, lapsed or      *)
(* restarted between the question and the answer.                          *)
OwnDialogOnly == \A e \in entered : e[1] = e[2]

(* What OwnDialogOnly and TypeOK need to be inductive, in named parts.     *)
Lines(queue) == {queue[i] : i \in DOMAIN queue}

NamesLogin == {"connect", "challenge", "disconnect", "sync"}

(* A call of a kind that names a login has one, and so has its line.       *)
CallsComplete ==
  /\ \A p \in Callers :
       op[p].stage # "idle" /\ op[p].kind \in NamesLogin => op[p].login # Null
  /\ \A r \in Lines(requests) :
       r.action \in {"connect", "challenge", "remove", "addresses"} => r.login # Null

(* A line that is not given up belongs to a call that waits for it.        *)
LinesOwned ==
  /\ \A r \in Lines(requests) :
       r.caller # Null =>
         /\ op[r.caller].stage = "waiting"
         /\ r.login = op[r.caller].login
  /\ \A r \in Lines(replies) : r.caller # Null => op[r.caller].stage = "waiting"

(* No call has two lines.                                                  *)
Single(queue) ==
  \A i, j \in DOMAIN queue :
    queue[i].caller # Null /\ queue[i].caller = queue[j].caller => i = j

LinesApart ==
  /\ Single(requests) /\ Single(replies)
  /\ \A r \in Lines(requests), s \in Lines(replies) :
       r.caller # Null => r.caller # s.caller

(* All who know of a challenge know it as the same login's: the process,   *)
(* the manager, the calls that answer it and the lines under way.          *)
Knows(c, l) ==
  \/ cli.pending # Null /\ cli.pending.id = c /\ cli.pending.login = l
  \/ setups[c] = l
  \/ \E p \in Callers : op[p].kind = "challenge" /\ op[p].id = c /\ op[p].login = l
  \/ \E r \in Lines(requests) : r.action = "challenge" /\ r.id = c /\ r.login = l
  \/ \E r \in Lines(replies) :
       r.caller # Null /\ r.result = Challenge(c) /\ op[r.caller].login = l

OneLoginEach ==
  \A c \in Challenges, l \in Logins :
    Knows(c, l) => c <= issued /\ \A m \in Logins : Knows(c, m) => l = m

(* A dialog that an answer may reach is that of the open challenge.        *)
DialogOfChallenge ==
  cli.pending # Null /\ cli.dialog # Null => cli.dialog = cli.pending.login

DialogInv ==
  /\ TypeOK /\ CallsComplete /\ LinesOwned /\ LinesApart /\ OneLoginEach
  /\ DialogOfChallenge /\ OwnDialogOnly

(* A synchronisation leaves its login with the discovered addresses and,   *)
(* beyond them, only rows that are disabled and still assigned, although   *)
(* rows and assignments changed while Bridge was asked.                    *)
SyncReconciles ==
  [][\A p \in Callers :
       Received(p, "addresses") =>
         LET l == op[p].login
             as == Head(replies).result.addresses
         IN /\ as \subseteq GroupIn(row', l)
            /\ \A a \in GroupIn(row', l) \ as : row'[a].assigned /\ ~row'[a].enabled]_vars

(* Every admin request is answered, although requests time out, replies    *)
(* come too late and the Python process exits with calls under way.        *)
CallsAreSettled == \A p \in Callers : op[p].stage # "idle" ~> op[p].stage = "idle"

(* What this rests on: a call that waits has its line, in a pipe or with   *)
(* the process, and the process runs; and a line it gets as an answer is   *)
(* one that its handler takes, so that no answer blocks those behind it.   *)
Outcomes(kind) ==
  CASE kind \in {"connect", "challenge"} -> {"challenge_required", "connected"}
    [] kind \in {"status", "boot"} -> {"ready"}
    [] kind = "abort" -> {"aborted"}
    [] kind = "disconnect" -> {"removed"}
    [] kind = "sync" -> {"addresses"}

CallsProceed ==
  /\ \A p \in Waiting :
       child /\ \E r \in Lines(requests) \cup Lines(replies) : r.caller = p
  /\ \A r \in Lines(replies) :
       r.caller # Null => r.result.state \in {"error"} \cup Outcomes(op[r.caller].kind)

(* What CallsProceed needs to be inductive: a line asks for what its call  *)
(* is about.                                                               *)
ActionsFit ==
  \A r \in Lines(requests) : r.caller # Null => r.action = Action(op[r.caller].kind)

ProceedInv == CallsProceed /\ ActionsFit

(* docs/proton-managed.md: removing the primary login removes all of its   *)
(* managed aliases.  disconnectAccount deletes the rows it read before the *)
(* sign-out, so an alias that a synchronisation adds meanwhile stays.      *)
AliasesGoWithTheLogin ==
  [][\A p \in Callers :
       Received(p, "removed") /\ ~op[p].missing /\ op[p].group \cap Assigned = {} =>
         GroupIn(row', op[p].login) = {}]_vars

(* docs/proton-managed.md: synchronising imports the addresses of the      *)
(* account it was asked for.  _bridge_account falls back to the only       *)
(* account Bridge knows, which may be another login.                       *)
SyncImportsOwnAddresses ==
  [][\A p \in Callers :
       Received(p, "addresses") =>
         Head(replies).result.addresses \cap (Logins \ {op[p].login}) = {}]_vars

=============================================================================
