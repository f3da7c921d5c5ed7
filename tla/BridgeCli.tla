------------------------------ MODULE BridgeCli ------------------------------
(***************************************************************************)
(* The Python process of src/src/proton/bridge_controller.py: it reads one *)
(* request at a time from its standard input, types commands into the      *)
(* pseudo-terminal of Proton's Bridge CLI and writes one reply per         *)
(* request.  The CLI itself, Proton's servers and the user's Proton        *)
(* account are the environment.                                            *)
(*                                                                         *)
(* Every _expect may run out of time.  What is left behind is what counts: *)
(* a command whose echo was never read blocks every later command          *)
(* (`deaf'), and a login that was not finished leaves the CLI asking for a *)
(* credential (`dialog').  A Bridge process that died answers no command   *)
(* either and nothing starts it again, so it is deaf as well.              *)
(***************************************************************************)
EXTENDS Naturals, Sequences, FiniteSets

CONSTANTS
  Logins,         \* the Proton logins an administrator may connect
  Addresses,      \* every address of these logins; a login is an address itself
  Callers,        \* the requests of the Node process that may be under way at once
  Null,
  MaxChallenges,  \* bound: how many challenges Bridge ever asks
  MaxUpstream     \* bound: how many times the Proton account changes by itself

ASSUME LoginsAssumption == Logins \subseteq Addresses
ASSUME NullAssumption == Null \notin Addresses \cup Callers \cup Nat
ASSUME CountsAssumption == MaxChallenges \in Nat /\ MaxUpstream \in Nat

VARIABLES
  vault,      \* the Bridge keychain: [Logins -> "absent", "signed_out" or "connected"]
  aliases,    \* the addresses Proton serves for each login
  cli,        \* self.pending, the CLI's open login dialog, and whether commands get through
  issued,     \* how many challenges were issued; a challenge is named by its number
  lapsed,     \* the challenges whose ten minutes are over
  requests,   \* the lines written to the process and not yet handled
  replies,    \* the lines it wrote and the Node process has not read
  changes,    \* how many times the Proton account changed
  entered     \* history: <<login the value was given for, login whose dialog took it>>

cliVars == <<vault, aliases, cli, issued, lapsed, requests, replies, changes, entered>>

Challenges == 1 .. MaxChallenges
Fresh == [pending |-> Null, dialog |-> Null, deaf |-> FALSE]

(* The results the Node process tells apart (ProtonBridgeControllerResult; *)
(* every refusal is one "error").                                          *)
Failed == [state |-> "error"]
Ready(connected) == [state |-> "ready", connected |-> connected]
Challenge(c) == [state |-> "challenge_required", id |-> c]
Connected(l) == [state |-> "connected", address |-> l]
Discovered(as) == [state |-> "addresses", addresses |-> as]
Removed == [state |-> "removed"]
Aborted == [state |-> "aborted"]

Results == {Failed, Removed, Aborted}
           \cup {Ready(b) : b \in BOOLEAN}
           \cup {Challenge(c) : c \in Challenges}
           \cup {Connected(l) : l \in Logins}
           \cup {Discovered(as) : as \in SUBSET Addresses}

Actions == {"status", "connect", "challenge", "abort", "remove", "addresses"}
Request == [caller : Callers \cup {Null}, action : Actions,
            login : Logins \cup {Null}, id : Challenges \cup {Null}]
Reply == [caller : Callers \cup {Null}, result : Results]

CliTypeOK ==
  /\ vault \in [Logins -> {"absent", "signed_out", "connected"}]
  /\ aliases \in [Logins -> SUBSET Addresses]
  /\ cli \in [pending : [id : Challenges, login : Logins] \cup {Null},
              dialog : Logins \cup {Null}, deaf : BOOLEAN]
  /\ issued \in 0 .. MaxChallenges
  /\ lapsed \subseteq Challenges
  /\ requests \in Seq(Request) /\ replies \in Seq(Reply)
  /\ changes \in 0 .. MaxUpstream
  /\ entered \subseteq Logins \X Logins

CliInit(known) ==
  /\ vault = [l \in Logins |-> IF l \in known THEN "connected" ELSE "absent"]
  /\ aliases \in {f \in [Logins -> SUBSET Addresses] :
                   /\ \A l \in Logins : f[l] \cap Logins = {l}
                   /\ \A l, m \in Logins : l # m => f[l] \cap f[m] = {}}
  /\ cli = Fresh
  /\ issued = 0 /\ lapsed = {}
  /\ requests = <<>> /\ replies = <<>>
  /\ changes = 0 /\ entered = {}

-----------------------------------------------------------------------------
(* main: the loop takes the oldest line and writes one reply before it     *)
(* reads the next.                                                         *)
Taking(action) == requests # <<>> /\ Head(requests).action = action
Answer(result) ==
  /\ requests' = Tail(requests)
  /\ replies' = Append(replies, [caller |-> Head(requests).caller, result |-> result])

Refuse == Answer(Failed) /\ UNCHANGED <<vault, cli, issued, entered>>

(* _send_command and the echo half of _expect: a command is answered only  *)
(* by a CLI that stands at its prompt.  A CLI that asks for a credential   *)
(* swallows the command, its echo is never recognised and pending_command  *)
(* stays set.                                                              *)
Reached == ~cli.deaf /\ cli.dialog = Null
NotReached ==
  /\ ~Reached
  /\ cli' = [cli EXCEPT !.deaf = TRUE]
  /\ Answer(Failed)
  /\ UNCHANGED <<vault, issued, entered>>

(* _expect runs out of time after a command: the echo was read or it was   *)
(* not, and Bridge did what it was asked or it did not.                    *)
Stall(done) ==
  /\ Reached
  /\ \E deaf \in BOOLEAN : cli' = [cli EXCEPT !.deaf = deaf]
  /\ vault' \in {vault, done}
  /\ Answer(Failed)
  /\ UNCHANGED <<issued, entered>>

(* _restart_bridge: a new CLI process with nothing pending; it may not     *)
(* come up in time, or take no command.                                    *)
RestartThen(result) ==
  \/ cli' = Fresh /\ Answer(result)
  \/ cli' \in {Fresh, [Fresh EXCEPT !.deaf = TRUE]} /\ Answer(Failed)

(* _status: what the list command shows.                                   *)
AnyConnected == \E l \in Logins : vault[l] = "connected"

(* Mutant: the entry of a removed account is dropped. *)
SignOutDrops(l) == [m \in Logins \ {l} |-> vault[m]]

SignIn(l) == [vault EXCEPT ![l] = "connected"]
SignOut(l) == [vault EXCEPT ![l] = "absent"]

(* _new_challenge: the CLI asks for another credential of this login.      *)
AskCredential(l) ==
  /\ issued < MaxChallenges
  /\ issued' = issued + 1
  /\ cli' = [cli EXCEPT !.pending = [id |-> issued + 1, login |-> l], !.dialog = l]
  /\ Answer(Challenge(issued + 1))
  /\ UNCHANGED vault

(* _advance_login after the account was added, or was there already; the   *)
(* mailbox settings may then be unreadable (_mailbox_info).                *)
LoggedIn(l) ==
  /\ vault' = SignIn(l)
  /\ cli' = [cli EXCEPT !.pending = Null, !.dialog = Null]
  /\ \E result \in {Connected(l), Failed} : Answer(result)
  /\ UNCHANGED issued

(* _advance_login after "Cannot login" or a bare prompt: the dialog is     *)
(* over and self.pending keeps the challenge it had.                       *)
LoginRejected(l) ==
  /\ cli' = [cli EXCEPT !.dialog = Null]
  /\ Answer(Failed)
  /\ UNCHANGED <<vault, issued>>

(* _advance_login times out: the CLI still asks, or finished unheard.      *)
LoginStalls(l) ==
  /\ \E left \in {Null, l} : cli' = [cli EXCEPT !.dialog = left]
  /\ vault' \in IF cli'.dialog = Null THEN {vault, SignIn(l)} ELSE {vault}
  /\ Answer(Failed)
  /\ UNCHANGED issued

AdvanceLogin(l) ==
  \/ vault[l] # "connected" /\ AskCredential(l)
  \/ LoggedIn(l)
  \/ vault[l] # "connected" /\ LoginRejected(l)
  \/ LoginStalls(l)

-----------------------------------------------------------------------------
(* The handlers.                                                           *)
Status ==
  /\ Taking("status")
  /\ \/ /\ cli.pending # Null
        /\ cli.pending.id \notin lapsed
        /\ Answer(Ready(FALSE))
        /\ UNCHANGED <<vault, cli, issued, entered>>
     \/ /\ cli.pending # Null
        /\ cli.pending.id \in lapsed
        /\ RestartThen(Ready(AnyConnected))
        /\ UNCHANGED <<vault, issued, entered>>
     \/ /\ cli.pending = Null
        /\ Reached
        /\ Answer(Ready(AnyConnected))
        /\ UNCHANGED <<vault, cli, issued, entered>>
     \/ cli.pending = Null /\ (NotReached \/ Stall(vault))

Connect ==
  /\ Taking("connect")
  /\ LET l == Head(requests).login IN
     \/ cli.pending # Null /\ Refuse
     \/ cli.pending = Null /\ Reached /\ AdvanceLogin(l) /\ UNCHANGED entered
     \/ cli.pending = Null /\ (NotReached \/ Stall(vault))

(* Mutant: any open challenge takes the value. *)
AnyPending(id) == cli.pending # Null

(* _challenge's first guard.                                               *)
Current(id) == cli.pending # Null /\ cli.pending.id = id

ChallengeAnswered ==
  /\ Taking("challenge")
  /\ LET id == Head(requests).id
         l == cli.pending.login
     IN \/ ~Current(id) /\ Refuse
        \/ /\ Current(id) /\ cli.pending.id \in lapsed
           /\ RestartThen(Failed)
           /\ UNCHANGED <<vault, issued, entered>>
        \/ /\ Current(id) /\ cli.pending.id \notin lapsed
           /\ cli.deaf \/ cli.dialog = Null
           /\ Refuse
        \/ /\ Current(id) /\ cli.pending.id \notin lapsed
           /\ ~cli.deaf /\ cli.dialog # Null
           /\ entered' = entered \cup {<<Head(requests).login, cli.dialog>>}
           /\ AdvanceLogin(l)

Abort ==
  /\ Taking("abort")
  /\ UNCHANGED <<vault, issued, entered>>
  /\ \/ /\ Current(Head(requests).id)
        /\ RestartThen(Aborted)
     \/ /\ ~Current(Head(requests).id)
        /\ cli' = [cli EXCEPT !.pending = Null]
        /\ Answer(Aborted)

(* _remove answers "removed" once the prompt is back, whatever Bridge has  *)
(* printed: it may not know the account, or refuse to delete it.           *)
Remove ==
  /\ Taking("remove")
  /\ LET l == Head(requests).login IN
     \/ cli.pending # Null /\ Refuse
     \/ /\ cli.pending = Null /\ Reached
        /\ vault' \in {vault, SignOut(l)}
        /\ Answer(Removed)
        /\ UNCHANGED <<cli, issued, entered>>
     \/ cli.pending = Null /\ (NotReached \/ Stall(SignOut(l)))

(* _bridge_account: the row of this login, or the only row there is.       *)
BridgeAccount(l) ==
  LET known == {m \in Logins : vault[m] # "absent"}
  IN IF l \in known THEN {l} ELSE IF Cardinality(known) = 1 THEN known ELSE {}

DiscoverAddresses ==
  /\ Taking("addresses")
  /\ \/ cli.pending # Null /\ Refuse
     \/ cli.pending = Null /\ Reached /\ Refuse  \* not found, not connected, not split, unreadable
     \/ /\ cli.pending = Null /\ Reached
        /\ \E m \in BridgeAccount(Head(requests).login) :
             /\ vault[m] = "connected"
             /\ Answer(Discovered(aliases[m]))
        /\ UNCHANGED <<vault, cli, issued, entered>>
     \/ cli.pending = Null /\ (NotReached \/ Stall(vault))

Serve ==
  /\ \/ Status \/ Connect \/ ChallengeAnswered \/ Abort \/ Remove \/ DiscoverAddresses
  /\ UNCHANGED <<aliases, lapsed, changes>>

-----------------------------------------------------------------------------
(* The environment: addresses come and go upstream, a session is revoked,  *)
(* the CLI dies, a challenge grows too old.                                *)
UpstreamChanges ==
  /\ changes < MaxUpstream
  /\ changes' = changes + 1
  /\ \/ \E l \in Logins, a \in Addresses \ Logins :
          /\ \A m \in Logins \ {l} : a \notin aliases[m]
          /\ aliases' = [aliases EXCEPT ![l] = IF a \in @ THEN @ \ {a} ELSE @ \cup {a}]
          /\ UNCHANGED <<vault, cli>>
     \/ \E l \in Logins :
          /\ vault[l] = "connected"
          /\ vault' = [vault EXCEPT ![l] = "signed_out"]
          /\ UNCHANGED <<aliases, cli>>
     \/ /\ ~cli.deaf
        /\ cli' = [cli EXCEPT !.deaf = TRUE]
        /\ UNCHANGED <<vault, aliases>>
  /\ UNCHANGED <<issued, lapsed, requests, replies, entered>>

Lapse(c) ==
  /\ c \in (1 .. issued) \ lapsed
  /\ lapsed' = lapsed \cup {c}
  /\ UNCHANGED <<vault, aliases, cli, issued, requests, replies, changes, entered>>
=============================================================================
