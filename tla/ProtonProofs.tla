----------------------------- MODULE ProtonProofs -----------------------------
(***************************************************************************)
(* Theorems of ManagedProton for any logins, addresses and concurrent      *)
(* requests, and every bound on challenges, faults and calls.              *)
(***************************************************************************)
EXTENDS ManagedProton, SequenceTheorems, TLAPS

(* The lines between the two processes. *)

(* The oldest line is taken. *)
LEMMA LinesTail ==
  ASSUME NEW T, NEW s \in Seq(T), s # <<>>
  PROVE  /\ Head(s) \in T /\ Tail(s) \in Seq(T) /\ Head(s) \in Lines(s)
         /\ Lines(Tail(s)) \subseteq Lines(s)
         /\ Single(s) =>
              /\ Single(Tail(s))
              /\ \A r \in Lines(Tail(s)) : r.caller # Null => r.caller # Head(s).caller
  <1>1. /\ Len(s) \in Nat \ {0} /\ DOMAIN s = 1 .. Len(s) /\ Head(s) = s[1]
        /\ Tail(s) \in Seq(T) /\ DOMAIN Tail(s) = 1 .. (Len(s) - 1)
        /\ \A i \in 1 .. (Len(s) - 1) : Tail(s)[i] = s[i + 1]
    BY HeadTailProperties
  <1>2. \A i \in DOMAIN Tail(s) : i + 1 \in DOMAIN s /\ Tail(s)[i] = s[i + 1] /\ i + 1 # 1
    BY <1>1
  <1>3. Head(s) \in T /\ Head(s) \in Lines(s)
    BY <1>1 DEF Lines
  <1>4. Lines(Tail(s)) \subseteq Lines(s)
    BY <1>2 DEF Lines
  <1>5. ASSUME Single(s)
        PROVE  Single(Tail(s))
    <2>1. \A i, j \in DOMAIN Tail(s) : i + 1 = j + 1 => i = j
      BY <1>1
    <2>2. QED
      BY <1>2, <1>5, <2>1 DEF Single
  <1>6. ASSUME Single(s), NEW r \in Lines(Tail(s)), r.caller # Null
        PROVE  r.caller # Head(s).caller
    BY <1>1, <1>2, <1>6 DEF Single, Lines
  <1>7. QED
    BY <1>1, <1>3, <1>4, <1>5, <1>6

(* A line is written behind the others. *)
LEMMA LinesAppend ==
  ASSUME NEW T, NEW s \in Seq(T), NEW x \in T
  PROVE  /\ Append(s, x) \in Seq(T)
         /\ Lines(Append(s, x)) = Lines(s) \cup {x}
         /\ Single(s) /\ (x.caller # Null => \A r \in Lines(s) : r.caller # x.caller)
              => Single(Append(s, x))
  <1>1. /\ Len(s) \in Nat /\ DOMAIN s = 1 .. Len(s)
        /\ Append(s, x) \in Seq(T) /\ DOMAIN Append(s, x) = 1 .. (Len(s) + 1)
        /\ \A i \in 1 .. Len(s) : Append(s, x)[i] = s[i]
        /\ Append(s, x)[Len(s) + 1] = x
    BY AppendProperties, LenProperties
  <1>2. /\ DOMAIN Append(s, x) = DOMAIN s \cup {Len(s) + 1}
        /\ Len(s) + 1 \notin DOMAIN s
    BY <1>1
  <1>3. Lines(Append(s, x)) = Lines(s) \cup {x}
    BY <1>1, <1>2 DEF Lines
  <1>4. ASSUME Single(s), x.caller # Null => \A r \in Lines(s) : r.caller # x.caller
        PROVE  Single(Append(s, x))
    BY <1>1, <1>2, <1>4 DEF Single, Lines
  <1>5. QED
    BY <1>1, <1>3, <1>4

(* A call is given up, its lines are not. *)
LEMMA LinesOrphan ==
  ASSUME NEW s, DOMAIN s = 1 .. Len(s), Len(s) \in Nat, NEW p, p # Null
  PROVE  /\ \A x \in Lines(Orphan(s, p)) :
              \E r \in Lines(s) : \/ x = r /\ r.caller # p
                                  \/ x = [r EXCEPT !.caller = Null]
         /\ \A i \in DOMAIN s : Orphan(s, p)[i] \in Lines(Orphan(s, p))
         /\ DOMAIN Orphan(s, p) = DOMAIN s
  BY DEF Orphan, Lines

(* No lines. *)
LEMMA LinesEmpty == Lines(<<>>) = {} /\ Single(<<>>)
  BY DEF Lines, Single
-------------------------------------------------------------------------------
(* The Node process. *)

Ops == [stage : {"idle", "starting", "waiting"}, kind : Kinds,
        login : Logins \cup {Null}, id : Challenges \cup {Null},
        group : SUBSET Addresses, missing : BOOLEAN]

Rows == [Addresses ->
           [login : Logins, enabled : BOOLEAN, assigned : BOOLEAN] \cup {Null}]

Clis == [pending : [id : Challenges, login : Logins] \cup {Null},
         dialog : Logins \cup {Null}, deaf : BOOLEAN]

(* What remains of some lines when others are taken or their calls given   *)
(* up.                                                                     *)
Rest(after, before) ==
  \A x \in after : \E r \in before : x = r \/ x = [r EXCEPT !.caller = Null]

(* A call that has changed has no line under way.                          *)
Unchanged(p) ==
  /\ op'[p].stage = op[p].stage /\ op'[p].kind = op[p].kind
  /\ op'[p].login = op[p].login /\ op'[p].id = op[p].id

Ended(p) == op'[p].stage = "idle" /\ op'[p].kind = "status"

NoLines(p) == \A r \in Lines(requests') \cup Lines(replies') : r.caller # p

(* Null is no caller, no login and no challenge.                           *)
LEMMA NullApart ==
  Null \notin Callers /\ Null \notin Logins /\ Null \notin Challenges
  BY NullAssumption, LoginsAssumption, CountsAssumption
     DEF NullAssumption, LoginsAssumption, CountsAssumption, Challenges

(* A step of the manager that writes no line: it takes lines and gives up  *)
(* calls, and what it says of challenges was known before.                 *)
LEMMA ManagerStep ==
  ASSUME DialogInv, TypeOK', UNCHANGED <<issued, entered>>,
         cli'.pending = Null \/ (cli'.pending = cli.pending /\ cli'.dialog = cli.dialog),
         Single(requests'), Single(replies'),
         Rest(Lines(requests'), Lines(requests)), Rest(Lines(replies'), Lines(replies)),
         \A p \in Callers : Unchanged(p) \/ NoLines(p),
         \A p \in Callers : op'[p].stage # "idle" /\ op'[p].kind \in NamesLogin
                              => op'[p].login # Null,
         \A p \in Callers, c \in Challenges, l \in Logins :
           op'[p].kind = "challenge" /\ op'[p].id = c /\ op'[p].login = l => Knows(c, l),
         \A c \in Challenges, l \in Logins : setups'[c] = l => Knows(c, l)
  PROVE  DialogInv'
  <1>1. /\ \A r \in Lines(requests) : r \in Request
        /\ \A r \in Lines(replies) : r \in Reply
    BY DEF DialogInv, TypeOK, CliTypeOK, Lines
  <1>2. ASSUME NEW x \in Lines(requests')
        PROVE  \E r \in Lines(requests) :
                 /\ x.action = r.action /\ x.login = r.login /\ x.id = r.id
                 /\ x.caller = r.caller \/ x.caller = Null
    <2>1. PICK r \in Lines(requests) : x = r \/ x = [r EXCEPT !.caller = Null]
      BY DEF Rest
    <2>2. QED
      BY <1>1, <2>1 DEF Request
  <1>3. ASSUME NEW x \in Lines(replies')
        PROVE  \E r \in Lines(replies) :
                 x.result = r.result /\ (x.caller = r.caller \/ x.caller = Null)
    <2>1. PICK r \in Lines(replies) : x = r \/ x = [r EXCEPT !.caller = Null]
      BY DEF Rest
    <2>2. QED
      BY <1>1, <2>1 DEF Reply
  <1>4. CallsComplete'
    BY <1>2 DEF DialogInv, CallsComplete
  <1>5. LinesOwned'
    <2>1. ASSUME NEW x \in Lines(requests'), x.caller # Null
          PROVE  op'[x.caller].stage = "waiting" /\ x.login = op'[x.caller].login
      <3>1. PICK r \in Lines(requests) : r.caller = x.caller /\ x.login = r.login
        BY <1>2, <2>1
      <3>2. r.caller \in Callers
        BY <1>1, <2>1, <3>1 DEF Request
      <3>3. Unchanged(x.caller)
        BY <2>1, <3>1, <3>2 DEF NoLines
      <3>4. QED
        BY <2>1, <3>1, <3>3 DEF DialogInv, LinesOwned, Unchanged
    <2>2. ASSUME NEW x \in Lines(replies'), x.caller # Null
          PROVE  op'[x.caller].stage = "waiting"
      <3>1. PICK r \in Lines(replies) : r.caller = x.caller
        BY <1>3, <2>2
      <3>2. r.caller \in Callers
        BY <1>1, <2>2, <3>1 DEF Reply
      <3>3. Unchanged(x.caller)
        BY <2>2, <3>1, <3>2 DEF NoLines
      <3>4. QED
        BY <2>2, <3>1, <3>3 DEF DialogInv, LinesOwned, Unchanged
    <2>3. QED
      BY <2>1, <2>2 DEF LinesOwned
  <1>6. LinesApart'
    <2>1. ASSUME NEW x \in Lines(requests'), NEW y \in Lines(replies'), x.caller # Null
          PROVE  x.caller # y.caller
      BY <1>2, <1>3, <2>1 DEF DialogInv, LinesApart
    <2>2. QED
      BY <2>1 DEF LinesApart
  <1>7. ASSUME NEW c \in Challenges, NEW l \in Logins, Knows(c, l)'
        PROVE  Knows(c, l)
    <2>1. CASE cli'.pending # Null /\ cli'.pending.id = c /\ cli'.pending.login = l
      BY <2>1 DEF Knows
    <2>2. CASE \E r \in Lines(requests') : r.action = "challenge" /\ r.id = c /\ r.login = l
      BY <1>2, <2>2 DEF Knows
    <2>3. ASSUME NEW x \in Lines(replies'), x.caller # Null, x.result = Challenge(c),
                 op'[x.caller].login = l
          PROVE  Knows(c, l)
      <3>1. PICK r \in Lines(replies) : r.caller = x.caller /\ r.result = x.result
        BY <1>3, <2>3
      <3>2. r.caller \in Callers
        BY <1>1, <2>3, <3>1 DEF Reply
      <3>3. Unchanged(x.caller)
        BY <2>3, <3>1, <3>2 DEF NoLines
      <3>4. QED
        BY <2>3, <3>1, <3>3 DEF Knows, Unchanged
    <2>4. QED
      BY <1>7, <2>1, <2>2, <2>3 DEF Knows, Challenge
  <1>8. OneLoginEach'
    BY <1>7 DEF DialogInv, OneLoginEach
  <1>9. DialogOfChallenge' /\ OwnDialogOnly'
    BY DEF DialogInv, DialogOfChallenge, OwnDialogOnly
  <1>10. QED
    BY <1>4, <1>5, <1>6, <1>8, <1>9 DEF DialogInv
-------------------------------------------------------------------------------
(* The Python process. *)

(* What it may answer without asking for a credential. *)
Plain(result) == result \in Results /\ \A c \in Challenges : result # Challenge(c)

LEMMA PlainResults ==
  /\ Plain(Failed) /\ Plain(Removed) /\ Plain(Aborted)
  /\ \A b \in BOOLEAN : Plain(Ready(b))
  /\ \A l \in Logins : Plain(Connected(l))
  /\ \A as \in SUBSET Addresses : Plain(Discovered(as))
  <1>1. \A c \in Challenges : Challenge(c).state = "challenge_required"
    BY DEF Challenge
  <1>2. /\ Failed.state = "error" /\ Removed.state = "removed"
        /\ Aborted.state = "aborted"
    BY DEF Failed, Removed, Aborted
  <1>3. /\ \A b : Ready(b).state = "ready"
        /\ \A l : Connected(l).state = "connected"
        /\ \A as : Discovered(as).state = "addresses"
    BY DEF Ready, Connected, Discovered
  <1>4. /\ Failed \in Results /\ Removed \in Results /\ Aborted \in Results
        /\ \A b \in BOOLEAN : Ready(b) \in Results
        /\ \A l \in Logins : Connected(l) \in Results
        /\ \A as \in SUBSET Addresses : Discovered(as) \in Results
    BY DEF Results
  <1>5. \A result \in Results : result.state # "challenge_required" => Plain(result)
    BY <1>1 DEF Plain
  <1>6. QED
    BY <1>2, <1>3, <1>4, <1>5

(* One line is taken and one is written, for the same call.                *)
LEMMA Answering ==
  ASSUME DialogInv, requests # <<>>, UNCHANGED op, NEW result \in Results, Answer(result)
  PROVE  /\ Head(requests) \in Request /\ Head(requests) \in Lines(requests)
         /\ requests' \in Seq(Request) /\ replies' \in Seq(Reply)
         /\ Lines(requests') \subseteq Lines(requests)
         /\ Lines(replies') = Lines(replies)
              \cup {[caller |-> Head(requests).caller, result |-> result]}
         /\ CallsComplete' /\ LinesOwned' /\ LinesApart'
  <1> DEFINE line == [caller |-> Head(requests).caller, result |-> result]
  <1>1. /\ requests \in Seq(Request) /\ replies \in Seq(Reply)
        /\ Single(requests) /\ Single(replies)
    BY DEF DialogInv, TypeOK, CliTypeOK, LinesApart
  <1>2. /\ Head(requests) \in Request /\ Tail(requests) \in Seq(Request)
        /\ Head(requests) \in Lines(requests)
        /\ Lines(Tail(requests)) \subseteq Lines(requests)
        /\ Single(Tail(requests))
        /\ \A r \in Lines(Tail(requests)) :
             r.caller # Null => r.caller # Head(requests).caller
    BY <1>1, LinesTail
  <1>3. line \in Reply
    BY <1>2 DEF Reply, Request
  <1>4. line.caller # Null => \A r \in Lines(replies) : r.caller # line.caller
    BY <1>2 DEF DialogInv, LinesApart
  <1>5. /\ Append(replies, line) \in Seq(Reply)
        /\ Lines(Append(replies, line)) = Lines(replies) \cup {line}
        /\ Single(Append(replies, line))
    <2> HIDE DEF line
    <2>1. QED
      BY <1>1, <1>3, <1>4, LinesAppend
  <1>6. requests' = Tail(requests) /\ replies' = Append(replies, line)
    BY DEF Answer
  <1>7. CallsComplete'
    BY <1>2, <1>6 DEF DialogInv, CallsComplete
  <1>8. LinesOwned'
    BY <1>2, <1>5, <1>6 DEF DialogInv, LinesOwned
  <1>9. LinesApart'
    <2>1. ASSUME NEW r \in Lines(requests'), NEW x \in Lines(replies'), r.caller # Null
          PROVE  r.caller # x.caller
      <3>1. r \in Lines(requests) /\ r.caller # Head(requests).caller
        BY <1>2, <1>6, <2>1
      <3>2. x \in Lines(replies) \/ x = line
        BY <1>5, <1>6
      <3>3. QED
        BY <2>1, <3>1, <3>2 DEF DialogInv, LinesApart
    <2>2. QED
      BY <1>2, <1>5, <1>6, <2>1 DEF LinesApart
  <1>10. QED
    BY <1>2, <1>5, <1>6, <1>7, <1>8, <1>9

(* An answer that asks for nothing tells nobody of a challenge.            *)
LEMMA QuietStep ==
  ASSUME DialogInv, TypeOK', requests # <<>>, UNCHANGED <<op, setups, issued>>,
         NEW result, Plain(result), Answer(result),
         cli'.pending \in {Null, cli.pending}, DialogOfChallenge', OwnDialogOnly'
  PROVE  DialogInv'
  <1>1. result \in Results /\ \A c \in Challenges : result # Challenge(c)
    BY DEF Plain
  <1>2. /\ Lines(requests') \subseteq Lines(requests)
        /\ Lines(replies') = Lines(replies)
             \cup {[caller |-> Head(requests).caller, result |-> result]}
        /\ CallsComplete' /\ LinesOwned' /\ LinesApart'
    BY <1>1, Answering
  <1>3. ASSUME NEW c \in Challenges, NEW l \in Logins, Knows(c, l)'
        PROVE  Knows(c, l)
    BY <1>1, <1>2, <1>3 DEF Knows
  <1>4. OneLoginEach'
    BY <1>3 DEF DialogInv, OneLoginEach
  <1>5. QED
    BY <1>2, <1>4 DEF DialogInv

(* A new challenge is known as the login's that the call asked for.        *)
LEMMA AskStep ==
  ASSUME DialogInv, TypeOK', requests # <<>>, UNCHANGED <<op, setups>>,
         NEW l \in Logins, AskCredential(l), OwnDialogOnly',
         Head(requests).caller # Null => op[Head(requests).caller].login = l
  PROVE  DialogInv'
  <1>1. /\ issued \in Nat /\ issued + 1 \in Challenges /\ issued' = issued + 1
        /\ cli'.pending = [id |-> issued + 1, login |-> l] /\ cli'.dialog = l
        /\ Answer(Challenge(issued + 1))
    BY CountsAssumption DEF CountsAssumption, AskCredential, DialogInv, TypeOK, CliTypeOK,
       Challenges
  <1>2. Challenge(issued + 1) \in Results
    BY <1>1 DEF Results
  <1>3. /\ Lines(requests') \subseteq Lines(requests)
        /\ Lines(replies') = Lines(replies)
             \cup {[caller |-> Head(requests).caller, result |-> Challenge(issued + 1)]}
        /\ CallsComplete' /\ LinesOwned' /\ LinesApart'
    BY <1>1, <1>2, Answering
  <1>4. ASSUME NEW c \in Challenges, NEW m \in Logins, Knows(c, m)'
        PROVE  Knows(c, m) \/ (c = issued + 1 /\ m = l)
    <2>1. ASSUME NEW x \in Lines(replies'), x.caller # Null, x.result = Challenge(c),
                 op[x.caller].login = m
          PROVE  Knows(c, m) \/ (c = issued + 1 /\ m = l)
      <3>1. CASE x \in Lines(replies)
        BY <2>1, <3>1 DEF Knows
      <3>2. CASE /\ x.caller = Head(requests).caller
                 /\ x.result = Challenge(issued + 1)
        BY <2>1, <3>2 DEF Challenge
      <3>3. QED
        BY <1>3, <3>1, <3>2
    <2>2. CASE \E r \in Lines(requests') : r.action = "challenge" /\ r.id = c /\ r.login = m
      BY <1>3, <2>2 DEF Knows
    <2>3. CASE cli'.pending.id = c /\ cli'.pending.login = m
      BY <1>1, <2>3
    <2>4. QED
      BY <1>4, <2>1, <2>2, <2>3 DEF Knows
  <1>5. \A c \in Challenges, m \in Logins : Knows(c, m) => c \in Nat /\ c <= issued
    BY DEF DialogInv, OneLoginEach, Challenges
  <1>6. OneLoginEach'
    BY <1>1, <1>4, <1>5 DEF DialogInv, OneLoginEach
  <1>7. DialogOfChallenge'
    BY <1>1 DEF DialogOfChallenge
  <1>8. QED
    BY <1>3, <1>6, <1>7 DEF DialogInv

(* The login dialog goes on for the login the call asked for.              *)
LEMMA AdvanceStep ==
  ASSUME DialogInv, TypeOK', requests # <<>>, UNCHANGED <<op, setups>>,
         NEW l \in Logins, AdvanceLogin(l), OwnDialogOnly',
         Head(requests).caller # Null => op[Head(requests).caller].login = l,
         cli.pending = Null \/ cli.pending.login = l
  PROVE  DialogInv'
  <1>1. /\ cli \in Clis /\ \A b \in {Null, l} : [cli EXCEPT !.dialog = b].pending = cli.pending
        /\ \A b \in {Null, l} : [cli EXCEPT !.dialog = b].dialog = b
    BY DEF DialogInv, TypeOK, CliTypeOK, Clis
  <1>2. CASE AskCredential(l)
    BY <1>2, AskStep
  <1>3. CASE LoggedIn(l)
    <2>1. PICK result \in {Connected(l), Failed} : Answer(result)
      BY <1>3 DEF LoggedIn
    <2>2. Plain(result)
      BY <2>1, PlainResults
    <2>3. issued' = issued /\ cli'.pending = Null
      BY <1>1, <1>3 DEF LoggedIn, Clis
    <2>4. DialogOfChallenge'
      BY <2>3 DEF DialogOfChallenge
    <2>5. QED
      BY <2>1, <2>2, <2>3, <2>4, QuietStep
  <1>4. CASE LoginRejected(l)
    <2>1. /\ Answer(Failed) /\ issued' = issued
          /\ cli'.pending = cli.pending /\ cli'.dialog = Null
      BY <1>1, <1>4 DEF LoginRejected
    <2>2. DialogOfChallenge'
      BY <2>1 DEF DialogOfChallenge
    <2>3. QED
      BY <2>1, <2>2, PlainResults, QuietStep
  <1>5. CASE LoginStalls(l)
    <2>1. /\ Answer(Failed) /\ issued' = issued
          /\ cli'.pending = cli.pending /\ cli'.dialog \in {Null, l}
      BY <1>1, <1>5 DEF LoginStalls
    <2>2. DialogOfChallenge'
      BY <2>1 DEF DialogOfChallenge
    <2>3. QED
      BY <2>1, <2>2, PlainResults, QuietStep
  <1>6. QED
    BY <1>2, <1>3, <1>4, <1>5 DEF AdvanceLogin


Vaults == [Logins -> {"absent", "signed_out", "connected"}]

(* What an answer leaves has its type.                                     *)
Typed ==
  /\ vault' \in Vaults /\ cli' \in Clis /\ issued' \in 0 .. MaxChallenges
  /\ entered' \subseteq Logins \X Logins
  /\ \E result \in Results : Answer(result)

LEMMA VaultTyped ==
  ASSUME DialogInv, NEW l \in Logins
  PROVE  vault \in Vaults /\ SignIn(l) \in Vaults /\ SignOut(l) \in Vaults
  BY DEF DialogInv, TypeOK, CliTypeOK, Vaults, SignIn, SignOut

LEMMA CliTyped ==
  ASSUME DialogInv
  PROVE  /\ cli \in Clis /\ Fresh \in Clis /\ [Fresh EXCEPT !.deaf = TRUE] \in Clis
         /\ \A b \in BOOLEAN : [cli EXCEPT !.deaf = b] \in Clis
         /\ \A b \in Logins \cup {Null} : [cli EXCEPT !.dialog = b] \in Clis
         /\ [cli EXCEPT !.pending = Null] \in Clis
         /\ [cli EXCEPT !.pending = Null, !.dialog = Null] \in Clis
         /\ issued \in 0 .. MaxChallenges /\ entered \subseteq Logins \X Logins
  BY DEF DialogInv, TypeOK, CliTypeOK, Clis, Fresh

LEMMA AdvanceTyped ==
  ASSUME DialogInv, NEW l \in Logins, AdvanceLogin(l), entered' \subseteq Logins \X Logins
  PROVE  Typed
  <1>1. CASE AskCredential(l)
    <2>1. /\ issued + 1 \in Challenges /\ issued' = issued + 1
          /\ issued + 1 \in 0 .. MaxChallenges
      BY <1>1, CountsAssumption, CliTyped
         DEF CountsAssumption, AskCredential, Challenges
    <2>2. cli' \in Clis
      BY <1>1, <2>1, CliTyped DEF AskCredential, Clis
    <2>3. Challenge(issued + 1) \in Results
      BY <2>1 DEF Results
    <2>4. QED
      BY <1>1, <2>1, <2>2, <2>3, VaultTyped DEF AskCredential, Typed
  <1>2. CASE LoggedIn(l)
    BY <1>2, CliTyped, VaultTyped, PlainResults DEF LoggedIn, Typed, Plain
  <1>3. CASE LoginRejected(l)
    BY <1>3, CliTyped, VaultTyped, PlainResults DEF LoginRejected, Typed, Plain
  <1>4. CASE LoginStalls(l)
    BY <1>4, CliTyped, VaultTyped, PlainResults DEF LoginStalls, Typed, Plain
  <1>5. QED
    BY <1>1, <1>2, <1>3, <1>4 DEF AdvanceLogin

(* A step with a typed answer leaves every variable typed.                 *)
LEMMA TypedStep ==
  ASSUME DialogInv, Typed, requests # <<>>,
         UNCHANGED <<aliases, lapsed, changes, mgrVars, row, op, failures, calls>>
  PROVE  TypeOK'
  <1>1. requests' \in Seq(Request) /\ replies' \in Seq(Reply)
    BY Answering DEF Typed
  <1>2. CliTypeOK'
    BY <1>1 DEF Typed, DialogInv, TypeOK, CliTypeOK, Vaults, Clis, Challenges
  <1>3. QED
    BY <1>2 DEF DialogInv, TypeOK, mgrVars, Challenges

(* A refusal, a command that does not get through, one that runs out of    *)
(* time and a new CLI process: none asks for a credential.                 *)
LEMMA RefuseStep ==
  ASSUME DialogInv, requests # <<>>, Refuse,
         UNCHANGED <<aliases, lapsed, changes, mgrVars, row, op, failures, calls>>
  PROVE  DialogInv'
  <1>1. Typed
    BY CliTyped, PlainResults DEF Refuse, Typed, Plain, DialogInv, TypeOK, CliTypeOK, Vaults
  <1>2. TypeOK'
    BY <1>1, TypedStep
  <1>3. DialogOfChallenge' /\ OwnDialogOnly'
    BY DEF Refuse, DialogInv, DialogOfChallenge, OwnDialogOnly
  <1>4. QED
    BY <1>2, <1>3, PlainResults, QuietStep DEF Refuse, mgrVars

LEMMA NotReachedStep ==
  ASSUME DialogInv, requests # <<>>, NotReached,
         UNCHANGED <<aliases, lapsed, changes, mgrVars, row, op, failures, calls>>
  PROVE  DialogInv'
  <1>1. Typed
    BY CliTyped, PlainResults
       DEF NotReached, Typed, Plain, DialogInv, TypeOK, CliTypeOK, Vaults
  <1>2. TypeOK'
    BY <1>1, TypedStep
  <1>3. cli'.pending = cli.pending /\ cli'.dialog = cli.dialog
    BY CliTyped DEF NotReached, Clis
  <1>4. DialogOfChallenge' /\ OwnDialogOnly'
    BY <1>3 DEF NotReached, DialogInv, DialogOfChallenge, OwnDialogOnly
  <1>5. QED
    BY <1>2, <1>3, <1>4, PlainResults, QuietStep DEF NotReached, mgrVars

LEMMA StallStep ==
  ASSUME DialogInv, requests # <<>>, NEW done \in Vaults, Stall(done),
         UNCHANGED <<aliases, lapsed, changes, mgrVars, row, op, failures, calls>>
  PROVE  DialogInv'
  <1>1. Typed
    BY CliTyped, PlainResults
       DEF Stall, Typed, Plain, DialogInv, TypeOK, CliTypeOK, Vaults
  <1>2. TypeOK'
    BY <1>1, TypedStep
  <1>3. cli'.pending = cli.pending /\ cli'.dialog = cli.dialog
    BY CliTyped DEF Stall, Clis
  <1>4. DialogOfChallenge' /\ OwnDialogOnly'
    BY <1>3 DEF Stall, DialogInv, DialogOfChallenge, OwnDialogOnly
  <1>5. QED
    BY <1>2, <1>3, <1>4, PlainResults, QuietStep DEF Stall, mgrVars

LEMMA RestartStep ==
  ASSUME DialogInv, requests # <<>>, NEW result, Plain(result), RestartThen(result),
         UNCHANGED <<vault, issued, entered, aliases, lapsed, changes, mgrVars, row, op,
                     failures, calls>>
  PROVE  DialogInv'
  <1>1. PICK answer \in {result, Failed} : Answer(answer)
    BY DEF RestartThen
  <1>2. Plain(answer)
    BY <1>1, PlainResults
  <1>3. cli' \in Clis /\ cli'.pending = Null
    <2>1. cli' = Fresh \/ cli' = [Fresh EXCEPT !.deaf = TRUE]
      BY DEF RestartThen
    <2>2. /\ Fresh \in Clis /\ Fresh.pending = Null
          /\ [Fresh EXCEPT !.deaf = TRUE] \in Clis
          /\ [Fresh EXCEPT !.deaf = TRUE].pending = Null
      BY CliTyped DEF Fresh
    <2>3. QED
      BY <2>1, <2>2
  <1>4. Typed
    BY <1>1, <1>2, <1>3, CliTyped
       DEF Typed, Plain, DialogInv, TypeOK, CliTypeOK, Vaults
  <1>5. TypeOK'
    BY <1>4, TypedStep
  <1>6. DialogOfChallenge' /\ OwnDialogOnly'
    BY <1>3 DEF DialogInv, DialogOfChallenge, OwnDialogOnly
  <1>7. QED
    BY <1>1, <1>2, <1>3, <1>5, <1>6, QuietStep DEF mgrVars

(* Whatever line the process handles, the invariant holds on.              *)
LEMMA PythonStep ==
  ASSUME DialogInv, Python
  PROVE  DialogInv'
  <1> USE DEF Python
  <1> DEFINE request == Head(requests)
  <1>1. /\ requests # <<>>
        /\ UNCHANGED <<aliases, lapsed, changes, mgrVars, row, op, failures, calls>>
    BY DEF Serve, Status, Connect, ChallengeAnswered, Abort, Remove, DiscoverAddresses, Taking
  <1>2. UNCHANGED <<op, setups>>
    BY <1>1 DEF mgrVars
  <1>3. request \in Request /\ request \in Lines(requests)
    BY <1>1, LinesTail DEF DialogInv, TypeOK, CliTypeOK
  <1>4. request.action \in {"connect", "challenge", "remove", "addresses"}
          => request.login \in Logins
    BY <1>3 DEF DialogInv, CallsComplete, Request
  <1>5. request.caller # Null => op[request.caller].login = request.login
    BY <1>3 DEF DialogInv, LinesOwned
  <1>6. vault \in Vaults
    BY DEF DialogInv, TypeOK, CliTypeOK, Vaults
  <1>7. CASE Status
    <2>1. CASE RestartThen(Ready(AnyConnected)) /\ UNCHANGED <<vault, issued, entered>>
      <3>1. Plain(Ready(AnyConnected))
        BY PlainResults DEF AnyConnected
      <3>2. QED
        BY <1>1, <2>1, <3>1, RestartStep
    <2>2. ASSUME NEW b \in BOOLEAN, Answer(Ready(b)), UNCHANGED <<vault, cli, issued, entered>>
          PROVE  DialogInv'
      <3>1. Plain(Ready(b))
        BY PlainResults
      <3>2. Typed
        BY <2>2, <3>1, <1>6, CliTyped DEF Typed, Plain
      <3>3. TypeOK'
        BY <1>1, <3>2, TypedStep
      <3>4. DialogOfChallenge' /\ OwnDialogOnly'
        BY <2>2 DEF DialogInv, DialogOfChallenge, OwnDialogOnly
      <3>5. QED
        BY <1>1, <1>2, <2>2, <3>1, <3>3, <3>4, QuietStep
    <2>3. CASE NotReached
      BY <1>1, <2>3, NotReachedStep
    <2>4. CASE Stall(vault)
      BY <1>1, <1>6, <2>4, StallStep
    <2>5. AnyConnected \in BOOLEAN
      BY DEF AnyConnected
    <2>6. QED
      BY <1>7, <2>1, <2>2, <2>3, <2>4, <2>5 DEF Status
  <1>8. CASE Connect
    <2>1. request.login \in Logins
      BY <1>4, <1>8 DEF Connect, Taking
    <2>2. CASE cli.pending = Null /\ AdvanceLogin(request.login) /\ UNCHANGED entered
      <3>1. Typed
        BY <2>1, <2>2, AdvanceTyped, CliTyped
      <3>2. TypeOK'
        BY <1>1, <3>1, TypedStep
      <3>3. OwnDialogOnly'
        BY <2>2 DEF DialogInv, OwnDialogOnly
      <3>4. QED
        BY <1>1, <1>2, <1>5, <2>1, <2>2, <3>2, <3>3, AdvanceStep
    <2>3. CASE Refuse
      BY <1>1, <2>3, RefuseStep
    <2>4. CASE NotReached
      BY <1>1, <2>4, NotReachedStep
    <2>5. CASE Stall(vault)
      BY <1>1, <1>6, <2>5, StallStep
    <2>6. QED
      BY <1>8, <2>2, <2>3, <2>4, <2>5 DEF Connect
  <1>9. CASE ChallengeAnswered
    <2>1. request.action = "challenge" /\ request.login \in Logins
      BY <1>4, <1>9 DEF ChallengeAnswered, Taking
    <2>2. CASE Refuse
      BY <1>1, <2>2, RefuseStep
    <2>3. CASE RestartThen(Failed) /\ UNCHANGED <<vault, issued, entered>>
      BY <1>1, <2>3, PlainResults, RestartStep
    <2>4. CASE /\ Current(request.id) /\ cli.dialog # Null
               /\ entered' = entered \cup {<<request.login, cli.dialog>>}
               /\ AdvanceLogin(cli.pending.login)
      <3>1. /\ cli.pending # Null /\ cli.pending.id = request.id
            /\ cli.pending.id \in Challenges /\ cli.pending.login \in Logins
        BY <2>4, CliTyped DEF Current, Clis
      <3>2. Knows(request.id, cli.pending.login) /\ Knows(request.id, request.login)
        BY <1>3, <2>1, <3>1 DEF Knows
      <3>3. request.login = cli.pending.login
        BY <2>1, <3>1, <3>2 DEF DialogInv, OneLoginEach
      <3>4. cli.dialog = cli.pending.login
        BY <2>4, <3>1 DEF DialogInv, DialogOfChallenge
      <3>5. OwnDialogOnly' /\ entered' \subseteq Logins \X Logins
        BY <2>1, <2>4, <3>3, <3>4, CliTyped DEF DialogInv, OwnDialogOnly
      <3>6. Typed
        BY <2>4, <3>1, <3>5, AdvanceTyped
      <3>7. TypeOK'
        BY <1>1, <3>6, TypedStep
      <3>8. QED
        BY <1>1, <1>2, <1>5, <2>4, <3>1, <3>3, <3>5, <3>7, AdvanceStep
    <2>5. QED
      BY <1>9, <2>2, <2>3, <2>4 DEF ChallengeAnswered
  <1>10. CASE Abort
    <2>1. CASE RestartThen(Aborted)
      BY <1>1, <1>10, <2>1, PlainResults, RestartStep DEF Abort
    <2>2. CASE cli' = [cli EXCEPT !.pending = Null] /\ Answer(Aborted)
      <3>1. cli'.pending = Null /\ UNCHANGED <<vault, issued, entered>>
        BY <1>10, <2>2, CliTyped DEF Abort, Clis
      <3>2. Typed
        BY <1>6, <2>2, <3>1, CliTyped, PlainResults DEF Typed, Plain
      <3>3. TypeOK'
        BY <1>1, <3>2, TypedStep
      <3>4. DialogOfChallenge' /\ OwnDialogOnly'
        BY <3>1 DEF DialogInv, DialogOfChallenge, OwnDialogOnly
      <3>5. QED
        BY <1>1, <1>2, <2>2, <3>1, <3>3, <3>4, PlainResults, QuietStep
    <2>3. QED
      BY <1>10, <2>1, <2>2 DEF Abort
  <1>11. CASE Remove
    <2>1. request.login \in Logins
      BY <1>4, <1>11 DEF Remove, Taking
    <2>2. SignOut(request.login) \in Vaults
      BY <2>1, VaultTyped
    <2>3. CASE /\ vault' \in {vault, SignOut(request.login)} /\ Answer(Removed)
               /\ UNCHANGED <<cli, issued, entered>>
      <3>1. Typed
        BY <2>1, <2>2, <2>3, VaultTyped, CliTyped, PlainResults DEF Typed, Plain
      <3>2. TypeOK'
        BY <1>1, <3>1, TypedStep
      <3>3. DialogOfChallenge' /\ OwnDialogOnly'
        BY <2>3 DEF DialogInv, DialogOfChallenge, OwnDialogOnly
      <3>4. QED
        BY <1>1, <1>2, <2>3, <3>2, <3>3, PlainResults, QuietStep
    <2>4. CASE Refuse
      BY <1>1, <2>4, RefuseStep
    <2>5. CASE NotReached
      BY <1>1, <2>5, NotReachedStep
    <2>6. CASE Stall(SignOut(request.login))
      BY <1>1, <2>2, <2>6, StallStep
    <2>7. QED
      BY <1>11, <2>3, <2>4, <2>5, <2>6 DEF Remove
  <1>12. CASE DiscoverAddresses
    <2>1. ASSUME NEW m \in BridgeAccount(request.login), Answer(Discovered(aliases[m])),
                 UNCHANGED <<vault, cli, issued, entered>>
          PROVE  DialogInv'
      <3>1. m \in Logins
        BY <1>4, <1>12 DEF BridgeAccount, DiscoverAddresses, Taking
      <3>2. aliases[m] \in SUBSET Addresses
        BY <3>1 DEF DialogInv, TypeOK, CliTypeOK
      <3>3. Plain(Discovered(aliases[m]))
        BY <3>2, PlainResults
      <3>4. Typed
        BY <1>6, <2>1, <3>3, CliTyped DEF Typed, Plain
      <3>5. TypeOK'
        BY <1>1, <3>4, TypedStep
      <3>6. DialogOfChallenge' /\ OwnDialogOnly'
        BY <2>1 DEF DialogInv, DialogOfChallenge, OwnDialogOnly
      <3>7. QED
        BY <1>1, <1>2, <2>1, <3>3, <3>5, <3>6, QuietStep
    <2>2. CASE Refuse
      BY <1>1, <2>2, RefuseStep
    <2>3. CASE NotReached
      BY <1>1, <2>3, NotReachedStep
    <2>4. CASE Stall(vault)
      BY <1>1, <1>6, <2>4, StallStep
    <2>5. QED
      BY <1>12, <2>1, <2>2, <2>3, <2>4 DEF DiscoverAddresses
  <1>13. QED
    BY <1>7, <1>8, <1>9, <1>10, <1>11, <1>12 DEF Serve

-------------------------------------------------------------------------------
(* The manager's handlers. *)

OpsOf == [Callers -> Ops]

(* What a step leaves besides calls and lines.                             *)
OtherTyped ==
  /\ row' \in Rows /\ child' \in BOOLEAN /\ started' \in BOOLEAN
  /\ upstreamConnected' \in BOOLEAN /\ setupActive' \in BOOLEAN
  /\ failures' \in 0 .. MaxFailures /\ calls' \in 0 .. MaxCalls

LEMMA OtherNow ==
  ASSUME DialogInv
  PROVE  /\ row \in Rows /\ child \in BOOLEAN /\ started \in BOOLEAN
         /\ upstreamConnected \in BOOLEAN /\ setupActive \in BOOLEAN
         /\ failures \in 0 .. MaxFailures /\ calls \in 0 .. MaxCalls
         /\ op \in OpsOf /\ setups \in [Challenges -> Logins \cup {Null}]
         /\ requests \in Seq(Request) /\ replies \in Seq(Reply) /\ cli \in Clis
         /\ Single(requests) /\ Single(replies)
  BY DEF DialogInv, TypeOK, CliTypeOK, Rows, OpsOf, Ops, Clis, LinesApart

LEMMA IdleTyped == Idle \in Ops /\ Idle.stage = "idle" /\ Idle.kind = "status"
  BY DEF Idle, Ops, Kinds

(* A step that ends calls, forgets challenges and takes lines.             *)
LEMMA EndingStep ==
  ASSUME DialogInv, OtherTyped, op' \in OpsOf, setups' \in [Challenges -> Logins \cup {Null}],
         UNCHANGED <<vault, aliases, lapsed, changes, issued, entered>>,
         cli' = cli \/ cli' = Fresh,
         requests' \in Seq(Request), replies' \in Seq(Reply),
         Single(requests'), Single(replies'),
         Rest(Lines(requests'), Lines(requests)), Rest(Lines(replies'), Lines(replies)),
         \A p \in Callers : Unchanged(p) \/ (Ended(p) /\ NoLines(p)),
         \A c \in Challenges, l \in Logins : setups'[c] = l => Knows(c, l)
  PROVE  DialogInv'
  <1>1. TypeOK'
    <2>1. cli' \in Clis
      BY CliTyped
    <2>2. CliTypeOK'
      BY <2>1 DEF DialogInv, TypeOK, CliTypeOK, Clis, Challenges
    <2>3. QED
      BY <2>2 DEF OtherTyped, TypeOK, OpsOf, Ops, Rows, Challenges
  <1>2. \A p \in Callers : op'[p].stage # "idle" /\ op'[p].kind \in NamesLogin
                             => op'[p].login # Null
    BY DEF DialogInv, CallsComplete, Unchanged, Ended
  <1>3. \A p \in Callers, c \in Challenges, l \in Logins :
          op'[p].kind = "challenge" /\ op'[p].id = c /\ op'[p].login = l => Knows(c, l)
    BY DEF Unchanged, Knows, Ended
  <1>4. cli'.pending = Null \/ (cli'.pending = cli.pending /\ cli'.dialog = cli.dialog)
    BY DEF Fresh
  <1>5. \A p \in Callers : Unchanged(p) \/ NoLines(p)
    OBVIOUS
  <1>6. UNCHANGED <<issued, entered>>
    OBVIOUS
  <1>7. QED
    BY <1>1, <1>2, <1>3, <1>4, <1>5, <1>6, ManagerStep

(* A call that does not wait has no line.                                  *)
LEMMA NotWaiting ==
  ASSUME DialogInv, NEW p \in Callers, op[p].stage # "waiting"
  PROVE  \A r \in Lines(requests) \cup Lines(replies) : r.caller # p
  BY NullApart DEF DialogInv, LinesOwned

LEMMA RestSame == \A lines, fewer : fewer \subseteq lines => Rest(fewer, lines)
  BY DEF Rest

(* A call begins.                                                          *)
LEMMA AskingStep ==
  ASSUME DialogInv, OtherTyped, UNCHANGED <<cliVars, setups>>,
         NEW p \in Callers, op[p].stage = "idle",
         NEW kind \in Kinds, NEW l \in Logins \cup {Null}, NEW id \in Challenges \cup {Null},
         NEW group \in SUBSET Addresses, Ask(p, kind, l, id, group),
         kind \in NamesLogin => l # Null,
         kind = "challenge" => id # Null /\ setups[id] = l
  PROVE  DialogInv'
  <1> DEFINE call == [stage |-> "starting", kind |-> kind, login |-> l, id |-> id,
                      group |-> group, missing |-> FALSE]
  <1>1. /\ op \in OpsOf /\ call \in Ops /\ op' = [op EXCEPT ![p] = call]
    BY OtherNow DEF Ask, Ops
  <1>2. op' \in OpsOf /\ op'[p] = call /\ \A q \in Callers \ {p} : op'[q] = op[q]
    BY <1>1 DEF OpsOf
  <1>3. TypeOK'
    <2>1. CliTypeOK'
      BY DEF DialogInv, TypeOK, CliTypeOK, cliVars, Challenges
    <2>2. QED
      BY <1>2, <2>1, OtherNow DEF OtherTyped, TypeOK, OpsOf, Ops, Rows, Challenges
  <1>4. \A q \in Callers : op'[q].stage # "idle" /\ op'[q].kind \in NamesLogin
                             => op'[q].login # Null
    BY <1>2 DEF DialogInv, CallsComplete
  <1>5. \A q \in Callers, c \in Challenges, m \in Logins :
          op'[q].kind = "challenge" /\ op'[q].id = c /\ op'[q].login = m => Knows(c, m)
    <2>1. ASSUME NEW c \in Challenges, NEW m \in Logins, kind = "challenge", id = c, l = m
          PROVE  Knows(c, m)
      BY <2>1 DEF Knows
    <2>2. ASSUME NEW q \in Callers \ {p}, NEW c \in Challenges, NEW m \in Logins,
                 op[q].kind = "challenge" /\ op[q].id = c /\ op[q].login = m
          PROVE  Knows(c, m)
      BY <2>2 DEF Knows
    <2>3. QED
      BY <1>2, <2>1, <2>2
  <1>6. \A q \in Callers : Unchanged(q) \/ NoLines(q)
    <2>1. NoLines(p)
      BY NotWaiting DEF NoLines, cliVars
    <2>2. \A q \in Callers \ {p} : Unchanged(q)
      BY <1>2 DEF Unchanged
    <2>3. QED
      BY <2>1, <2>2
  <1>7. \A c \in Challenges, m \in Logins : setups'[c] = m => Knows(c, m)
    BY DEF Knows
  <1>8. /\ UNCHANGED <<issued, entered, cli>> /\ Single(requests') /\ Single(replies')
        /\ Rest(Lines(requests'), Lines(requests)) /\ Rest(Lines(replies'), Lines(replies))
    BY RestSame, OtherNow DEF cliVars
  <1>9. cli'.pending = cli.pending /\ cli'.dialog = cli.dialog
    BY <1>8
  <1>10. QED
    BY <1>3, <1>4, <1>5, <1>6, <1>7, <1>8, <1>9, ManagerStep

(* A handler answers at once.                                              *)
LEMMA AtOnceStep ==
  ASSUME DialogInv, OtherTyped, UNCHANGED cliVars, op' \in OpsOf,
         setups' \in [Challenges -> Logins \cup {Null}],
         \A q \in Callers : Unchanged(q),
         \A c \in Challenges : setups'[c] \in {Null, setups[c]}
  PROVE  DialogInv'
  <1>1. /\ UNCHANGED <<vault, aliases, lapsed, changes, issued, entered, cli>>
        /\ requests' = requests /\ replies' = replies
    BY DEF cliVars
  <1>2. /\ requests' \in Seq(Request) /\ replies' \in Seq(Reply)
        /\ Single(requests') /\ Single(replies')
        /\ Rest(Lines(requests'), Lines(requests)) /\ Rest(Lines(replies'), Lines(replies))
    BY <1>1, RestSame, OtherNow
  <1>3. \A c \in Challenges, l \in Logins : setups'[c] = l => Knows(c, l)
    BY NullApart DEF Knows
  <1>4. QED
    BY <1>1, <1>2, <1>3, EndingStep


LEMMA RowsTyped ==
  ASSUME DialogInv
  PROVE  /\ \A a \in Present : row[a].login \in Logins
         /\ \A as \in SUBSET Addresses, l \in Logins : Upsert(as, l) \in Rows
         /\ \A gone \in SUBSET Addresses :
              [a \in Addresses |-> IF a \in gone THEN Null ELSE row[a]] \in Rows
         /\ \A a \in Addresses : [row EXCEPT ![a] = Null] \in Rows
         /\ \A a \in Present, b \in BOOLEAN :
              /\ [row EXCEPT ![a].assigned = b] \in Rows
              /\ [row[a] EXCEPT !.enabled = b]
                   \in [login : Logins, enabled : BOOLEAN, assigned : BOOLEAN]
  <1>1. row \in Rows
    BY OtherNow
  <1>2. \A a \in Addresses : row[a] = Null
          \/ row[a] \in [login : Logins, enabled : BOOLEAN, assigned : BOOLEAN]
    BY <1>1 DEF Rows
  <1>3. \A as \in SUBSET Addresses, l \in Logins : Upsert(as, l) \in Rows
    BY <1>2 DEF Upsert, Rows
  <1>4. \A a \in Present, b \in BOOLEAN :
          /\ [row[a] EXCEPT !.enabled = b]
               \in [login : Logins, enabled : BOOLEAN, assigned : BOOLEAN]
          /\ [row[a] EXCEPT !.assigned = b]
               \in [login : Logins, enabled : BOOLEAN, assigned : BOOLEAN]
    BY <1>2 DEF Present
  <1>5. \A a \in Present, b \in BOOLEAN : [row EXCEPT ![a].assigned = b] \in Rows
    BY <1>1, <1>4 DEF Rows, Present
  <1>6. QED
    BY <1>1, <1>2, <1>3, <1>4, <1>5 DEF Rows, Present

(* Deleting rows changes no call but its group.                            *)
LEMMA Forgetting ==
  ASSUME NEW ops \in OpsOf, NEW gone \in SUBSET Addresses
  PROVE  /\ Forget(ops, gone) \in OpsOf
         /\ \A p \in Callers :
              /\ Forget(ops, gone)[p].stage = ops[p].stage
              /\ Forget(ops, gone)[p].kind = ops[p].kind
              /\ Forget(ops, gone)[p].login = ops[p].login
              /\ Forget(ops, gone)[p].id = ops[p].id
  <1>1. ASSUME NEW p \in Callers
        PROVE  /\ Forget(ops, gone)[p] \in Ops
               /\ Forget(ops, gone)[p].stage = ops[p].stage
               /\ Forget(ops, gone)[p].kind = ops[p].kind
               /\ Forget(ops, gone)[p].login = ops[p].login
               /\ Forget(ops, gone)[p].id = ops[p].id
    <2> DEFINE g == ops[p].group \ gone
               b == ops[p].missing \/ ops[p].group \cap gone # {}
    <2>1. /\ ops[p] \in Ops /\ ops[p].group \in SUBSET Addresses
          /\ Forget(ops, gone)[p] = [ops[p] EXCEPT !.group = g, !.missing = b]
      BY DEF OpsOf, Ops, Forget
    <2>2. g \in SUBSET Addresses /\ b \in BOOLEAN
      BY <2>1
    <2>3. QED
      <3> HIDE DEF g, b
      <3>1. QED
        BY <2>1, <2>2 DEF Ops
  <1>2. Forget(ops, gone) = [p \in Callers |-> Forget(ops, gone)[p]]
    BY DEF Forget
  <1>3. QED
    BY <1>1, <1>2 DEF OpsOf

(* The admin requests up to their first await, and the profiles.           *)
LEMMA AdminStep ==
  ASSUME DialogInv, Admin
  PROVE  DialogInv'
  <1> USE DEF mgrVars
  <1>1. /\ UNCHANGED <<cliVars, failures>> /\ calls' \in 0 .. MaxCalls
    BY OtherNow, BoundsAssumption DEF Admin, BoundsAssumption
  <1>2. ASSUME NEW p \in Admins, Begin(p)
        PROVE  DialogInv'
    <2>1. p \in Callers /\ op[p].stage = "idle"
      BY <1>2, CallersAssumption DEF CallersAssumption, Begin
    <2>2. ASSUME NEW l \in Logins, BeginConnect(p, l)
          PROVE  DialogInv'
      <3>1. Ask(p, "connect", l, Null, {}) /\ UNCHANGED setups
        BY <2>2 DEF BeginConnect
      <3>2. OtherTyped
        BY <1>1, <2>2, OtherNow DEF BeginConnect, OtherTyped
      <3>3. "connect" \in Kinds /\ l # Null
        BY NullApart DEF Kinds
      <3>4. QED
        BY <1>1, <2>1, <3>1, <3>2, <3>3, AskingStep
    <2>3. ASSUME NEW c \in Challenges, BeginContinue(p, c)
          PROVE  DialogInv'
      <3>1. OtherTyped
        BY <1>1, <2>3, OtherNow DEF BeginContinue, OtherTyped
      <3>2. CASE setups[c] = Null \/ c \in lapsed
        <4>1. setups' = [setups EXCEPT ![c] = Null] /\ UNCHANGED op
          BY <2>3, <3>2 DEF BeginContinue
        <4>2. /\ setups' \in [Challenges -> Logins \cup {Null}] /\ op' \in OpsOf
              /\ \A d \in Challenges : setups'[d] \in {Null, setups[d]}
          BY <4>1, OtherNow
        <4>3. \A q \in Callers : Unchanged(q)
          BY <4>1 DEF Unchanged
        <4>4. QED
          BY <1>1, <3>1, <4>2, <4>3, AtOnceStep
      <3>3. CASE ~(setups[c] = Null \/ c \in lapsed)
        <4>1. Ask(p, "challenge", setups[c], c, {}) /\ UNCHANGED setups
          BY <2>3, <3>3 DEF BeginContinue
        <4>2. /\ "challenge" \in Kinds /\ setups[c] \in Logins \cup {Null}
              /\ setups[c] # Null /\ c # Null
          BY <3>3, NullApart, OtherNow DEF Kinds
        <4>3. QED
          BY <1>1, <2>1, <3>1, <4>1, <4>2, AskingStep
      <3>4. QED
        BY <3>2, <3>3
    <2>4. ASSUME NEW c \in Challenges, BeginAbort(p, c)
          PROVE  DialogInv'
      <3>1. OtherTyped /\ UNCHANGED setups
        BY <1>1, <2>4, OtherNow DEF BeginAbort, OtherTyped
      <3>2. CASE started
        <4>1. Ask(p, "abort", Null, c, {})
          BY <2>4, <3>2 DEF BeginAbort
        <4>2. "abort" \in Kinds \ NamesLogin /\ "abort" # "challenge"
          BY DEF Kinds, NamesLogin
        <4>3. QED
          BY <1>1, <2>1, <3>1, <4>1, <4>2, AskingStep
      <3>3. CASE ~started
        <4>1. UNCHANGED op
          BY <2>4, <3>3 DEF BeginAbort
        <4>2. \A q \in Callers : Unchanged(q)
          BY <4>1 DEF Unchanged
        <4>3. QED
          BY <1>1, <3>1, <4>1, <4>2, AtOnceStep, OtherNow
      <3>4. QED
        BY <3>2, <3>3
    <2>5. CASE BeginStatus(p)
      <3>1. OtherTyped /\ UNCHANGED setups
        BY <1>1, <2>5, OtherNow DEF BeginStatus, OtherTyped
      <3>2. CASE started
        <4>1. Ask(p, "status", Null, Null, {})
          BY <2>5, <3>2 DEF BeginStatus
        <4>2. "status" \in Kinds \ NamesLogin /\ "status" # "challenge"
          BY DEF Kinds, NamesLogin
        <4>3. QED
          BY <1>1, <2>1, <3>1, <4>1, <4>2, AskingStep
      <3>3. CASE ~started
        <4>1. UNCHANGED op
          BY <2>5, <3>3 DEF BeginStatus
        <4>2. \A q \in Callers : Unchanged(q)
          BY <4>1 DEF Unchanged
        <4>3. QED
          BY <1>1, <3>1, <4>1, <4>2, AtOnceStep, OtherNow
      <3>4. QED
        BY <3>2, <3>3
    <2>6. ASSUME NEW a \in Addresses, BeginDisconnect(p, a)
          PROVE  DialogInv'
      <3>1. a \in Present /\ row[a].login \in Logins /\ UNCHANGED mgrVars
        BY <2>6, RowsTyped DEF BeginDisconnect
      <3>2. CASE a = row[a].login
        <4>1. Ask(p, "disconnect", a, Null, Group(a)) /\ UNCHANGED row
          BY <2>6, <3>2 DEF BeginDisconnect
        <4>2. OtherTyped
          BY <1>1, <3>1, <4>1, OtherNow DEF OtherTyped
        <4>3. /\ "disconnect" \in Kinds /\ "disconnect" # "challenge"
              /\ a \in Logins /\ a # Null /\ Group(a) \in SUBSET Addresses
          BY <3>1, <3>2, NullApart DEF Kinds, Group, GroupIn
        <4>4. QED
          BY <1>1, <2>1, <3>1, <4>1, <4>2, <4>3, AskingStep
      <3>3. CASE a # row[a].login
        <4>1. row' = [row EXCEPT ![a] = Null] /\ op' = Forget(op, {a})
          BY <2>6, <3>3 DEF BeginDisconnect
        <4>2. OtherTyped
          BY <1>1, <3>1, <4>1, OtherNow, RowsTyped DEF OtherTyped
        <4>3. op' \in OpsOf /\ \A q \in Callers : Unchanged(q)
          BY <4>1, Forgetting, OtherNow DEF Unchanged
        <4>4. QED
          BY <1>1, <3>1, <4>2, <4>3, AtOnceStep, OtherNow
      <3>4. QED
        BY <3>2, <3>3
    <2>7. ASSUME NEW a \in Addresses, BeginSync(p, a)
          PROVE  DialogInv'
      <3>1. /\ row[a].login \in Logins /\ UNCHANGED <<mgrVars, row>>
            /\ Ask(p, "sync", row[a].login, Null, {})
        BY <2>7, RowsTyped DEF BeginSync
      <3>2. OtherTyped
        BY <1>1, <3>1, OtherNow DEF OtherTyped
      <3>3. "sync" \in Kinds /\ "sync" # "challenge" /\ row[a].login # Null
        BY <3>1, NullApart DEF Kinds
      <3>4. QED
        BY <1>1, <2>1, <3>1, <3>2, <3>3, AskingStep
    <2>8. QED
      BY <1>2, <2>2, <2>3, <2>4, <2>5, <2>6, <2>7 DEF Begin
  <1>3. ASSUME NEW a \in Addresses, NEW value \in BOOLEAN, SetAssigned(a, value)
        PROVE  DialogInv'
    <2>1. OtherTyped /\ UNCHANGED <<setups, op>>
      BY <1>1, <1>3, OtherNow, RowsTyped DEF SetAssigned, OtherTyped
    <2>2. \A q \in Callers : Unchanged(q)
      BY <2>1 DEF Unchanged
    <2>3. QED
      BY <1>1, <2>1, <2>2, AtOnceStep, OtherNow
  <1>4. QED
    BY <1>2, <1>3 DEF Admin

-------------------------------------------------------------------------------
(* The link. *)

LEMMA ResultTyped ==
  ASSUME NEW result \in Results
  PROVE  /\ result.state = "ready" => result.connected \in BOOLEAN
         /\ result.state = "challenge_required" =>
              result.id \in Challenges /\ result = Challenge(result.id)
         /\ result.state = "connected" => result.address \in Addresses
         /\ result.state = "addresses" => result.addresses \in SUBSET Addresses
  <1>1. CASE result \in {Failed, Removed, Aborted}
    BY <1>1 DEF Failed, Removed, Aborted
  <1>2. CASE \E b \in BOOLEAN : result = Ready(b)
    BY <1>2 DEF Ready
  <1>3. CASE \E c \in Challenges : result = Challenge(c)
    BY <1>3 DEF Challenge
  <1>4. CASE \E l \in Logins : result = Connected(l)
    BY <1>4, LoginsAssumption DEF Connected, LoginsAssumption
  <1>5. CASE \E as \in SUBSET Addresses : result = Discovered(as)
    <2>1. PICK as \in SUBSET Addresses : result = Discovered(as)
      BY <1>5
    <2>2. result.state = "addresses" /\ result.addresses = as
      BY <2>1 DEF Discovered
    <2>3. QED
      BY <2>2
  <1>6. QED
    BY <1>1, <1>2, <1>3, <1>4, <1>5 DEF Results

(* Calls fail.                                                             *)
LEMMA Failing ==
  ASSUME DialogInv, NEW ps, Fail(ps)
  PROVE  /\ op' \in OpsOf /\ UNCHANGED <<setups, row>>
         /\ upstreamConnected' \in BOOLEAN /\ setupActive' \in BOOLEAN
         /\ \A p \in Callers : Unchanged(p) \/ (p \in ps /\ Ended(p))
  <1>1. op \in OpsOf /\ Idle \in Ops
    BY OtherNow, IdleTyped
  <1>2. op' = [p \in Callers |-> IF p \in ps THEN Idle ELSE op[p]]
    BY DEF Fail
  <1>3. op' \in OpsOf
    BY <1>1, <1>2 DEF OpsOf
  <1>4. \A p \in Callers : Unchanged(p) \/ (p \in ps /\ Ended(p))
    BY <1>2, IdleTyped DEF Unchanged, Ended
  <1>5. QED
    BY <1>3, <1>4 DEF Fail

(* The call a reply is for waits for it, and has no other line.            *)
LEMMA ReplyOwned ==
  ASSUME DialogInv, replies # <<>>, replies' = Tail(replies), requests' = requests
  PROVE  /\ Head(replies) \in Reply /\ Head(replies) \in Lines(replies)
         /\ Head(replies).caller # Null =>
              /\ op[Head(replies).caller].stage = "waiting"
              /\ NoLines(Head(replies).caller)
         /\ replies' \in Seq(Reply) /\ Single(replies')
         /\ Rest(Lines(replies'), Lines(replies)) /\ Rest(Lines(requests'), Lines(requests))
  <1>1. /\ Head(replies) \in Reply /\ Tail(replies) \in Seq(Reply)
        /\ Head(replies) \in Lines(replies)
        /\ Lines(Tail(replies)) \subseteq Lines(replies)
        /\ Single(Tail(replies))
        /\ \A r \in Lines(Tail(replies)) : r.caller # Null => r.caller # Head(replies).caller
    BY OtherNow, LinesTail
  <1>2. Head(replies).caller # Null =>
          /\ op[Head(replies).caller].stage = "waiting"
          /\ NoLines(Head(replies).caller)
    BY <1>1 DEF DialogInv, LinesOwned, LinesApart, NoLines
  <1>3. QED
    BY <1>1, <1>2, RestSame

LEMMA ReceiveStep ==
  ASSUME DialogInv, Receive
  PROVE  DialogInv'
  <1> DEFINE p == Head(replies).caller
             result == Head(replies).result
  <1>1. /\ replies # <<>> /\ replies' = Tail(replies) /\ requests' = requests
        /\ UNCHANGED <<child, started, vault, aliases, cli, issued, lapsed, changes,
                       entered, failures, calls>>
    BY DEF Receive
  <1>2. /\ Head(replies) \in Reply /\ Head(replies) \in Lines(replies)
        /\ p # Null => op[p].stage = "waiting" /\ NoLines(p)
        /\ replies' \in Seq(Reply) /\ Single(replies')
        /\ Rest(Lines(replies'), Lines(replies)) /\ Rest(Lines(requests'), Lines(requests))
    BY <1>1, ReplyOwned
  <1>3. p \in Callers \cup {Null} /\ result \in Results
    BY <1>2 DEF Reply
  <1>4. requests' \in Seq(Request) /\ Single(requests')
    BY <1>1, OtherNow
  <1>5. ASSUME OtherTyped, op' \in OpsOf, setups' \in [Challenges -> Logins \cup {Null}],
               \A q \in Callers : Unchanged(q) \/ (q = p /\ Ended(q)),
               \A c \in Challenges, l \in Logins : setups'[c] = l => Knows(c, l)
        PROVE  DialogInv'
    <2>1. \A q \in Callers : Unchanged(q) \/ (Ended(q) /\ NoLines(q))
      BY <1>2, <1>5, NullApart
    <2>2. QED
      BY <1>1, <1>2, <1>4, <1>5, <2>1, EndingStep
  <1>6. \A c \in Challenges, l \in Logins : setups[c] = l => Knows(c, l)
    BY DEF Knows
  <1>7. CASE p = Null
    <2>1. UNCHANGED <<upstreamConnected, setupActive, setups, row, op>>
      BY <1>7 DEF Receive
    <2>2. OtherTyped
      BY <1>1, <2>1, OtherNow DEF OtherTyped
    <2>3. \A q \in Callers : Unchanged(q)
      BY <2>1 DEF Unchanged
    <2>4. op' \in OpsOf /\ setups' \in [Challenges -> Logins \cup {Null}]
      BY <2>1, OtherNow
    <2>5. QED
      BY <1>5, <1>6, <2>1, <2>2, <2>3, <2>4
  <1>8. ASSUME p # Null, op' = Done(p)
        PROVE  op' \in OpsOf /\ \A q \in Callers : Unchanged(q) \/ (q = p /\ Ended(q))
    BY <1>8, OtherNow, IdleTyped DEF Done, OpsOf, Unchanged, Ended
  <1>9. ASSUME p # Null, NEW gone \in SUBSET Addresses, op' = Forget(Done(p), gone)
        PROVE  op' \in OpsOf /\ \A q \in Callers : Unchanged(q) \/ (q = p /\ Ended(q))
    <2>1. Done(p) \in OpsOf
      BY OtherNow, IdleTyped DEF Done, OpsOf
    <2>2. /\ op' \in OpsOf
          /\ \A q \in Callers : /\ op'[q].stage = Done(p)[q].stage
                                /\ op'[q].kind = Done(p)[q].kind
                                /\ op'[q].login = Done(p)[q].login
                                /\ op'[q].id = Done(p)[q].id
      BY <1>9, <2>1, Forgetting
    <2>3. \A q \in Callers : Done(p)[q] = IF q = p THEN Idle ELSE op[q]
      BY OtherNow DEF Done, OpsOf
    <2>4. QED
      BY <2>2, <2>3, IdleTyped DEF Unchanged, Ended
  <1>10. CASE p # Null /\ Fail({p})
    <2>1. /\ op' \in OpsOf /\ UNCHANGED <<setups, row>>
          /\ upstreamConnected' \in BOOLEAN /\ setupActive' \in BOOLEAN
          /\ \A q \in Callers : Unchanged(q) \/ (q \in {p} /\ Ended(q))
      BY <1>10, Failing
    <2>2. OtherTyped
      BY <1>1, <2>1, OtherNow DEF OtherTyped
    <2>3. QED
      BY <1>5, <1>6, <2>1, <2>2, OtherNow
  <1>11. CASE p # Null /\ op[p].kind \in {"connect", "challenge"} /\ HandleSetup(p, result)
    <2>1. op[p].login \in Logins
      BY <1>2, <1>3, <1>11, OtherNow
         DEF DialogInv, CallsComplete, NamesLogin, OpsOf, Ops
    <2>2. CASE /\ result.state = "challenge_required"
               /\ setupActive' = TRUE
               /\ setups' = [setups EXCEPT ![result.id] = op[p].login]
               /\ op' = Done(p)
               /\ UNCHANGED <<upstreamConnected, row>>
      <3>1. result.id \in Challenges /\ result = Challenge(result.id)
        BY <1>3, <2>2, ResultTyped
      <3>2. Knows(result.id, op[p].login)
        BY <1>2, <1>11, <3>1 DEF Knows
      <3>3. setups' \in [Challenges -> Logins \cup {Null}]
        BY <2>1, <2>2, <3>1, OtherNow
      <3>4. \A c \in Challenges, l \in Logins : setups'[c] = l => Knows(c, l)
        BY <1>6, <2>2, <3>1, <3>2, OtherNow
      <3>5. OtherTyped
        BY <1>1, <2>2, OtherNow DEF OtherTyped
      <3>6. QED
        BY <1>5, <1>8, <1>11, <2>2, <3>3, <3>4, <3>5
    <2>3. CASE /\ result.state = "connected"
               /\ setups' = [c \in Challenges |->
                               IF setups[c] = op[p].login THEN Null ELSE setups[c]]
               /\ upstreamConnected' = TRUE
               /\ setupActive' = FALSE
               /\ row' = Upsert({result.address}, op[p].login)
               /\ op' = Done(p)
      <3>1. {result.address} \in SUBSET Addresses
        BY <1>3, <2>3, ResultTyped
      <3>2. OtherTyped
        BY <1>1, <2>1, <2>3, <3>1, OtherNow, RowsTyped DEF OtherTyped
      <3>3. setups' \in [Challenges -> Logins \cup {Null}]
        BY <2>3, OtherNow
      <3>4. \A c \in Challenges, l \in Logins : setups'[c] = l => Knows(c, l)
        BY <1>6, <2>3, NullApart
      <3>5. QED
        BY <1>5, <1>8, <1>11, <2>3, <3>2, <3>3, <3>4
    <2>4. QED
      BY <1>11, <2>2, <2>3 DEF HandleSetup
  <1>12. CASE p # Null /\ HandleStatus(p, result)
    <2>1. result.connected \in BOOLEAN
      BY <1>3, <1>12, ResultTyped DEF HandleStatus
    <2>2. /\ upstreamConnected' = result.connected /\ op' = Done(p)
          /\ UNCHANGED <<setupActive, setups, row>>
      BY <1>12 DEF HandleStatus
    <2>3. OtherTyped
      BY <1>1, <2>1, <2>2, OtherNow DEF OtherTyped
    <2>4. QED
      BY <1>5, <1>6, <1>8, <1>12, <2>2, <2>3, OtherNow
  <1>13. CASE p # Null /\ HandleAbort(p, result)
    <2>1. /\ setups' = [setups EXCEPT ![op[p].id] = Null] /\ setupActive' = FALSE
          /\ op' = Done(p) /\ UNCHANGED <<upstreamConnected, row>>
      BY <1>13 DEF HandleAbort
    <2>2. OtherTyped
      BY <1>1, <2>1, OtherNow DEF OtherTyped
    <2>3. setups' \in [Challenges -> Logins \cup {Null}]
      BY <2>1, OtherNow
    <2>4. \A c \in Challenges, l \in Logins : setups'[c] = l => Knows(c, l)
      BY <1>6, <2>1, NullApart, OtherNow
    <2>5. QED
      BY <1>5, <1>8, <1>13, <2>1, <2>2, <2>3, <2>4
  <1>14. CASE p # Null /\ HandleRemoved(p, result)
    <2>1. PICK gone \in Deleted(p) :
            /\ row' = [a \in Addresses |-> IF a \in gone THEN Null ELSE row[a]]
            /\ op' = Forget(Done(p), gone)
      BY <1>14 DEF HandleRemoved
    <2>2. op[p].group \in SUBSET Addresses
      BY <1>3, <1>14, OtherNow DEF OpsOf, Ops
    <2>3. gone \in SUBSET Addresses
      BY <2>1, <2>2 DEF Deleted
    <2>4. UNCHANGED <<upstreamConnected, setupActive, setups>>
      BY <1>14 DEF HandleRemoved
    <2>5. OtherTyped
      BY <1>1, <2>1, <2>3, <2>4, OtherNow, RowsTyped DEF OtherTyped
    <2>6. QED
      BY <1>5, <1>6, <1>9, <1>14, <2>1, <2>3, <2>4, <2>5, OtherNow
  <1>15. CASE p # Null /\ op[p].kind = "sync" /\ HandleAddresses(p, result)
    <2> DEFINE l == op[p].login
               stale == Stale(l, result.addresses)
               gone == Deletable(stale)
               kept == Upsert(result.addresses, l)
    <2>1. /\ row' = [a \in Addresses |->
                       IF a \in gone THEN Null
                       ELSE IF a \in stale THEN [row[a] EXCEPT !.enabled = FALSE]
                       ELSE kept[a]]
          /\ op' = Forget(Done(p), gone)
          /\ UNCHANGED <<upstreamConnected, setupActive, setups>>
      BY <1>15 DEF HandleAddresses
    <2>2. l \in Logins
      BY <1>2, <1>3, <1>15, OtherNow
         DEF DialogInv, CallsComplete, NamesLogin, OpsOf, Ops
    <2>3. result.addresses \in SUBSET Addresses
      BY <1>3, <1>15, ResultTyped DEF HandleAddresses
    <2>4. kept \in Rows
      BY <2>2, <2>3, RowsTyped
    <2>5. stale \subseteq Present /\ gone \in SUBSET Addresses
      BY DEF Stale, Group, GroupIn, Present, Deletable
    <2>6. row' \in Rows
      <3> HIDE DEF l, stale, gone, kept
      <3>1. QED
        BY <2>1, <2>4, <2>5, RowsTyped DEF Rows, Present
    <2>7. OtherTyped
      BY <1>1, <2>1, <2>6, OtherNow DEF OtherTyped
    <2>8. QED
      BY <1>5, <1>6, <1>9, <1>15, <2>1, <2>5, <2>7, OtherNow
  <1>16. CASE p # Null
    <2>1. op[p].kind \in Kinds
      BY <1>3, <1>16, OtherNow DEF OpsOf, Ops
    <2>2. \/ Fail({p})
          \/ op[p].kind \in {"connect", "challenge"} /\ HandleSetup(p, result)
          \/ HandleStatus(p, result)
          \/ HandleAbort(p, result)
          \/ HandleRemoved(p, result)
          \/ op[p].kind = "sync" /\ HandleAddresses(p, result)
      BY <1>16, <2>1 DEF Receive, Kinds
    <2>3. QED
      BY <1>10, <1>11, <1>12, <1>13, <1>14, <1>15, <1>16, <2>2
  <1>17. QED
    BY <1>7, <1>16


(* Lines are given up.                                                     *)
LEMMA OrphanRequests ==
  ASSUME DialogInv, NEW p \in Callers
  PROVE  /\ Orphan(requests, p) \in Seq(Request) /\ Single(Orphan(requests, p))
         /\ Rest(Lines(Orphan(requests, p)), Lines(requests))
         /\ \A r \in Lines(Orphan(requests, p)) : r.caller # p
  <1> DEFINE n == Len(requests)
  <1>1. /\ requests \in Seq(Request) /\ n \in Nat /\ DOMAIN requests = 1 .. n
        /\ \A i \in 1 .. n : requests[i] \in Request
        /\ Single(requests)
    BY OtherNow, LenProperties, ElementOfSeq
  <1>2. ASSUME NEW i \in 1 .. n
        PROVE  /\ Orphan(requests, p)[i] \in Request /\ Orphan(requests, p)[i].caller # p
               /\ Orphan(requests, p)[i].caller # Null =>
                    Orphan(requests, p)[i].caller = requests[i].caller
               /\ \/ Orphan(requests, p)[i] = requests[i]
                  \/ Orphan(requests, p)[i] = [requests[i] EXCEPT !.caller = Null]
    BY <1>1, NullApart DEF Orphan, Request
  <1>3. Orphan(requests, p) = [i \in 1 .. n |-> Orphan(requests, p)[i]]
    BY <1>1 DEF Orphan
  <1>4. DOMAIN Orphan(requests, p) = 1 .. n
    BY <1>3
  <1>5. Orphan(requests, p) \in Seq(Request)
    BY <1>1, <1>2, <1>3, IsASeq
  <1>6. Single(Orphan(requests, p))
    BY <1>1, <1>2, <1>4 DEF Single
  <1>7. Rest(Lines(Orphan(requests, p)), Lines(requests))
    BY <1>1, <1>2, <1>4 DEF Rest, Lines
  <1>8. \A r \in Lines(Orphan(requests, p)) : r.caller # p
    BY <1>2, <1>4 DEF Lines
  <1>9. QED
    BY <1>5, <1>6, <1>7, <1>8

LEMMA OrphanReplies ==
  ASSUME DialogInv, NEW p \in Callers
  PROVE  /\ Orphan(replies, p) \in Seq(Reply) /\ Single(Orphan(replies, p))
         /\ Rest(Lines(Orphan(replies, p)), Lines(replies))
         /\ \A r \in Lines(Orphan(replies, p)) : r.caller # p
  <1> DEFINE n == Len(replies)
  <1>1. /\ replies \in Seq(Reply) /\ n \in Nat /\ DOMAIN replies = 1 .. n
        /\ \A i \in 1 .. n : replies[i] \in Reply
        /\ Single(replies)
    BY OtherNow, LenProperties, ElementOfSeq
  <1>2. ASSUME NEW i \in 1 .. n
        PROVE  /\ Orphan(replies, p)[i] \in Reply /\ Orphan(replies, p)[i].caller # p
               /\ Orphan(replies, p)[i].caller # Null =>
                    Orphan(replies, p)[i].caller = replies[i].caller
               /\ \/ Orphan(replies, p)[i] = replies[i]
                  \/ Orphan(replies, p)[i] = [replies[i] EXCEPT !.caller = Null]
    BY <1>1, NullApart DEF Orphan, Reply
  <1>3. Orphan(replies, p) = [i \in 1 .. n |-> Orphan(replies, p)[i]]
    BY <1>1 DEF Orphan
  <1>4. DOMAIN Orphan(replies, p) = 1 .. n
    BY <1>3
  <1>5. Orphan(replies, p) \in Seq(Reply)
    BY <1>1, <1>2, <1>3, IsASeq
  <1>6. Single(Orphan(replies, p))
    BY <1>1, <1>2, <1>4 DEF Single
  <1>7. Rest(Lines(Orphan(replies, p)), Lines(replies))
    BY <1>1, <1>2, <1>4 DEF Rest, Lines
  <1>8. \A r \in Lines(Orphan(replies, p)) : r.caller # p
    BY <1>2, <1>4 DEF Lines
  <1>9. QED
    BY <1>5, <1>6, <1>7, <1>8

LEMMA FaultTyped ==
  ASSUME DialogInv, Fault
  PROVE  failures' \in 0 .. MaxFailures
  BY OtherNow, BoundsAssumption DEF Fault, BoundsAssumption

LEMMA KnownStay ==
  ASSUME UNCHANGED setups
  PROVE  \A c \in Challenges, l \in Logins : setups'[c] = l => Knows(c, l)
  BY DEF Knows

LEMMA TimeoutStep ==
  ASSUME DialogInv, NEW p \in Callers, Timeout(p)
  PROVE  DialogInv'
  <1>1. /\ requests' = Orphan(requests, p) /\ replies' = Orphan(replies, p)
        /\ Fail({p}) /\ failures' \in 0 .. MaxFailures
        /\ UNCHANGED <<child, started, vault, aliases, cli, issued, lapsed, changes,
                       entered, calls>>
    BY FaultTyped DEF Timeout
  <1>2. /\ op' \in OpsOf /\ UNCHANGED <<setups, row>>
        /\ upstreamConnected' \in BOOLEAN /\ setupActive' \in BOOLEAN
        /\ \A q \in Callers : Unchanged(q) \/ (q \in {p} /\ Ended(q))
    BY <1>1, Failing
  <1>3. NoLines(p)
    BY <1>1, OrphanRequests, OrphanReplies DEF NoLines
  <1>4. \A q \in Callers : Unchanged(q) \/ (Ended(q) /\ NoLines(q))
    BY <1>2, <1>3
  <1>5. OtherTyped
    BY <1>1, <1>2, OtherNow DEF OtherTyped
  <1>6. setups' \in [Challenges -> Logins \cup {Null}]
    BY <1>2, OtherNow
  <1>7. /\ requests' \in Seq(Request) /\ Single(requests')
        /\ Rest(Lines(requests'), Lines(requests))
    BY <1>1, OrphanRequests
  <1>8. /\ replies' \in Seq(Reply) /\ Single(replies')
        /\ Rest(Lines(replies'), Lines(replies))
    BY <1>1, OrphanReplies
  <1>9. QED
    BY <1>1, <1>2, <1>4, <1>5, <1>6, <1>7, <1>8, KnownStay, EndingStep

(* The lines go with the process.                                          *)
LEMMA LinesGone ==
  ASSUME requests' = <<>>, replies' = <<>>
  PROVE  /\ requests' \in Seq(Request) /\ Single(requests')
         /\ replies' \in Seq(Reply) /\ Single(replies')
         /\ Rest(Lines(requests'), Lines(requests)) /\ Rest(Lines(replies'), Lines(replies))
         /\ \A p \in Callers : NoLines(p)
  BY LinesEmpty DEF Rest, NoLines

LEMMA ChildExitsStep ==
  ASSUME DialogInv, ChildExits
  PROVE  DialogInv'
  <1>1. /\ requests' = <<>> /\ replies' = <<>> /\ child' = FALSE /\ cli' = Fresh
        /\ Fail(Waiting) /\ failures' \in 0 .. MaxFailures
        /\ UNCHANGED <<started, vault, aliases, issued, lapsed, changes, entered, calls>>
    BY FaultTyped DEF ChildExits
  <1>2. /\ op' \in OpsOf /\ UNCHANGED <<setups, row>>
        /\ upstreamConnected' \in BOOLEAN /\ setupActive' \in BOOLEAN
        /\ \A q \in Callers : Unchanged(q) \/ (q \in Waiting /\ Ended(q))
    BY <1>1, Failing
  <1>3. \A q \in Callers : Unchanged(q) \/ (Ended(q) /\ NoLines(q))
    BY <1>1, <1>2, LinesGone
  <1>4. OtherTyped
    BY <1>1, <1>2, OtherNow DEF OtherTyped
  <1>5. setups' \in [Challenges -> Logins \cup {Null}]
    BY <1>2, OtherNow
  <1>6. /\ requests' \in Seq(Request) /\ Single(requests')
        /\ replies' \in Seq(Reply) /\ Single(replies')
        /\ Rest(Lines(requests'), Lines(requests)) /\ Rest(Lines(replies'), Lines(replies))
    BY <1>1, LinesGone
  <1>7. QED
    BY <1>1, <1>2, <1>3, <1>4, <1>5, <1>6, KnownStay, EndingStep

LEMMA StartFailsStep ==
  ASSUME DialogInv, StartFails
  PROVE  DialogInv'
  <1>1. /\ Fail(Starting) /\ failures' \in 0 .. MaxFailures
        /\ UNCHANGED <<child, started, cliVars, calls>>
    BY FaultTyped DEF StartFails
  <1>2. /\ op' \in OpsOf /\ UNCHANGED <<setups, row>>
        /\ upstreamConnected' \in BOOLEAN /\ setupActive' \in BOOLEAN
        /\ \A q \in Callers : Unchanged(q) \/ (q \in Starting /\ Ended(q))
    BY <1>1, Failing
  <1>3. /\ requests' = requests /\ replies' = replies
        /\ UNCHANGED <<vault, aliases, lapsed, changes, issued, entered, cli>>
    BY <1>1 DEF cliVars
  <1>4. \A q \in Starting : NoLines(q)
    BY <1>3, NotWaiting DEF Starting, NoLines
  <1>5. \A q \in Callers : Unchanged(q) \/ (Ended(q) /\ NoLines(q))
    BY <1>2, <1>4
  <1>6. OtherTyped
    BY <1>1, <1>2, OtherNow DEF OtherTyped
  <1>7. setups' \in [Challenges -> Logins \cup {Null}]
    BY <1>2, OtherNow
  <1>8. /\ requests' \in Seq(Request) /\ Single(requests')
        /\ replies' \in Seq(Reply) /\ Single(replies')
        /\ Rest(Lines(requests'), Lines(requests)) /\ Rest(Lines(replies'), Lines(replies))
    BY <1>3, RestSame, OtherNow
  <1>9. QED
    BY <1>2, <1>3, <1>5, <1>6, <1>7, <1>8, KnownStay, EndingStep

LEMMA ServerRestartStep ==
  ASSUME DialogInv, Restart
  PROVE  DialogInv'
  <1>1. /\ requests' = <<>> /\ replies' = <<>> /\ cli' = Fresh
        /\ child' = FALSE /\ started' = FALSE
        /\ upstreamConnected' = FALSE /\ setupActive' = FALSE
        /\ setups' = [c \in Challenges |-> Null]
        /\ op' = [p \in Callers |-> IF p = Boot THEN BootOf(Present) ELSE Idle]
        /\ failures' \in 0 .. MaxFailures
        /\ UNCHANGED <<row, vault, aliases, issued, lapsed, changes, entered, calls>>
    BY FaultTyped DEF Restart
  <1>2. TypeOK'
    <2>1. BootOf(Present) \in Ops /\ Idle \in Ops
      BY IdleTyped DEF BootOf, Idle, Ops, Kinds
    <2>2. op' \in OpsOf
      BY <1>1, <2>1 DEF OpsOf
    <2>3. cli' \in Clis /\ requests' \in Seq(Request) /\ replies' \in Seq(Reply)
      BY <1>1, CliTyped, LinesGone
    <2>4. CliTypeOK'
      BY <1>1, <2>3 DEF DialogInv, TypeOK, CliTypeOK, Clis, Challenges
    <2>5. QED
      BY <1>1, <2>2, <2>4 DEF DialogInv, TypeOK, OpsOf, Ops, Challenges
  <1>3. \A p \in Callers : op'[p].kind \in {"boot", "status"}
    BY <1>1, IdleTyped DEF BootOf, Idle
  <1>4. \A p \in Callers : op'[p].kind \notin NamesLogin /\ op'[p].kind # "challenge"
    BY <1>3 DEF NamesLogin
  <1>5. \A c \in Challenges, l \in Logins : setups'[c] = l => Knows(c, l)
    BY <1>1, NullApart
  <1>6. /\ Single(requests') /\ Single(replies')
        /\ Rest(Lines(requests'), Lines(requests)) /\ Rest(Lines(replies'), Lines(replies))
        /\ \A p \in Callers : NoLines(p)
    BY <1>1, LinesGone
  <1>7. cli'.pending = Null
    BY <1>1 DEF Fresh
  <1>8. QED
    BY <1>1, <1>2, <1>4, <1>5, <1>6, <1>7, ManagerStep

(* The Proton account and the challenges' time.                            *)
LEMMA EnvironmentStep ==
  ASSUME DialogInv, Environment
  PROVE  DialogInv'
  <1> USE DEF Environment, mgrVars
  <1>1. /\ UNCHANGED <<issued, requests, replies, entered, mgrVars, row, op, failures, calls>>
        /\ cli' = cli \/ cli' = [cli EXCEPT !.deaf = TRUE]
    BY DEF UpstreamChanges, Lapse
  <1>2. cli' \in Clis /\ cli'.pending = cli.pending /\ cli'.dialog = cli.dialog
    BY <1>1, CliTyped DEF Clis
  <1>3. vault' \in Vaults /\ aliases' \in [Logins -> SUBSET Addresses]
        /\ lapsed' \subseteq Challenges /\ changes' \in 0 .. MaxUpstream
    <2>1. CASE UpstreamChanges
      <3>1. changes' \in 0 .. MaxUpstream /\ lapsed' = lapsed
        BY <2>1, CountsAssumption
           DEF UpstreamChanges, CountsAssumption, DialogInv, TypeOK, CliTypeOK
      <3>2. vault' \in Vaults /\ aliases' \in [Logins -> SUBSET Addresses]
        <4>1. vault \in Vaults /\ aliases \in [Logins -> SUBSET Addresses]
          BY DEF DialogInv, TypeOK, CliTypeOK, Vaults
        <4>2. ASSUME NEW l \in Logins, NEW a \in Addresses,
                     aliases' = [aliases EXCEPT ![l] = IF a \in @ THEN @ \ {a} ELSE @ \cup {a}]
              PROVE  aliases' \in [Logins -> SUBSET Addresses]
          <5>1. (IF a \in aliases[l] THEN aliases[l] \ {a} ELSE aliases[l] \cup {a})
                  \in SUBSET Addresses
            BY <4>1
          <5>2. QED
            BY <4>1, <4>2, <5>1
        <4>3. ASSUME NEW l \in Logins, vault' = [vault EXCEPT ![l] = "signed_out"]
              PROVE  vault' \in Vaults
          BY <4>1, <4>3 DEF Vaults
        <4>4. QED
          BY <2>1, <4>1, <4>2, <4>3 DEF UpstreamChanges
      <3>3. QED
        BY <3>1, <3>2 DEF DialogInv, TypeOK, CliTypeOK
    <2>2. CASE \E c \in Challenges : Lapse(c)
      BY <2>2 DEF Lapse, DialogInv, TypeOK, CliTypeOK, Vaults
    <2>3. QED
      BY <2>1, <2>2
  <1>4. TypeOK'
    <2>1. CliTypeOK'
      BY <1>1, <1>2, <1>3 DEF DialogInv, TypeOK, CliTypeOK, Clis, Vaults, Challenges
    <2>2. QED
      BY <1>1, <2>1 DEF DialogInv, TypeOK, Challenges
  <1>5. \A p \in Callers : Unchanged(p)
    BY <1>1 DEF Unchanged
  <1>6. /\ \A p \in Callers : op'[p].stage # "idle" /\ op'[p].kind \in NamesLogin
                                => op'[p].login # Null
        /\ \A p \in Callers, c \in Challenges, l \in Logins :
             op'[p].kind = "challenge" /\ op'[p].id = c /\ op'[p].login = l => Knows(c, l)
    BY <1>1 DEF DialogInv, CallsComplete, Knows
  <1>7. /\ Single(requests') /\ Single(replies')
        /\ Rest(Lines(requests'), Lines(requests)) /\ Rest(Lines(replies'), Lines(replies))
    BY <1>1, RestSame, OtherNow
  <1>8. \A c \in Challenges, l \in Logins : setups'[c] = l => Knows(c, l)
    BY <1>1, KnownStay
  <1>9. QED
    BY <1>1, <1>2, <1>4, <1>5, <1>6, <1>7, <1>8, ManagerStep


(* A call's line is written.                                               *)
LEMMA DispatchStep ==
  ASSUME DialogInv, NEW p \in Callers, Dispatch(p)
  PROVE  DialogInv'
  <1> DEFINE line == [caller |-> p, action |-> Action(op[p].kind),
                      login |-> op[p].login, id |-> op[p].id]
  <1>1. /\ op[p].stage = "starting" /\ started' = TRUE /\ child' = TRUE
        /\ cli' = cli \/ cli' = Fresh
        /\ requests' = Append(requests, line)
        /\ op' = [op EXCEPT ![p].stage = "waiting"]
        /\ UNCHANGED <<upstreamConnected, setupActive, setups, row, vault, aliases, issued,
                       lapsed, replies, changes, entered, failures, calls>>
    BY DEF Dispatch
  <1>2. op \in OpsOf /\ op[p] \in Ops
    BY OtherNow DEF OpsOf
  <1>3. /\ op' \in OpsOf /\ \A q \in Callers \ {p} : op'[q] = op[q]
        /\ op'[p].stage = "waiting" /\ op'[p].kind = op[p].kind
        /\ op'[p].login = op[p].login /\ op'[p].id = op[p].id
    BY <1>1, <1>2 DEF OpsOf, Ops
  <1>4. \A kind \in Kinds :
          /\ Action(kind) \in Actions
          /\ Action(kind) = "challenge" <=> kind = "challenge"
          /\ Action(kind) \in {"connect", "challenge", "remove", "addresses"}
               <=> kind \in NamesLogin
    BY DEF Kinds, Action, Actions, NamesLogin
  <1>5. line \in Request
    BY <1>2, <1>4 DEF Ops, Request
  <1>6. \A r \in Lines(requests) \cup Lines(replies) : r.caller # p
    BY <1>1, NotWaiting
  <1>0. /\ \A r \in Lines(requests) : r \in Request /\ r.caller \in Callers \cup {Null}
        /\ \A r \in Lines(replies) : r \in Reply /\ r.caller \in Callers \cup {Null}
    <2>1. /\ \A r \in Lines(requests) : r \in Request
          /\ \A r \in Lines(replies) : r \in Reply
      BY DEF DialogInv, TypeOK, CliTypeOK, Lines
    <2>2. QED
      BY <2>1 DEF Request, Reply
  <1>7. /\ requests' \in Seq(Request) /\ Single(requests')
        /\ Lines(requests') = Lines(requests) \cup {line}
    <2> HIDE DEF line
    <2>1. line.caller = p
      BY DEF line
    <2>2. QED
      BY <1>1, <1>5, <1>6, <2>1, OtherNow, LinesAppend
  <1>8. TypeOK'
    <2>1. cli' \in Clis /\ replies' \in Seq(Reply)
      BY <1>1, CliTyped, OtherNow
    <2>2. CliTypeOK'
      BY <1>1, <1>7, <2>1 DEF DialogInv, TypeOK, CliTypeOK, Clis, Challenges
    <2>3. QED
      BY <1>1, <1>3, <2>2 DEF DialogInv, TypeOK, OpsOf, Ops, Challenges
  <1>9. op[p].kind \in Kinds /\ (op[p].kind \in NamesLogin => op[p].login # Null)
    BY <1>1, <1>2 DEF DialogInv, CallsComplete, Ops
  <1>10. CallsComplete'
    <2>1. ASSUME NEW q \in Callers, op'[q].stage # "idle", op'[q].kind \in NamesLogin
          PROVE  op'[q].login # Null
      BY <1>3, <1>9, <2>1 DEF DialogInv, CallsComplete
    <2>2. ASSUME NEW r \in Lines(requests'),
                 r.action \in {"connect", "challenge", "remove", "addresses"}
          PROVE  r.login # Null
      BY <1>4, <1>7, <1>9, <2>2 DEF DialogInv, CallsComplete
    <2>3. QED
      BY <2>1, <2>2 DEF CallsComplete
  <1>11. LinesOwned'
    <2>1. ASSUME NEW r \in Lines(requests'), r.caller # Null
          PROVE  op'[r.caller].stage = "waiting" /\ r.login = op'[r.caller].login
      <3>1. CASE r = line
        BY <1>3, <3>1
      <3>2. CASE r \in Lines(requests)
        <4>1. r.caller \in Callers \ {p}
          BY <1>0, <1>6, <2>1, <3>2
        <4>2. QED
          BY <1>3, <2>1, <3>2, <4>1 DEF DialogInv, LinesOwned
      <3>3. QED
        BY <1>7, <3>1, <3>2
    <2>2. ASSUME NEW r \in Lines(replies'), r.caller # Null
          PROVE  op'[r.caller].stage = "waiting"
      <3>1. r \in Lines(replies) /\ r.caller \in Callers \ {p}
        BY <1>0, <1>1, <1>6, <2>2
      <3>2. QED
        BY <1>3, <2>2, <3>1 DEF DialogInv, LinesOwned
    <2>3. QED
      BY <2>1, <2>2 DEF LinesOwned
  <1>12. LinesApart'
    <2>1. Single(replies')
      BY <1>1, OtherNow
    <2>2. ASSUME NEW r \in Lines(requests'), NEW s \in Lines(replies'), r.caller # Null
          PROVE  r.caller # s.caller
      BY <1>1, <1>6, <1>7, <2>2 DEF DialogInv, LinesApart
    <2>3. QED
      BY <1>7, <2>1, <2>2 DEF LinesApart
  <1>13. ASSUME NEW c \in Challenges, NEW l \in Logins, Knows(c, l)'
         PROVE  Knows(c, l)
    <2>1. CASE cli'.pending # Null /\ cli'.pending.id = c /\ cli'.pending.login = l
      BY <1>1, <2>1 DEF Knows, Fresh
    <2>2. CASE setups'[c] = l
      BY <1>1, <2>2 DEF Knows
    <2>3. ASSUME NEW q \in Callers, op'[q].kind = "challenge", op'[q].id = c, op'[q].login = l
          PROVE  Knows(c, l)
      BY <1>3, <2>3 DEF Knows
    <2>4. ASSUME NEW r \in Lines(requests'), r.action = "challenge", r.id = c, r.login = l
          PROVE  Knows(c, l)
      <3>1. CASE r = line
        BY <1>4, <1>9, <2>4, <3>1 DEF Knows
      <3>2. CASE r \in Lines(requests)
        BY <2>4, <3>2 DEF Knows
      <3>3. QED
        BY <1>7, <3>1, <3>2
    <2>5. ASSUME NEW r \in Lines(replies'), r.caller # Null, r.result = Challenge(c),
                 op'[r.caller].login = l
          PROVE  Knows(c, l)
      <3>1. r \in Lines(replies) /\ r.caller \in Callers \ {p}
        BY <1>0, <1>1, <1>6, <2>5
      <3>2. QED
        BY <1>3, <2>5, <3>1 DEF Knows
    <2>6. QED
      BY <1>13, <2>1, <2>2, <2>3, <2>4, <2>5 DEF Knows, Challenge
  <1>14. OneLoginEach'
    BY <1>1, <1>13 DEF DialogInv, OneLoginEach
  <1>15. DialogOfChallenge' /\ OwnDialogOnly'
    BY <1>1 DEF DialogInv, DialogOfChallenge, OwnDialogOnly, Fresh
  <1>16. QED
    BY <1>8, <1>10, <1>11, <1>12, <1>14, <1>15 DEF DialogInv
-------------------------------------------------------------------------------
(* The theorems. *)

LEMMA DialogInit == Init => DialogInv
  <1> SUFFICES ASSUME Init
               PROVE  DialogInv
    OBVIOUS
  <1>1. PICK known \in SUBSET Logins, imported \in SUBSET (Addresses \ Logins) :
          /\ CliInit(known)
          /\ \A a \in imported : \E l \in known : a \in aliases[l]
          /\ row = [a \in Addresses |->
                     IF a \in known \cup imported
                       THEN [login |-> CHOOSE l \in known : a \in aliases[l],
                             enabled |-> TRUE, assigned |-> FALSE]
                       ELSE Null]
          /\ op = [p \in Callers |-> IF p = Boot THEN BootOf(known) ELSE Idle]
    BY DEF Init
  <1>2. /\ child = FALSE /\ started = FALSE /\ upstreamConnected = FALSE
        /\ setupActive = FALSE /\ setups = [c \in Challenges |-> Null]
        /\ failures = 0 /\ calls = 0
    BY DEF Init
  <1>3. /\ cli = Fresh /\ issued = 0 /\ lapsed = {} /\ requests = <<>> /\ replies = <<>>
        /\ changes = 0 /\ entered = {}
        /\ aliases \in [Logins -> SUBSET Addresses]
        /\ \A l \in Logins : aliases[l] \cap Logins = {l}
    BY <1>1 DEF CliInit
  <1>4. vault \in Vaults
    BY <1>1 DEF CliInit, Vaults
  <1>5. CliTypeOK
    BY <1>3, <1>4, CountsAssumption
       DEF CliTypeOK, CountsAssumption, Vaults, Fresh, Challenges
  <1>6. row \in Rows
    <2>1. ASSUME NEW a \in known \cup imported
          PROVE  (CHOOSE l \in known : a \in aliases[l]) \in Logins
      <3>1. \E l \in known : a \in aliases[l]
        BY <1>1, <1>3
      <3>2. QED
        BY <3>1
    <2>2. QED
      BY <1>1, <2>1 DEF Rows
  <1>7. op \in OpsOf /\ \A p \in Callers : op[p].kind \in {"boot", "status"}
    BY <1>1, IdleTyped DEF BootOf, OpsOf, Idle, Ops, Kinds
  <1>8. TypeOK
    <2>1. /\ child \in BOOLEAN /\ started \in BOOLEAN /\ upstreamConnected \in BOOLEAN
          /\ setupActive \in BOOLEAN
      BY <1>2
    <2>2. setups \in [Challenges -> Logins \cup {Null}]
      BY <1>2
    <2>3. failures \in 0 .. MaxFailures /\ calls \in 0 .. MaxCalls
      BY <1>2, BoundsAssumption DEF BoundsAssumption
    <2>4. QED
      BY <1>5, <1>6, <1>7, <2>1, <2>2, <2>3 DEF TypeOK, Rows, OpsOf, Ops
  <1>9. CallsComplete /\ LinesOwned /\ LinesApart
    BY <1>3, <1>7, LinesEmpty DEF CallsComplete, LinesOwned, LinesApart, NamesLogin
  <1>10. \A c \in Challenges, l \in Logins : ~Knows(c, l)
    BY <1>2, <1>3, <1>7, LinesEmpty, NullApart DEF Knows, Fresh
  <1>11. OneLoginEach /\ DialogOfChallenge /\ OwnDialogOnly
    BY <1>3, <1>10 DEF OneLoginEach, DialogOfChallenge, OwnDialogOnly, Fresh
  <1>12. QED
    BY <1>8, <1>9, <1>11 DEF DialogInv

LEMMA DialogNext == DialogInv /\ [Next]_vars => DialogInv'
  <1> SUFFICES ASSUME DialogInv, [Next]_vars
               PROVE  DialogInv'
    OBVIOUS
  <1>1. CASE Link
    <2>1. ASSUME NEW p \in Callers, Dispatch(p) \/ Timeout(p)
          PROVE  DialogInv'
      BY <2>1, DispatchStep, TimeoutStep
    <2>2. QED
      BY <1>1, <2>1, StartFailsStep, ReceiveStep, ChildExitsStep DEF Link
  <1>2. CASE UNCHANGED vars
    BY <1>2 DEF vars, cliVars, mgrVars, DialogInv, TypeOK, CliTypeOK, CallsComplete,
       LinesOwned, LinesApart, Single, Lines, OneLoginEach, Knows, DialogOfChallenge,
       OwnDialogOnly, Challenges
  <1>3. QED
    BY <1>1, <1>2, AdminStep, PythonStep, EnvironmentStep, ServerRestartStep DEF Next

(* The manager, the lines and the Python process agree on the login of     *)
(* every challenge, through timeouts, exits and restarts.                  *)
THEOREM DialogInvariant == Spec => []DialogInv
  BY DialogInit, DialogNext, PTL DEF Spec

(* Every state of the manager, its account rows, its calls and the lines   *)
(* to the Python process has its type.                                     *)
THEOREM ProtonTypeCorrect == Spec => []TypeOK
  <1>1. DialogInv => TypeOK
    BY DEF DialogInv
  <1>2. QED
    BY <1>1, DialogInvariant, PTL

(* continueSetup and _challenge: no credential is typed into the dialog of *)
(* another login than the one it was given for.                            *)
THEOREM OwnDialogOnlyHolds == Spec => []OwnDialogOnly
  <1>1. DialogInv => OwnDialogOnly
    BY DEF DialogInv
  <1>2. QED
    BY <1>1, DialogInvariant, PTL


(* What onLine does with the oldest line when it belongs to a call.        *)
LEMMA ReceivedResult ==
  ASSUME DialogInv, NEW p \in Callers, NEW state, Received(p, state)
  PROVE  LET result == Head(replies).result IN
         /\ result \in Results /\ result.state = state /\ op[p].stage = "waiting"
         /\ op[p] \in Ops
         /\ state = "removed" => HandleRemoved(p, result)
         /\ state = "addresses" => op[p].kind = "sync" /\ HandleAddresses(p, result)
  <1> DEFINE result == Head(replies).result
  <1>1. /\ Head(replies).caller = p /\ result.state = state /\ Receive
        /\ replies # <<>> /\ replies' = Tail(replies) /\ requests' = requests
    BY DEF Received, Receive
  <1>2. Head(replies) \in Reply /\ op[p].stage = "waiting" /\ p # Null
    BY <1>1, NullApart, ReplyOwned
  <1>3. result \in Results /\ op[p] \in Ops
    BY <1>2, OtherNow DEF Reply, OpsOf
  <1>4. op[p].kind \in Kinds
    BY <1>3 DEF Ops
  <1>5. CASE state \in {"removed", "addresses"}
    <2>1. \/ op[p].kind \in {"connect", "challenge"} /\ HandleSetup(p, result)
          \/ op[p].kind \in {"status", "boot"} /\ HandleStatus(p, result)
          \/ op[p].kind = "abort" /\ HandleAbort(p, result)
          \/ op[p].kind = "disconnect" /\ HandleRemoved(p, result)
          \/ op[p].kind = "sync" /\ HandleAddresses(p, result)
      BY <1>1, <1>2, <1>4, <1>5 DEF Receive, Kinds
    <2>2. ~HandleSetup(p, result) /\ ~HandleStatus(p, result) /\ ~HandleAbort(p, result)
      BY <1>1, <1>5 DEF HandleSetup, HandleStatus, HandleAbort
    <2>3. /\ HandleRemoved(p, result) => state = "removed"
          /\ HandleAddresses(p, result) => state = "addresses"
      BY <1>1 DEF HandleRemoved, HandleAddresses
    <2>4. QED
      BY <1>1, <1>2, <1>3, <2>1, <2>2, <2>3
  <1>6. QED
    BY <1>1, <1>2, <1>3, <1>5

(* The row a synchronisation or a login leaves is a row.                   *)
LEMMA UpsertStays ==
  ASSUME DialogInv, NEW as \in SUBSET Addresses, NEW l \in Logins, NEW a \in Addresses
  PROVE  /\ row[a] # Null => Upsert(as, l)[a] # Null
         /\ a \in as => Upsert(as, l)[a] # Null /\ Upsert(as, l)[a].login = l
         /\ a \notin as => Upsert(as, l)[a] = row[a]
  <1>1. CASE a \notin as
    BY <1>1 DEF Upsert
  <1>2. CASE a \in as
    <2>1. row[a] = Null
            \/ row[a] \in [login : Logins, enabled : BOOLEAN, assigned : BOOLEAN]
      BY OtherNow DEF Rows
    <2>2. /\ Upsert(as, l)[a] \in [login : Logins, enabled : BOOLEAN, assigned : BOOLEAN]
          /\ Upsert(as, l)[a].login = l
      BY <1>2, <2>1 DEF Upsert
    <2>3. QED
      BY <1>2, <2>2, RowsAssumption DEF RowsAssumption
  <1>3. QED
    BY <1>1, <1>2

LEMMA RowsStay ==
  ASSUME DialogInv, NEW a \in Present, NEW b \in BOOLEAN
  PROVE  [row[a] EXCEPT !.enabled = b] # Null /\ [row[a] EXCEPT !.assigned = b] # Null
  <1>1. row[a] \in [login : Logins, enabled : BOOLEAN, assigned : BOOLEAN]
    BY OtherNow DEF Rows, Present
  <1>2. /\ [row[a] EXCEPT !.enabled = b]
             \in [login : Logins, enabled : BOOLEAN, assigned : BOOLEAN]
        /\ [row[a] EXCEPT !.assigned = b]
             \in [login : Logins, enabled : BOOLEAN, assigned : BOOLEAN]
    BY <1>1
  <1>3. QED
    BY <1>2, RowsAssumption DEF RowsAssumption

(* The rows a synchronisation leaves.                                      *)
LEMMA SyncRows ==
  ASSUME DialogInv, NEW p \in Callers, op[p] \in Ops, op[p].login \in Logins,
         NEW result \in Results, HandleAddresses(p, result)
  PROVE  LET l == op[p].login
             as == result.addresses
         IN /\ as \subseteq Addresses
            /\ \A a \in Addresses :
                 /\ a \in as => row'[a] # Null /\ row'[a].login = l
                 /\ a \in Group(l) \ as =>
                      IF row[a].assigned
                        THEN row'[a] = [row[a] EXCEPT !.enabled = FALSE] /\ row'[a] # Null
                        ELSE row'[a] = Null
                 /\ a \notin as \cup Group(l) => row'[a] = row[a]
  <1> DEFINE l == op[p].login
             as == result.addresses
             kept == Upsert(as, l)
  <1>1. as \in SUBSET Addresses
    BY ResultTyped DEF HandleAddresses
  <1>2. row' = [a \in Addresses |->
                  IF a \in Deletable(Stale(l, as)) THEN Null
                  ELSE IF a \in Stale(l, as) THEN [row[a] EXCEPT !.enabled = FALSE]
                  ELSE kept[a]]
    BY DEF HandleAddresses
  <1>3. \A a \in Addresses :
          /\ a \in Stale(l, as) <=> a \in Group(l) \ as
          /\ a \in Deletable(Stale(l, as)) <=> a \in Group(l) \ as /\ ~row[a].assigned
          /\ a \in Group(l) => a \in Present
    BY DEF Stale, Deletable, Assigned, Present, Group, GroupIn
  <1>4. \A a \in Addresses :
          /\ a \in as => kept[a] # Null /\ kept[a].login = l
          /\ a \notin as => kept[a] = row[a]
    BY <1>1, UpsertStays
  <1>5. ASSUME NEW a \in Addresses
        PROVE  /\ a \in as => row'[a] # Null /\ row'[a].login = l
               /\ a \in Group(l) \ as =>
                    IF row[a].assigned
                      THEN row'[a] = [row[a] EXCEPT !.enabled = FALSE] /\ row'[a] # Null
                      ELSE row'[a] = Null
               /\ a \notin as \cup Group(l) => row'[a] = row[a]
    <2> HIDE DEF kept, l, as
    <2>1. CASE a \in as
      BY <1>2, <1>3, <1>4, <2>1
    <2>2. CASE a \in Group(l) \ as
      BY <1>2, <1>3, <2>2, RowsStay
    <2>3. CASE a \notin as \cup Group(l)
      BY <1>2, <1>3, <1>4, <2>3
    <2>4. QED
      BY <2>1, <2>2, <2>3
  <1>6. QED
    BY <1>1, <1>5


(* What a reply does to the rows.                                          *)
LEMMA ReceivedRows ==
  ASSUME DialogInv, Receive
  PROVE  LET p == Head(replies).caller
             result == Head(replies).result
         IN \/ row' = row
            \/ \E as \in SUBSET Addresses, l \in Logins : row' = Upsert(as, l)
            \/ p \in Callers /\ HandleRemoved(p, result)
            \/ /\ p \in Callers /\ result \in Results
               /\ op[p] \in Ops /\ op[p].login \in Logins
               /\ HandleAddresses(p, result)
  <1> DEFINE p == Head(replies).caller
             result == Head(replies).result
  <1>1. /\ Head(replies) \in Reply /\ Head(replies) \in Lines(replies)
        /\ p # Null => op[p].stage = "waiting"
    BY ReplyOwned DEF Receive
  <1>2. p \in Callers \cup {Null} /\ result \in Results
    BY <1>1 DEF Reply
  <1>3. CASE p = Null
    BY <1>3 DEF Receive
  <1>4. CASE p # Null
    <2>1. op[p] \in Ops /\ op[p].kind \in Kinds /\ op[p].login \in Logins \cup {Null}
      BY <1>2, <1>4, OtherNow DEF OpsOf, Ops
    <2>2. op[p].kind \in NamesLogin => op[p].login \in Logins
      BY <1>1, <1>2, <1>4, <2>1 DEF DialogInv, CallsComplete
    <2>3. \/ Fail({p})
          \/ op[p].kind \in {"connect", "challenge"} /\ HandleSetup(p, result)
          \/ HandleStatus(p, result)
          \/ HandleAbort(p, result)
          \/ HandleRemoved(p, result)
          \/ op[p].kind = "sync" /\ HandleAddresses(p, result)
      BY <1>4, <2>1 DEF Receive, Kinds
    <2>4. CASE Fail({p}) \/ HandleStatus(p, result) \/ HandleAbort(p, result)
      BY <2>4 DEF Fail, HandleStatus, HandleAbort
    <2>5. CASE op[p].kind \in {"connect", "challenge"} /\ HandleSetup(p, result)
      <3>1. op[p].login \in Logins
        BY <2>2, <2>5 DEF NamesLogin
      <3>2. row' = row \/ (result.state = "connected" /\ row' = Upsert({result.address}, op[p].login))
        BY <2>5 DEF HandleSetup
      <3>3. result.state = "connected" => {result.address} \in SUBSET Addresses
        BY <1>2, ResultTyped
      <3>4. QED
        BY <3>1, <3>2, <3>3
    <2>6. CASE op[p].kind = "sync" /\ HandleAddresses(p, result)
      BY <1>2, <1>4, <2>1, <2>2, <2>6 DEF NamesLogin
    <2>7. QED
      BY <1>2, <1>4, <2>3, <2>4, <2>5, <2>6
  <1>5. QED
    BY <1>3, <1>4

(* The rows disconnectAccount deletes after the sign-out.                  *)
LEMMA RemovedRows ==
  ASSUME DialogInv, NEW p \in Callers, NEW result, HandleRemoved(p, result)
  PROVE  /\ \A a \in Assigned : row'[a] = row[a]
         /\ ~op[p].missing =>
              \/ \A a \in op[p].group : row'[a] = row[a]
              \/ \A a \in op[p].group : row'[a] = Null
  <1>1. PICK gone \in Deleted(p) :
          row' = [a \in Addresses |-> IF a \in gone THEN Null ELSE row[a]]
    BY DEF HandleRemoved
  <1>2. op[p].group \in SUBSET Addresses /\ Assigned \subseteq Addresses
    BY OtherNow DEF OpsOf, Ops, Assigned, Present
  <1>3. CASE op[p].group \cap Assigned # {}
    <2>1. gone = {}
      BY <1>1, <1>3 DEF Deleted
    <2>2. QED
      BY <1>1, <1>2, <2>1
  <1>4. CASE op[p].group \cap Assigned = {}
    <2>1. gone \subseteq op[p].group /\ (~op[p].missing => gone = op[p].group)
      BY <1>1, <1>4 DEF Deleted
    <2>2. QED
      BY <1>1, <1>2, <1>4, <2>1
  <1>5. QED
    BY <1>3, <1>4

LEMMA AssignedStay ==
  ASSUME DialogInv, [Next]_vars, NEW a \in Assigned
  PROVE  row'[a] # Null
  <1>1. a \in Addresses /\ a \in Present /\ row[a] # Null /\ row[a].assigned
    BY DEF Assigned, Present
  <1>2. CASE row' = row
    BY <1>1, <1>2
  <1>3. CASE Admin
    <2>1. ASSUME NEW p \in Admins, Begin(p)
          PROVE  row'[a] # Null
      <3>1. ASSUME NEW b \in Addresses, BeginDisconnect(p, b)
            PROVE  row'[a] # Null
        <4>1. row' = row \/ (row' = [row EXCEPT ![b] = Null] /\ Impacted(b) = {b})
          BY <3>1 DEF BeginDisconnect, Impacted
        <4>2. Impacted(b) \cap Assigned = {}
          BY <3>1 DEF BeginDisconnect
        <4>3. CASE row' = [row EXCEPT ![b] = Null] /\ Impacted(b) = {b}
          <5>1. a # b
            BY <4>2, <4>3
          <5>2. QED
            BY <1>1, <4>3, <5>1, OtherNow DEF Rows
        <4>4. QED
          BY <1>2, <4>1, <4>3
      <3>2. QED
        BY <1>2, <2>1, <3>1
           DEF Begin, BeginConnect, BeginContinue, BeginAbort, BeginStatus, BeginSync
    <2>2. ASSUME NEW b \in Addresses, NEW value \in BOOLEAN, SetAssigned(b, value)
          PROVE  row'[a] # Null
      <3>1. b \in Present /\ row' = [row EXCEPT ![b].assigned = value]
        BY <2>2 DEF SetAssigned
      <3>2. [row[b] EXCEPT !.assigned = value] # Null
        BY <3>1, RowsStay
      <3>3. row'[a] = IF a = b THEN [row[b] EXCEPT !.assigned = value] ELSE row[a]
        BY <1>1, <3>1, OtherNow DEF Rows
      <3>4. QED
        BY <1>1, <3>2, <3>3
    <2>3. QED
      BY <1>3, <2>1, <2>2 DEF Admin
  <1>4. CASE Receive
    <2> DEFINE p == Head(replies).caller
               result == Head(replies).result
    <2>1. ASSUME NEW as \in SUBSET Addresses, NEW l \in Logins, row' = Upsert(as, l)
          PROVE  row'[a] # Null
      <3>1. Upsert(as, l)[a] # Null
        BY <1>1, UpsertStays
      <3>2. QED
        BY <2>1, <3>1
    <2>2. CASE p \in Callers /\ HandleRemoved(p, result)
      BY <1>1, <2>2, RemovedRows
    <2>3. CASE /\ p \in Callers /\ result \in Results
               /\ op[p] \in Ops /\ op[p].login \in Logins
               /\ HandleAddresses(p, result)
      <3>1. CASE a \in result.addresses
        BY <1>1, <2>3, <3>1, SyncRows
      <3>2. CASE a \in Group(op[p].login) \ result.addresses
        BY <1>1, <2>3, <3>2, SyncRows
      <3>3. CASE a \notin result.addresses \cup Group(op[p].login)
        BY <1>1, <2>3, <3>3, SyncRows
      <3>4. QED
        BY <3>1, <3>2, <3>3
    <2>4. QED
      BY <1>2, <1>4, <2>1, <2>2, <2>3, ReceivedRows
  <1>5. CASE Link
    <2>1. ASSUME NEW p \in Callers, Dispatch(p) \/ Timeout(p)
          PROVE  row' = row
      BY <2>1 DEF Dispatch, Timeout, Fail
    <2>2. CASE StartFails \/ ChildExits
      BY <1>2, <2>2 DEF StartFails, ChildExits, Fail
    <2>3. QED
      BY <1>2, <1>4, <1>5, <2>1, <2>2 DEF Link
  <1>6. CASE Python \/ Environment \/ Restart \/ UNCHANGED vars
    BY <1>2, <1>6 DEF Python, Environment, Restart, vars
  <1>7. QED
    BY <1>3, <1>5, <1>6 DEF Next

(* disconnectAccount and syncAddresses: no mailbox that an access profile  *)
(* uses is deleted, whatever else happens between their awaits.            *)
THEOREM AssignedRowsSurviveHolds == Spec => AssignedRowsSurvive
  <1>1. DialogInv /\ [Next]_vars => [\A a \in Assigned : row'[a] # Null]_vars
    BY AssignedStay
  <1>2. QED
    BY <1>1, DialogInvariant, PTL DEF Spec, AssignedRowsSurvive

(* disconnectAccount: after the sign-out the affected rows go together or  *)
(* stay together.                                                          *)
THEOREM WholeGroupOrNoneHolds == Spec => WholeGroupOrNone
  <1> DEFINE Together ==
        \A p \in Callers :
          Received(p, "removed") /\ ~op[p].missing =>
            \/ \A a \in op[p].group : row'[a] = row[a]
            \/ \A a \in op[p].group : row'[a] = Null
  <1>1. ASSUME DialogInv
        PROVE  Together
    <2>1. ASSUME NEW p \in Callers, Received(p, "removed"), ~op[p].missing
          PROVE  \/ \A a \in op[p].group : row'[a] = row[a]
                 \/ \A a \in op[p].group : row'[a] = Null
      <3>1. HandleRemoved(p, Head(replies).result)
        BY <1>1, <2>1, ReceivedResult
      <3>2. QED
        BY <1>1, <2>1, <3>1, RemovedRows
    <2>2. QED
      BY <2>1
  <1>2. DialogInv /\ [Next]_vars => [Together]_vars
    BY <1>1
  <1>3. QED
    BY <1>2, DialogInvariant, PTL DEF Spec, WholeGroupOrNone

(* syncAddresses: a login is left with the discovered addresses and with   *)
(* rows that are disabled because a profile still uses them.               *)
THEOREM SyncReconcilesHolds == Spec => SyncReconciles
  <1> DEFINE Reconciled(p) ==
        LET l == op[p].login
            as == Head(replies).result.addresses
        IN /\ as \subseteq GroupIn(row', l)
           /\ \A a \in GroupIn(row', l) \ as : row'[a].assigned /\ ~row'[a].enabled
  <1>1. ASSUME DialogInv, NEW p \in Callers, Received(p, "addresses")
        PROVE  Reconciled(p)
    <2> DEFINE l == op[p].login
               result == Head(replies).result
               as == result.addresses
    <2>1. /\ result \in Results /\ op[p].stage = "waiting" /\ op[p] \in Ops
          /\ op[p].kind = "sync" /\ HandleAddresses(p, result)
      BY <1>1, ReceivedResult
    <2>2. l \in Logins
      BY <1>1, <2>1 DEF DialogInv, CallsComplete, NamesLogin, Ops
    <2>3. /\ as \subseteq Addresses
          /\ \A a \in Addresses :
               /\ a \in as => row'[a] # Null /\ row'[a].login = l
               /\ a \in Group(l) \ as =>
                    IF row[a].assigned
                      THEN row'[a] = [row[a] EXCEPT !.enabled = FALSE] /\ row'[a] # Null
                      ELSE row'[a] = Null
               /\ a \notin as \cup Group(l) => row'[a] = row[a]
      BY <1>1, <2>1, <2>2, SyncRows
    <2>4. as \subseteq GroupIn(row', l)
      BY <2>3 DEF GroupIn
    <2>5. ASSUME NEW a \in GroupIn(row', l) \ as
          PROVE  row'[a].assigned /\ ~row'[a].enabled
      <3>1. a \in Addresses /\ row'[a] # Null /\ row'[a].login = l
        BY DEF GroupIn
      <3>2. a \in Group(l)
        BY <2>3, <3>1 DEF Group, GroupIn
      <3>3. row[a].assigned /\ row'[a] = [row[a] EXCEPT !.enabled = FALSE]
        BY <2>3, <3>1, <3>2
      <3>4. row[a] \in [login : Logins, enabled : BOOLEAN, assigned : BOOLEAN]
        BY <1>1, <3>1, <3>2, OtherNow DEF Rows, Group, GroupIn
      <3>5. /\ [row[a] EXCEPT !.enabled = FALSE].assigned = row[a].assigned
            /\ [row[a] EXCEPT !.enabled = FALSE].enabled = FALSE
        BY <3>4
      <3>6. QED
        BY <3>3, <3>5
    <2>6. QED
      BY <2>4, <2>5
  <1>2. DialogInv /\ [Next]_vars =>
          [\A p \in Callers : Received(p, "addresses") => Reconciled(p)]_vars
    <2> HIDE DEF Reconciled
    <2>1. QED
      BY <1>1
  <1>3. QED
    BY <1>2, DialogInvariant, PTL DEF Spec, SyncReconciles

-------------------------------------------------------------------------------
(* Calls that wait. *)

LEMMA LinesHead ==
  ASSUME NEW T, NEW s \in Seq(T), s # <<>>
  PROVE  \A r \in Lines(s) : r = Head(s) \/ r \in Lines(Tail(s))
  <1>1. /\ Len(s) \in Nat \ {0} /\ DOMAIN s = 1 .. Len(s) /\ Head(s) = s[1]
        /\ DOMAIN Tail(s) = 1 .. (Len(s) - 1)
        /\ \A i \in 1 .. (Len(s) - 1) : Tail(s)[i] = s[i + 1]
    BY HeadTailProperties
  <1>2. ASSUME NEW i \in DOMAIN s
        PROVE  s[i] = Head(s) \/ s[i] \in Lines(Tail(s))
    <2>1. CASE i = 1
      BY <1>1, <2>1
    <2>2. CASE i # 1
      <3>1. i - 1 \in DOMAIN Tail(s) /\ Tail(s)[i - 1] = s[i]
        BY <1>1, <2>2
      <3>2. QED
        BY <3>1 DEF Lines
    <2>3. QED
      BY <2>1, <2>2
  <1>3. QED
    BY <1>2 DEF Lines

(* What onLine reads and what main reads names calls, or nobody.           *)
LEMMA LineCallers ==
  ASSUME DialogInv
  PROVE  /\ \A r \in Lines(requests) : r \in Request /\ r.caller \in Callers \cup {Null}
         /\ \A r \in Lines(replies) : r \in Reply /\ r.caller \in Callers \cup {Null}
  <1>1. /\ \A r \in Lines(requests) : r \in Request
        /\ \A r \in Lines(replies) : r \in Reply
    BY DEF DialogInv, TypeOK, CliTypeOK, Lines
  <1>2. QED
    BY <1>1 DEF Request, Reply

Line(p) == \E r \in Lines(requests) \cup Lines(replies) : r.caller = p

(* A step that writes no line and lets the calls that still wait keep      *)
(* theirs.                                                                 *)
LEMMA KeepingStep ==
  ASSUME DialogInv, DialogInv', ProceedInv,
         Rest(Lines(requests'), Lines(requests)), Rest(Lines(replies'), Lines(replies)),
         \A q \in Callers : op'[q].stage = "waiting" =>
           /\ op[q].stage = "waiting" /\ op'[q].kind = op[q].kind
           /\ child => child'
           /\ Line(q) => Line(q)'
  PROVE  ProceedInv'
  <1>1. ASSUME NEW q \in Waiting'
        PROVE  child' /\ Line(q)'
    <2>1. q \in Callers /\ op'[q].stage = "waiting"
      BY DEF Waiting
    <2>2. q \in Waiting
      BY <2>1 DEF Waiting
    <2>3. child /\ Line(q)
      BY <2>2 DEF ProceedInv, CallsProceed, Line
    <2>4. QED
      BY <2>1, <2>3
  <1>2. ASSUME NEW x \in Lines(replies'), x.caller # Null
        PROVE  x.result.state \in {"error"} \cup Outcomes(op'[x.caller].kind)
    <2>1. x \in Lines(replies)
      BY <1>2, LineCallers DEF Rest, Reply
    <2>2. x.caller \in Callers /\ op'[x.caller].stage = "waiting"
      BY <1>2, <2>1, LineCallers DEF DialogInv, LinesOwned
    <2>3. op'[x.caller].kind = op[x.caller].kind
      BY <2>2
    <2>4. QED
      BY <1>2, <2>1, <2>3 DEF ProceedInv, CallsProceed
  <1>3. ASSUME NEW x \in Lines(requests'), x.caller # Null
        PROVE  x.action = Action(op'[x.caller].kind)
    <2>1. x \in Lines(requests)
      BY <1>3, LineCallers DEF Rest, Request
    <2>2. x.caller \in Callers /\ op'[x.caller].stage = "waiting"
      BY <1>3, <2>1, LineCallers DEF DialogInv, LinesOwned
    <2>3. op'[x.caller].kind = op[x.caller].kind
      BY <2>2
    <2>4. QED
      BY <1>3, <2>1, <2>3 DEF ProceedInv, ActionsFit
  <1>4. CallsProceed'
    BY <1>1, <1>2 DEF CallsProceed, Line
  <1>5. ActionsFit'
    BY <1>3 DEF ActionsFit
  <1>6. QED
    BY <1>4, <1>5 DEF ProceedInv

(* A handler up to its first await, an upstream change: no line.           *)
LEMMA QuietKeeps ==
  ASSUME DialogInv, DialogInv', ProceedInv, UNCHANGED <<requests, replies>>, child => child',
         \A q \in Callers : op'[q].stage = "waiting" => Unchanged(q)
  PROVE  ProceedInv'
  <1>1. Rest(Lines(requests'), Lines(requests)) /\ Rest(Lines(replies'), Lines(replies))
    BY RestSame
  <1>2. \A q : Line(q) => Line(q)'
    BY DEF Line
  <1>3. QED
    BY <1>1, <1>2, KeepingStep DEF Unchanged

LEMMA AdminProceeds ==
  ASSUME DialogInv, DialogInv', ProceedInv, Admin
  PROVE  ProceedInv'
  <1>1. UNCHANGED cliVars
    BY DEF Admin
  <1>2. ASSUME NEW p \in Callers, NEW kind, NEW l, NEW id, NEW group, Ask(p, kind, l, id, group)
        PROVE  \A q \in Callers : op'[q].stage = "waiting" => Unchanged(q)
    BY <1>2, OtherNow DEF Ask, OpsOf, Unchanged
  <1>3. ASSUME op' = op
        PROVE  \A q \in Callers : op'[q].stage = "waiting" => Unchanged(q)
    BY <1>3 DEF Unchanged
  <1>4. ASSUME NEW p \in Admins, Begin(p)
        PROVE  /\ child' = child
               /\ \A q \in Callers : op'[q].stage = "waiting" => Unchanged(q)
    <2>1. p \in Callers
      BY CallersAssumption DEF CallersAssumption
    <2>2. ASSUME NEW a \in Addresses, BeginDisconnect(p, a)
          PROVE  /\ child' = child
                 /\ \A q \in Callers : op'[q].stage = "waiting" => Unchanged(q)
      <3>1. CASE Ask(p, "disconnect", a, Null, Group(a))
        BY <1>2, <2>1, <2>2, <3>1 DEF BeginDisconnect, mgrVars
      <3>2. CASE op' = Forget(op, {a})
        BY <2>2, <3>2, Forgetting, OtherNow DEF BeginDisconnect, mgrVars, Unchanged
      <3>3. QED
        BY <2>2, <3>1, <3>2 DEF BeginDisconnect
    <2>3. ASSUME NEW l \in Logins, BeginConnect(p, l)
          PROVE  /\ child' = child
                 /\ \A q \in Callers : op'[q].stage = "waiting" => Unchanged(q)
      BY <1>2, <2>1, <2>3 DEF BeginConnect
    <2>4. ASSUME NEW c \in Challenges, BeginContinue(p, c) \/ BeginAbort(p, c)
          PROVE  /\ child' = child
                 /\ \A q \in Callers : op'[q].stage = "waiting" => Unchanged(q)
      <3>1. /\ child' = child
            /\ \/ op' = op
               \/ Ask(p, "challenge", setups[c], c, {}) \/ Ask(p, "abort", Null, c, {})
        BY <2>4 DEF BeginContinue, BeginAbort
      <3>2. QED
        BY <1>2, <1>3, <2>1, <3>1
    <2>5. CASE BeginStatus(p)
      <3>1. child' = child /\ (op' = op \/ Ask(p, "status", Null, Null, {}))
        BY <2>5 DEF BeginStatus
      <3>2. QED
        BY <1>2, <1>3, <2>1, <3>1
    <2>6. ASSUME NEW a \in Addresses, BeginSync(p, a)
          PROVE  /\ child' = child
                 /\ \A q \in Callers : op'[q].stage = "waiting" => Unchanged(q)
      BY <1>2, <2>1, <2>6 DEF BeginSync, mgrVars
    <2>7. QED
      BY <1>4, <2>2, <2>3, <2>4, <2>5, <2>6 DEF Begin
  <1>5. ASSUME NEW a \in Addresses, NEW value \in BOOLEAN, SetAssigned(a, value)
        PROVE  child' = child /\ op' = op
    BY <1>5 DEF SetAssigned, mgrVars
  <1>6. /\ child' = child
        /\ \A q \in Callers : op'[q].stage = "waiting" => Unchanged(q)
    BY <1>3, <1>4, <1>5 DEF Admin
  <1>7. UNCHANGED <<requests, replies>>
    BY <1>1 DEF cliVars
  <1>8. QED
    BY <1>6, <1>7, QuietKeeps

(* Calls that fail wait no more, the others wait as before.                *)
LEMMA FailKeeps ==
  ASSUME DialogInv, NEW ps, Fail(ps)
  PROVE  \A q \in Callers : op'[q].stage = "waiting" => Unchanged(q) /\ q \notin ps
  <1>1. \A q \in Callers : op'[q] = IF q \in ps THEN Idle ELSE op[q]
    BY DEF Fail
  <1>2. QED
    BY <1>1, IdleTyped DEF Unchanged

LEMMA StartFailsProceeds ==
  ASSUME DialogInv, DialogInv', ProceedInv, StartFails
  PROVE  ProceedInv'
  <1>1. Fail(Starting) /\ UNCHANGED <<child, requests, replies>>
    BY DEF StartFails, cliVars
  <1>2. QED
    BY <1>1, FailKeeps, QuietKeeps

LEMMA EnvironmentProceeds ==
  ASSUME DialogInv, DialogInv', ProceedInv, Environment
  PROVE  ProceedInv'
  <1>1. UNCHANGED <<child, requests, replies, op>>
    BY DEF Environment, UpstreamChanges, Lapse, mgrVars
  <1>2. \A q \in Callers : Unchanged(q)
    BY <1>1 DEF Unchanged
  <1>3. QED
    BY <1>1, <1>2, QuietKeeps

(* With the process go the lines and the calls that waited for it.         *)
LEMMA GoneProceeds ==
  ASSUME DialogInv, DialogInv', ProceedInv, ChildExits \/ Restart
  PROVE  ProceedInv'
  <1>1. requests' = <<>> /\ replies' = <<>>
    BY DEF ChildExits, Restart
  <1>2. \A q \in Callers : op'[q].stage # "waiting"
    <2>1. CASE ChildExits
      <3>1. Fail(Waiting)
        BY <2>1 DEF ChildExits
      <3>2. \A q \in Callers : op'[q].stage = "waiting" => Unchanged(q) /\ q \notin Waiting
        BY <3>1, FailKeeps
      <3>3. QED
        BY <3>2 DEF Waiting, Unchanged
    <2>2. CASE Restart
      BY <2>2 DEF Restart, BootOf, Idle
    <2>3. QED
      BY <2>1, <2>2
  <1>3. Rest(Lines(requests'), Lines(requests)) /\ Rest(Lines(replies'), Lines(replies))
    BY <1>1, LinesGone
  <1>4. QED
    BY <1>2, <1>3, KeepingStep

(* A call that is given up takes no other call's line with it.             *)
LEMMA TimeoutProceeds ==
  ASSUME DialogInv, DialogInv', ProceedInv, NEW p \in Callers, Timeout(p)
  PROVE  ProceedInv'
  <1>1. /\ requests' = Orphan(requests, p) /\ replies' = Orphan(replies, p)
        /\ Fail({p}) /\ child' = child
    BY DEF Timeout
  <1>2. /\ Rest(Lines(requests'), Lines(requests))
        /\ Rest(Lines(replies'), Lines(replies))
    BY <1>1, OrphanRequests, OrphanReplies
  <1>3. ASSUME NEW s, NEW r \in Lines(s), r.caller # p
        PROVE  r \in Lines(Orphan(s, p))
    BY <1>3 DEF Lines, Orphan
  <1>4. \A q \in Callers : q # p /\ Line(q) => Line(q)'
    BY <1>1, <1>3 DEF Line
  <1>5. \A q \in Callers : op'[q].stage = "waiting" => Unchanged(q) /\ q # p
    BY <1>1, FailKeeps
  <1>6. QED
    BY <1>1, <1>2, <1>4, <1>5, KeepingStep DEF Unchanged

(* The call that gets its answer ends, whatever the answer is.             *)
LEMMA ReceiveEnds ==
  ASSUME DialogInv, Receive
  PROVE  \A q \in Callers :
           op'[q].stage = "waiting" => Unchanged(q) /\ q # Head(replies).caller
  <1> DEFINE p == Head(replies).caller
             result == Head(replies).result
  <1>1. Head(replies) \in Reply
    BY ReplyOwned DEF Receive
  <1>2. p \in Callers \cup {Null}
    BY <1>1 DEF Reply
  <1>3. CASE p = Null
    <2>1. op' = op
      BY <1>3 DEF Receive
    <2>2. QED
      BY <1>3, <2>1, NullApart DEF Unchanged
  <1>4. ASSUME p # Null, NEW gone \in SUBSET Addresses, op' = Forget(Done(p), gone)
        PROVE  \A q \in Callers : op'[q].stage = "waiting" => Unchanged(q) /\ q # p
    <2>1. Done(p) \in OpsOf
      BY OtherNow, IdleTyped DEF Done, OpsOf
    <2>2. /\ \A q \in Callers : /\ op'[q].stage = Done(p)[q].stage
                                /\ op'[q].kind = Done(p)[q].kind
                                /\ op'[q].login = Done(p)[q].login
                                /\ op'[q].id = Done(p)[q].id
      BY <1>4, <2>1, Forgetting
    <2>3. \A q \in Callers : Done(p)[q] = IF q = p THEN Idle ELSE op[q]
      BY OtherNow DEF Done, OpsOf
    <2>4. QED
      BY <2>2, <2>3, IdleTyped DEF Unchanged
  <1>5. CASE p # Null
    <2>1. p \in Callers /\ op[p].kind \in Kinds /\ op[p].group \in SUBSET Addresses
      BY <1>2, <1>5, OtherNow DEF OpsOf, Ops
    <2>2. \/ Fail({p})
          \/ HandleSetup(p, result)
          \/ HandleStatus(p, result)
          \/ HandleAbort(p, result)
          \/ HandleRemoved(p, result)
          \/ HandleAddresses(p, result)
      BY <1>5, <2>1 DEF Receive, Kinds
    <2>3. CASE Fail({p})
      BY <2>3, FailKeeps
    <2>4. CASE op' = Done(p)
      BY <2>4, OtherNow, IdleTyped DEF Done, OpsOf, Unchanged
    <2>5. CASE HandleRemoved(p, result)
      <3>1. PICK gone \in Deleted(p) : op' = Forget(Done(p), gone)
        BY <2>5 DEF HandleRemoved
      <3>2. gone \in SUBSET Addresses
        BY <2>1, <3>1 DEF Deleted
      <3>3. QED
        BY <1>4, <1>5, <3>1, <3>2
    <2>6. CASE HandleAddresses(p, result)
      <3>1. op' = Forget(Done(p), Deletable(Stale(op[p].login, result.addresses)))
        BY <2>6 DEF HandleAddresses
      <3>2. Deletable(Stale(op[p].login, result.addresses)) \in SUBSET Addresses
        BY DEF Deletable, Stale, Group, GroupIn
      <3>3. QED
        BY <1>4, <1>5, <3>1, <3>2
    <2>7. HandleSetup(p, result) \/ HandleStatus(p, result) \/ HandleAbort(p, result)
            => op' = Done(p)
      BY DEF HandleSetup, HandleStatus, HandleAbort
    <2>8. QED
      BY <2>2, <2>3, <2>4, <2>5, <2>6, <2>7
  <1>6. QED
    BY <1>3, <1>5

LEMMA ReceiveProceeds ==
  ASSUME DialogInv, DialogInv', ProceedInv, Receive
  PROVE  ProceedInv'
  <1>1. /\ replies # <<>> /\ replies' = Tail(replies) /\ requests' = requests
        /\ child' = child
    BY DEF Receive
  <1>2. /\ Rest(Lines(replies'), Lines(replies))
        /\ Rest(Lines(requests'), Lines(requests))
    BY <1>1, ReplyOwned
  <1>3. \A r \in Lines(replies) : r = Head(replies) \/ r \in Lines(replies')
    BY <1>1, OtherNow, LinesHead
  <1>4. \A q \in Callers : q # Head(replies).caller /\ Line(q) => Line(q)'
    BY <1>1, <1>3 DEF Line
  <1>5. QED
    BY <1>1, <1>2, <1>4, ReceiveEnds, KeepingStep DEF Unchanged

(* One line in, one line out, for the same call.                           *)
LEMMA AnsweringProceeds ==
  ASSUME DialogInv, DialogInv', ProceedInv, requests # <<>>, UNCHANGED <<op, child>>,
         NEW result \in Results, Answer(result),
         Head(requests).caller # Null =>
           result.state \in {"error"} \cup Outcomes(op[Head(requests).caller].kind)
  PROVE  ProceedInv'
  <1> DEFINE line == [caller |-> Head(requests).caller, result |-> result]
  <1>1. /\ Lines(requests') \subseteq Lines(requests)
        /\ Lines(replies') = Lines(replies) \cup {line}
    BY Answering
  <1>2. \A r \in Lines(requests) : r = Head(requests) \/ r \in Lines(requests')
    BY OtherNow, LinesHead DEF Answer
  <1>3. \A q \in Callers : Line(q) => Line(q)'
    <2>1. line \in Lines(replies') /\ line.caller = Head(requests).caller
      BY <1>1
    <2>2. QED
      BY <1>1, <1>2, <2>1 DEF Line
  <1>4. CallsProceed'
    <2>1. \A q \in Waiting' : child' /\ Line(q)'
      BY <1>3 DEF ProceedInv, CallsProceed, Line, Waiting
    <2>2. ASSUME NEW r \in Lines(replies'), r.caller # Null
          PROVE  r.result.state \in {"error"} \cup Outcomes(op'[r.caller].kind)
      <3>1. CASE r = line
        BY <2>2, <3>1
      <3>2. CASE r \in Lines(replies)
        BY <2>2, <3>2 DEF ProceedInv, CallsProceed
      <3>3. QED
        BY <1>1, <3>1, <3>2
    <2>3. QED
      BY <2>1, <2>2 DEF CallsProceed, Line
  <1>5. ActionsFit'
    BY <1>1 DEF ProceedInv, ActionsFit
  <1>6. QED
    BY <1>4, <1>5 DEF ProceedInv

(* What the process may answer to a line.                                  *)
Answers(action) ==
  CASE action \in {"connect", "challenge"} -> {"challenge_required", "connected"}
    [] action = "status" -> {"ready"}
    [] action = "abort" -> {"aborted"}
    [] action = "remove" -> {"removed"}
    [] action = "addresses" -> {"addresses"}

LEMMA ServeAnswers ==
  ASSUME DialogInv, Python
  PROVE  /\ requests # <<>> /\ UNCHANGED <<op, child>>
         /\ \E result \in Results :
              /\ Answer(result)
              /\ result.state \in {"error"} \cup Answers(Head(requests).action)
  <1> DEFINE request == Head(requests)
             Fits(result) == result.state \in {"error"} \cup Answers(request.action)
             Goal == \E result \in Results : Answer(result) /\ Fits(result)
  <1>1. requests # <<>> /\ UNCHANGED <<op, child>>
    BY DEF Python, Serve, Status, Connect, ChallengeAnswered, Abort, Remove,
       DiscoverAddresses, Taking, mgrVars
  <1>2. request \in Request
    BY <1>1, LinesTail, OtherNow
  <1>3. request \in Lines(requests)
    BY <1>1, LinesTail, OtherNow
  <1>4. request.action \in {"connect", "challenge", "remove", "addresses"}
          => request.login \in Logins
    BY <1>2, <1>3 DEF DialogInv, CallsComplete, Request
  <1>0. \A result \in Results : Answer(result) /\ Fits(result) => Goal
    OBVIOUS
  <1> HIDE DEF Goal, Fits
  <1> SUFFICES Goal
    BY <1>1 DEF Goal, Fits
  <1>5. ASSUME Answer(Failed)
        PROVE  Goal
    <2>1. Failed \in Results /\ Fits(Failed)
      BY DEF Results, Failed, Fits
    <2>2. QED
      BY <1>0, <1>5, <2>1
  <1>6. Refuse \/ NotReached => Goal
    BY <1>5 DEF Refuse, NotReached
  <1>7. \A done : Stall(done) => Goal
    BY <1>5 DEF Stall
  <1>8. ASSUME NEW result \in Results, Fits(result), RestartThen(result)
        PROVE  Goal
    BY <1>0, <1>5, <1>8 DEF RestartThen
  <1>9. ASSUME NEW l \in Logins, AdvanceLogin(l), request.action \in {"connect", "challenge"}
        PROVE  Goal
    <2>1. /\ \A c : Fits(Challenge(c))
          /\ \A m : Fits(Connected(m))
      BY <1>9 DEF Answers, Fits, Challenge, Connected
    <2>2. CASE AskCredential(l)
      <3>1. Answer(Challenge(issued + 1)) /\ issued + 1 \in Challenges
        BY <2>2, CliTyped, CountsAssumption DEF AskCredential, Challenges, CountsAssumption
      <3>2. Challenge(issued + 1) \in Results
        BY <3>1 DEF Results
      <3>3. QED
        BY <1>0, <2>1, <3>1, <3>2
    <2>3. CASE LoggedIn(l)
      <3>1. Answer(Connected(l)) \/ Answer(Failed)
        BY <2>3 DEF LoggedIn
      <3>2. Connected(l) \in Results
        BY DEF Results
      <3>3. QED
        BY <1>0, <1>5, <2>1, <3>1, <3>2
    <2>4. CASE LoginRejected(l) \/ LoginStalls(l)
      BY <1>5, <2>4 DEF LoginRejected, LoginStalls
    <2>5. QED
      BY <1>9, <2>2, <2>3, <2>4 DEF AdvanceLogin
  <1>10. CASE Status
    <2>1. Ready(FALSE) \in Results /\ Ready(AnyConnected) \in Results
      BY DEF Results, AnyConnected
    <2>2. Fits(Ready(FALSE)) /\ Fits(Ready(AnyConnected))
      BY <1>10 DEF Status, Taking, Answers, Ready, Fits
    <2>3. QED
      BY <1>0, <1>6, <1>7, <1>8, <1>10, <2>1, <2>2 DEF Status
  <1>11. CASE Connect
    <2>1. request.action \in {"connect", "challenge"} /\ request.login \in Logins
      BY <1>4, <1>11 DEF Connect, Taking
    <2>2. AdvanceLogin(request.login) \/ Refuse \/ NotReached \/ Stall(vault)
      BY <1>11 DEF Connect
    <2>3. QED
      BY <1>6, <1>7, <1>9, <2>1, <2>2
  <1>12. CASE ChallengeAnswered
    <2>1. request.action \in {"connect", "challenge"}
      BY <1>12 DEF ChallengeAnswered, Taking
    <2>2. \/ Refuse \/ RestartThen(Failed)
          \/ Current(request.id) /\ AdvanceLogin(cli.pending.login)
      BY <1>12 DEF ChallengeAnswered
    <2>3. RestartThen(Failed) => Goal
      BY <1>5 DEF RestartThen
    <2>4. Current(request.id) => cli.pending.login \in Logins
      BY CliTyped DEF Current, Clis
    <2>5. QED
      BY <1>6, <1>9, <2>1, <2>2, <2>3, <2>4
  <1>13. CASE Abort
    <2>1. RestartThen(Aborted) \/ Answer(Aborted)
      BY <1>13 DEF Abort
    <2>2. Aborted \in Results /\ Fits(Aborted)
      BY <1>13 DEF Abort, Taking, Answers, Aborted, Results, Fits
    <2>3. QED
      BY <1>0, <1>8, <2>1, <2>2
  <1>14. CASE Remove
    <2>1. Answer(Removed) \/ Refuse \/ NotReached \/ Stall(SignOut(request.login))
      BY <1>14 DEF Remove
    <2>2. Removed \in Results /\ Fits(Removed)
      BY <1>14 DEF Remove, Taking, Answers, Removed, Results, Fits
    <2>3. QED
      BY <1>0, <1>6, <1>7, <2>1, <2>2
  <1>15. CASE DiscoverAddresses
    <2>1. \/ Refuse \/ NotReached \/ Stall(vault)
          \/ \E m \in BridgeAccount(request.login) : Answer(Discovered(aliases[m]))
      BY <1>15 DEF DiscoverAddresses
    <2>2. ASSUME NEW m \in BridgeAccount(request.login), Answer(Discovered(aliases[m]))
          PROVE  Goal
      <3>1. m \in Logins
        BY <1>4, <1>15 DEF BridgeAccount, DiscoverAddresses, Taking
      <3>2. aliases[m] \in SUBSET Addresses
        BY <3>1 DEF DialogInv, TypeOK, CliTypeOK
      <3>3. Discovered(aliases[m]) \in Results
        BY <3>2 DEF Results
      <3>4. Fits(Discovered(aliases[m]))
        BY <1>15 DEF DiscoverAddresses, Taking, Answers, Discovered, Fits
      <3>5. QED
        BY <1>0, <2>2, <3>3, <3>4
    <2>3. QED
      BY <1>6, <1>7, <2>1, <2>2
  <1>16. QED
    BY <1>10, <1>11, <1>12, <1>13, <1>14, <1>15 DEF Python, Serve

LEMMA PythonProceeds ==
  ASSUME DialogInv, DialogInv', ProceedInv, Python
  PROVE  ProceedInv'
  <1>1. requests # <<>> /\ UNCHANGED <<op, child>>
    BY ServeAnswers
  <1>2. PICK result \in Results :
          Answer(result) /\ result.state \in {"error"} \cup Answers(Head(requests).action)
    BY ServeAnswers
  <1>3. Head(requests) \in Lines(requests)
    BY <1>1, LinesTail, OtherNow
  <1>4. \A kind \in Kinds : Answers(Action(kind)) = Outcomes(kind)
    BY DEF Kinds, Answers, Action, Outcomes
  <1>5. ASSUME Head(requests).caller # Null
        PROVE  result.state \in {"error"} \cup Outcomes(op[Head(requests).caller].kind)
    <2>1. Head(requests).caller \in Callers
      BY <1>3, <1>5, LineCallers
    <2>2. op[Head(requests).caller].kind \in Kinds
      BY <2>1, OtherNow DEF OpsOf, Ops
    <2>3. Head(requests).action = Action(op[Head(requests).caller].kind)
      BY <1>3, <1>5 DEF ProceedInv, ActionsFit
    <2>4. QED
      BY <1>2, <1>4, <2>2, <2>3
  <1>6. QED
    BY <1>1, <1>2, <1>5, AnsweringProceeds

(* A call that begins to wait has written its line to a process that runs. *)
LEMMA DispatchProceeds ==
  ASSUME DialogInv, DialogInv', ProceedInv, NEW p \in Callers, Dispatch(p)
  PROVE  ProceedInv'
  <1> DEFINE line == [caller |-> p, action |-> Action(op[p].kind),
                      login |-> op[p].login, id |-> op[p].id]
  <1>1. /\ op[p].stage = "starting" /\ child' = TRUE
        /\ requests' = Append(requests, line) /\ replies' = replies
        /\ op' = [op EXCEPT ![p].stage = "waiting"]
    BY DEF Dispatch
  <1>2. /\ \A q \in Callers \ {p} : op'[q] = op[q]
        /\ op'[p].kind = op[p].kind /\ op[p] \in Ops
    BY <1>1, OtherNow DEF OpsOf, Ops
  <1>3. line \in Request
    <2>1. \A kind \in Kinds : Action(kind) \in Actions
      BY DEF Kinds, Action, Actions
    <2>2. QED
      BY <1>2, <2>1 DEF Ops, Request
  <1>4. Lines(requests') = Lines(requests) \cup {line}
    <2> HIDE DEF line
    <2>1. QED
      BY <1>1, <1>3, OtherNow, LinesAppend
  <1>5. \A r \in Lines(requests) \cup Lines(replies) : r.caller # p
    BY <1>1, NotWaiting
  <1>6. CallsProceed'
    <2>1. ASSUME NEW q \in Waiting'
          PROVE  child' /\ Line(q)'
      <3>1. CASE q = p
        BY <1>1, <1>4, <3>1 DEF Line
      <3>2. CASE q # p
        <4>1. q \in Waiting
          BY <1>2, <3>2 DEF Waiting
        <4>2. Line(q)
          BY <4>1 DEF ProceedInv, CallsProceed, Line
        <4>3. QED
          BY <1>1, <1>4, <4>2 DEF Line
      <3>3. QED
        BY <3>1, <3>2
    <2>2. ASSUME NEW r \in Lines(replies'), r.caller # Null
          PROVE  r.result.state \in {"error"} \cup Outcomes(op'[r.caller].kind)
      <3>1. r \in Lines(replies) /\ r.caller \in Callers \ {p}
        BY <1>1, <1>5, <2>2, LineCallers
      <3>2. QED
        BY <1>2, <2>2, <3>1 DEF ProceedInv, CallsProceed
    <2>3. QED
      BY <2>1, <2>2 DEF CallsProceed, Line
  <1>7. ActionsFit'
    <2>1. ASSUME NEW r \in Lines(requests'), r.caller # Null
          PROVE  r.action = Action(op'[r.caller].kind)
      <3>1. CASE r = line
        BY <1>2, <3>1
      <3>2. CASE r \in Lines(requests)
        <4>1. r.caller \in Callers \ {p}
          BY <1>5, <2>1, <3>2, LineCallers
        <4>2. QED
          BY <1>2, <2>1, <3>2, <4>1 DEF ProceedInv, ActionsFit
      <3>3. QED
        BY <1>4, <3>1, <3>2
    <2>2. QED
      BY <2>1 DEF ActionsFit
  <1>8. QED
    BY <1>6, <1>7 DEF ProceedInv

LEMMA ProceedInit == Init => ProceedInv
  <1> SUFFICES ASSUME Init
               PROVE  ProceedInv
    OBVIOUS
  <1>1. requests = <<>> /\ replies = <<>>
    BY DEF Init, CliInit
  <1>2. \A p \in Callers : op[p].stage # "waiting"
    BY DEF Init, BootOf, Idle
  <1>3. QED
    BY <1>1, <1>2, LinesEmpty DEF ProceedInv, CallsProceed, ActionsFit, Waiting

LEMMA ProceedNext == DialogInv /\ DialogInv' /\ ProceedInv /\ [Next]_vars => ProceedInv'
  <1> SUFFICES ASSUME DialogInv, DialogInv', ProceedInv, [Next]_vars
               PROVE  ProceedInv'
    OBVIOUS
  <1>1. CASE Link
    <2>1. ASSUME NEW p \in Callers, Dispatch(p) \/ Timeout(p)
          PROVE  ProceedInv'
      BY <2>1, DispatchProceeds, TimeoutProceeds
    <2>2. QED
      BY <1>1, <2>1, StartFailsProceeds, ReceiveProceeds, GoneProceeds DEF Link
  <1>2. CASE UNCHANGED vars
    <2>1. UNCHANGED <<requests, replies, op, child>>
      BY <1>2 DEF vars, cliVars, mgrVars
    <2>2. \A q \in Callers : Unchanged(q)
      BY <2>1 DEF Unchanged
    <2>3. QED
      BY <2>1, <2>2, QuietKeeps
  <1>3. QED
    BY <1>1, <1>2, AdminProceeds, PythonProceeds, EnvironmentProceeds, GoneProceeds DEF Next

(* ProtonBridgeController keeps each pending call and its line together: a *)
(* line asks for what its call is about, so the answer is one the call's   *)
(* handler takes.                                                          *)
THEOREM ProceedInvariant == Spec => []ProceedInv
  BY ProceedInit, ProceedNext, DialogInvariant, PTL DEF Spec

(* Through timeouts, late answers, exits and restarts no call is left to   *)
(* wait without a running process that has, or has answered, its line.     *)
THEOREM CallsProceedHolds == Spec => []CallsProceed
  <1>1. ProceedInv => CallsProceed
    BY DEF ProceedInv
  <1>2. QED
    BY <1>1, ProceedInvariant, PTL
===============================================================================
