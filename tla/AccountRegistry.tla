--------------------------- MODULE AccountRegistry ---------------------------
(***************************************************************************)
(* The account rows of slab-email and what is read from them across an     *)
(* await: AccountService of src/src/services/account-service.ts over       *)
(* email_accounts, email_account_secrets, access_profile_accounts,         *)
(* oauth_states and provider_credentials.                                  *)
(*                                                                         *)
(* A row is reduced to what its readers tell apart: the kind of provider,  *)
(* the inbound endpoint (the INBOUND_CONFIG_KEYS), the credential, and the *)
(* columns enabled, generation and last_connection_status.  An endpoint    *)
(* has an origin, the server its credential is shown to; a credential was  *)
(* issued by one origin.                                                   *)
(***************************************************************************)
EXTENDS Naturals, FiniteSets

CONSTANTS
  Ids,         \* account ids (randomUUID: an id is given to one row only)
  ApiKinds,       \* providers with an API key: agentmail, resend
  OAuthProviders, \* gmail, microsoft_graph
  OtherKinds,     \* providers with a mailbox password: imap_smtp, proton_bridge
  Origins,     \* servers
  Boxes,       \* mailboxes of a server
  Readers,     \* provider snapshots, connection tests and OAuth callbacks under way
  States,      \* OAuth states (random, never reused)
  Null,
  MaxEdits,    \* bound: administrator's edits in a behaviour
  MaxIssued    \* bound: credentials issued in a behaviour

ASSUME ConstantsAssumption ==
  /\ Origins # {} /\ Boxes # {}
  /\ Null \notin Ids \cup States
  /\ MaxEdits \in Nat /\ MaxIssued \in Nat

Endpoints == [origin : Origins, box : Boxes]
Secrets == [origin : Origins, n : 1 .. MaxIssued]
Kinds == OtherKinds \cup ApiKinds \cup OAuthProviders

VARIABLES
  account,    \* the row of each id, or Null
  used,       \* the ids given out
  assigned,   \* the accounts some access profile names
  oauth,      \* oauth_states: the row of each state, or Null
  made,       \* the OAuth states ever issued
  client,     \* where each provider's OAuth credentials come from
  reader,     \* what each reader read, and what it waits for
  connected,  \* history: the account ids each OAuth state has brought in
  issued,     \* credentials issued so far
  edits

vars == <<account, used, assigned, oauth, made, client, reader, connected, issued, edits>>

Row == [kind : Kinds, inbound : Endpoints, secret : Secrets,
        enabled : BOOLEAN, generation : 1 .. MaxEdits + 1,
        status : {"none", "ok", "error"}]
ASSUME NullAssumption == Null \notin Row
Clients == [OAuthProviders -> {"missing", "environment", "stored"}]
Nobody == [stage |-> "idle"]
Using == [stage : {"snapshot", "test"}, id : Ids, generation : 1 .. MaxEdits + 1,
          inbound : Endpoints, secret : Secrets]
Exchanging == [stage : {"exchange"}, state : States, provider : OAuthProviders]

TypeOK ==
  /\ account \in [Ids -> Row \cup {Null}]
  /\ used \subseteq Ids
  /\ assigned \subseteq Ids
  /\ oauth \in [States -> [provider : OAuthProviders, expired : BOOLEAN] \cup {Null}]
  /\ made \subseteq States
  /\ client \in Clients
  /\ reader \in [Readers -> Using \cup Exchanging \cup {Nobody}]
  /\ connected \in [States -> SUBSET Ids]
  /\ issued \in 0 .. MaxIssued
  /\ edits \in 0 .. MaxEdits

Init ==
  /\ account = [i \in Ids |-> Null]
  /\ used = {} /\ assigned = {}
  /\ oauth = [s \in States |-> Null] /\ made = {}
  /\ client \in Clients /\ \A p \in OAuthProviders : client[p] # "stored"
  /\ reader = [r \in Readers |-> Nobody]
  /\ connected = [s \in States |-> {}]
  /\ issued = 0 /\ edits = 0

Present == {i \in Ids : account[i] # Null}

Edit == edits < MaxEdits /\ edits' = edits + 1

(* The credential an administrator gives with an endpoint, or a provider's *)
(* token endpoint returns, is one of this origin.                          *)
Issue(origin) == [origin |-> origin, n |-> issued + 1]
MayIssue == issued < MaxIssued /\ issued' = issued + 1

(* Mutant: the column's default is missing.                                *)
NewRowUncounted(kind, endpoint, secret) ==
  [kind |-> kind, inbound |-> endpoint, secret |-> secret,
   enabled |-> TRUE, generation |-> 0, status |-> "none"]

NewRow(kind, endpoint, secret) ==
  [kind |-> kind, inbound |-> endpoint, secret |-> secret,
   enabled |-> TRUE, generation |-> 1, status |-> "none"]

-----------------------------------------------------------------------------
(* The rows.                                                               *)

(* createProtonBridgeAccount, createImapSmtpAccount, createAgentMailAccount *)
(* and createResendAccount.                                                *)
Create(i, kind, endpoint) ==
  /\ i \notin used /\ kind \notin OAuthProviders
  /\ MayIssue
  /\ used' = used \cup {i}
  /\ account' = [account EXCEPT ![i] = NewRow(kind, endpoint, Issue(endpoint.origin))]
  /\ UNCHANGED <<assigned, oauth, made, client, reader, connected, edits>>

(* Mutant: any edit may leave the API key as it is.                        *)
KeyOptional(row, endpoint, newSecret) == TRUE

(* updateAccount's first check: another origin needs another API key.      *)
KeyGoesAlong(row, endpoint, newSecret) ==
  row.kind \in ApiKinds /\ endpoint.origin # row.inbound.origin => newSecret

(* Mutant: a new credential does not count.                                *)
MovesByEndpoint(row, endpoint, secret) == endpoint # row.inbound

(* inboundConfigChanged or inboundSecretsChanged: what is read through     *)
(* this row may be another mailbox from now on.                            *)
MovesMailbox(row, endpoint, secret) == endpoint # row.inbound \/ secret # row.secret

(* updateAccount: the endpoint, the credential, or neither of them (the    *)
(* rest of the configuration); both are committed together, and the        *)
(* generation moves with them.                                             *)
Update(i, endpoint, newSecret) ==
  /\ i \in Present
  /\ Edit
  /\ KeyGoesAlong(account[i], endpoint, newSecret)
  /\ IF newSecret THEN MayIssue ELSE UNCHANGED issued
  /\ LET row == account[i]
         secret == IF newSecret THEN Issue(endpoint.origin) ELSE row.secret
     IN account' = [account EXCEPT ![i] =
          [row EXCEPT !.inbound = endpoint, !.secret = secret,
                      !.generation = IF MovesMailbox(row, endpoint, secret) THEN @ + 1 ELSE @]]
  /\ UNCHANGED <<used, assigned, oauth, made, client, reader, connected>>

(* setAccountEnabled moves the generation when it changes something.       *)
SetEnabled(i, value) ==
  /\ i \in Present /\ account[i].enabled # value
  /\ Edit
  /\ account' = [account EXCEPT ![i].enabled = value, ![i].generation = @ + 1]
  /\ UNCHANGED <<used, assigned, oauth, made, client, reader, connected, issued>>

(* deleteAccount refuses an account that a profile names.                  *)
Delete(i) ==
  /\ i \in Present \ assigned
  /\ account' = [account EXCEPT ![i] = Null]
  /\ UNCHANGED <<used, assigned, oauth, made, client, reader, connected, issued, edits>>

(* setProfileAccounts: the foreign key admits existing accounts only.      *)
SetAssigned(accounts) ==
  /\ accounts \subseteq Present /\ accounts # assigned
  /\ Edit
  /\ assigned' = accounts
  /\ UNCHANGED <<account, used, oauth, made, client, reader, connected, issued>>

-----------------------------------------------------------------------------
(* The readers that use a row after an await.                              *)
Remember(r, stage, i) ==
  reader' = [reader EXCEPT ![r] =
    [stage |-> stage, id |-> i, generation |-> account[i].generation,
     inbound |-> account[i].inbound, secret |-> account[i].secret]]

(* getInboundProviderSnapshot, and getProviderForAccount of the mail       *)
(* operations: configuration and credential are read in one piece.         *)
Snapshot(r, i) ==
  /\ reader[r] = Nobody /\ i \in Present
  /\ Remember(r, "snapshot", i)
  /\ UNCHANGED <<account, used, assigned, oauth, made, client, connected, issued, edits>>

BeginTest(r, i) ==
  /\ reader[r] = Nobody /\ i \in Present /\ account[i].enabled
  /\ Remember(r, "test", i)
  /\ UNCHANGED <<account, used, assigned, oauth, made, client, connected, issued, edits>>

(* Mutant: the row that was tested is written back with its verdict.       *)
RowWrittenBack(r, verdict) ==
  [account EXCEPT ![reader[r].id] =
     [NewRow(CHOOSE kind \in OtherKinds : TRUE, reader[r].inbound, reader[r].secret)
        EXCEPT !.status = verdict, !.generation = reader[r].generation]]

(* updateAccountConnectionStatus: the verdict goes to the row of this id,  *)
(* whatever the row holds now, and nowhere when it is gone.                *)
StatusWritten(r, verdict) ==
  [i \in Ids |-> IF i = reader[r].id /\ i \in Present
                   THEN [account[i] EXCEPT !.status = verdict] ELSE account[i]]

(* testAccount after verifyConnection.                                     *)
FinishTest(r, verdict) ==
  /\ reader[r].stage = "test"
  /\ account' = StatusWritten(r, verdict)
  /\ reader' = [reader EXCEPT ![r] = Nobody]
  /\ UNCHANGED <<used, assigned, oauth, made, client, connected, issued, edits>>

Release(r) ==
  /\ reader[r].stage = "snapshot"
  /\ reader' = [reader EXCEPT ![r] = Nobody]
  /\ UNCHANGED <<account, used, assigned, oauth, made, client, connected, issued, edits>>

-----------------------------------------------------------------------------
(* The OAuth connection.                                                   *)

(* saveGoogleOAuthSettings, saveMicrosoftOAuthSettings: a request without  *)
(* a client secret keeps the stored one.                                   *)
SaveSettings(provider, withSecret) ==
  /\ withSecret \/ client[provider] = "stored"
  /\ Edit
  /\ client' = [client EXCEPT ![provider] = "stored"]
  /\ UNCHANGED <<account, used, assigned, oauth, made, reader, connected, issued>>

(* createGmailAuthorizationUrl, createMicrosoftAuthorizationUrl.           *)
Authorize(s, provider) ==
  /\ client[provider] # "missing"
  /\ s \notin made
  /\ made' = made \cup {s}
  /\ oauth' = [oauth EXCEPT ![s] = [provider |-> provider, expired |-> FALSE]]
  /\ UNCHANGED <<account, used, assigned, client, reader, connected, issued, edits>>

Expire(s) ==
  /\ oauth[s] # Null /\ ~oauth[s].expired
  /\ oauth' = [oauth EXCEPT ![s].expired = TRUE]
  /\ UNCHANGED <<account, used, assigned, made, client, reader, connected, issued, edits>>

(* Mutant: the row is read and stays.                                      *)
Kept(s) == oauth

(* consumeOauthState: the row is read and deleted.                         *)
Consumed(s) == [oauth EXCEPT ![s] = Null]

(* completeGmailConnection and completeMicrosoftConnection up to their     *)
(* first await: the state is used up even when it is refused.              *)
Callback(r, s, provider) ==
  /\ reader[r] = Nobody
  /\ oauth[s] # Null
  /\ oauth' = Consumed(s)
  /\ reader' = IF ~oauth[s].expired /\ oauth[s].provider = provider
                 THEN [reader EXCEPT ![r] = [stage |-> "exchange", state |-> s,
                                             provider |-> provider]]
                 ELSE reader
  /\ UNCHANGED <<account, used, assigned, made, client, connected, issued, edits>>

(* The code was exchanged and the mailbox named: a row of its own.         *)
Connect(r, i, endpoint) ==
  /\ reader[r].stage = "exchange"
  /\ i \notin used
  /\ MayIssue
  /\ used' = used \cup {i}
  /\ account' = [account EXCEPT ![i] = NewRow(reader[r].provider, endpoint, Issue(endpoint.origin))]
  /\ connected' = [connected EXCEPT ![reader[r].state] = @ \cup {i}]
  /\ reader' = [reader EXCEPT ![r] = Nobody]
  /\ UNCHANGED <<assigned, oauth, made, client, edits>>

ExchangeFails(r) ==
  /\ reader[r].stage = "exchange"
  /\ reader' = [reader EXCEPT ![r] = Nobody]
  /\ UNCHANGED <<account, used, assigned, oauth, made, client, connected, issued, edits>>

(* The server stops and starts again in the same environment: what its     *)
(* requests had read is gone.                                              *)
Restart ==
  /\ \E r \in Readers : reader[r] # Nobody
  /\ reader' = [r \in Readers |-> Nobody]
  /\ UNCHANGED <<account, used, assigned, oauth, made, client, connected, issued, edits>>

-----------------------------------------------------------------------------
Registry ==
  \/ \E i \in Ids, e \in Endpoints :
       \/ \E kind \in Kinds : Create(i, kind, e)
       \/ \E newSecret \in BOOLEAN : Update(i, e, newSecret)
  \/ \E i \in Ids : Delete(i) \/ \E value \in BOOLEAN : SetEnabled(i, value)
  \/ \E accounts \in SUBSET Ids : SetAssigned(accounts)

Reading ==
  \E r \in Readers :
    \/ \E i \in Ids : Snapshot(r, i) \/ BeginTest(r, i)
    \/ \E verdict \in {"ok", "error"} : FinishTest(r, verdict)
    \/ Release(r)

OAuth ==
  \/ \E p \in OAuthProviders, withSecret \in BOOLEAN : SaveSettings(p, withSecret)
  \/ \E s \in States : Expire(s) \/ \E p \in OAuthProviders : Authorize(s, p)
  \/ \E r \in Readers :
       \/ \E s \in States, p \in OAuthProviders : Callback(r, s, p)
       \/ \E i \in Ids, e \in Endpoints : Connect(r, i, e)
       \/ ExchangeFails(r)

Next == Registry \/ Reading \/ OAuth \/ Restart

Spec == Init /\ [][Next]_vars

-----------------------------------------------------------------------------
(* A provider built from this row, now or earlier and still in use, shows  *)
(* an API key only to the server that issued it, whatever edits of the     *)
(* endpoint and the key came in between (updateAccount, docs/architecture: *)
(* no new endpoint with old credentials).                                  *)
KeyStaysWithItsOrigin ==
  /\ \A i \in Present : account[i].kind \in ApiKinds =>
       account[i].secret.origin = account[i].inbound.origin
  /\ \A r \in Readers : reader[r].stage \in {"snapshot", "test"} =>
       (reader[r].id \in Present /\ account[reader[r].id].kind \in ApiKinds =>
          reader[r].secret.origin = reader[r].inbound.origin)

(* The inbound generation identifies the mailbox: while a row still has    *)
(* the generation a snapshot was taken with, it still has the snapshot's   *)
(* endpoint and credential.  This is what commitInboundPage relies on when *)
(* it compares generations after the provider's answer.                    *)
GenerationTracksMailbox ==
  \A r \in Readers :
    reader[r].stage \in {"snapshot", "test"} /\ reader[r].id \in Present =>
      LET row == account[reader[r].id] IN
      row.generation = reader[r].generation =>
        row.inbound = reader[r].inbound /\ row.secret = reader[r].secret

(* One authorization brings in one account at most: a state is used up by  *)
(* the first callback, however often the browser repeats it while the      *)
(* first exchange is under way.                                            *)
StateUsedOnce == \A s \in States : Cardinality(connected[s]) <= 1

(* Readers hold rows that exist or existed, in a version that is not newer *)
(* than the row, and every edit that counts moved the generation by one    *)
(* (persistAccount and the readers of getInboundProviderSnapshot).         *)
ReadersBehind ==
  /\ Present \subseteq used
  /\ \A i \in Present : account[i].generation <= edits + 1
  /\ \A r \in Readers : reader[r].stage \in {"snapshot", "test"} =>
       /\ reader[r].id \in used
       /\ reader[r].id \in Present =>
            reader[r].generation <= account[reader[r].id].generation

(* An OAuth state is not issued, or in its row, or with one exchange, or   *)
(* used up, in this order (consumeOauthState).                             *)
ExchangeOf(s) == {r \in Readers : reader[r].stage = "exchange" /\ reader[r].state = s}

OneHolder ==
  \A s \in States :
    /\ s \notin made => oauth[s] = Null /\ ExchangeOf(s) = {} /\ connected[s] = {}
    /\ oauth[s] # Null => ExchangeOf(s) = {}
    /\ oauth[s] # Null \/ ExchangeOf(s) # {} => connected[s] = {}
    /\ \A q, r \in ExchangeOf(s) : q = r
    /\ \A i, j \in connected[s] : i = j

(* What a step of the registry relies on and preserves: the inductive      *)
(* invariant of AccountProofs, from which the properties above follow.     *)
RegistryInv ==
  TypeOK /\ KeyStaysWithItsOrigin /\ GenerationTracksMailbox /\ ReadersBehind /\ OneHolder

(* A deleted account never comes back, although tests, snapshots and OAuth *)
(* exchanges that began before end after its deletion.                     *)
DeletedStaysDeleted == [][\A i \in used : account[i] = Null => account'[i] = Null]_vars

(* The versions of the row of an id.  The inbound generation moves with    *)
(* every change of the mailbox and with every switch, by one, and with no  *)
(* other edit, test or connection (persistAccount, setAccountEnabled):     *)
(* this is what the poller captures before it asks a provider.             *)
StateOf(i) ==
  IF account[i] = Null THEN IF i \in used THEN "deleted" ELSE "none"
  ELSE IF account[i].enabled THEN "enabled" ELSE "disabled"

Version(i) == INSTANCE AccountVersions WITH
  state <- StateOf(i),
  generation <- IF account[i] = Null THEN 0 ELSE account[i].generation,
  mailbox <- IF account[i] = Null THEN Null ELSE <<account[i].inbound, account[i].secret>>

ImplementsVersions ==
  /\ \A i \in Ids : Version(i)!VersionsInit
  /\ [][\A i \in Ids : [Version(i)!VersionsNext]_(Version(i)!versionVars)]_<<account, used>>
=============================================================================
