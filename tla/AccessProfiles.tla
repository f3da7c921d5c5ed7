---------------------------- MODULE AccessProfiles ----------------------------
(***************************************************************************)
(* Who may do what with which mailbox: AccessProfileService, the tables    *)
(* access_profiles, access_profile_accounts and access_tokens, and the way *)
(* of a request from its bearer token (requireProfileToken) through        *)
(* MailService's checks to a provider.                                     *)
(*                                                                         *)
(* A REST request is authenticated and checked in one stretch of code.  An *)
(* MCP tool call is authenticated and gated in one, and runs its tool in   *)
(* another, on the context that was read for it.                           *)
(***************************************************************************)
EXTENDS FiniteSets

CONSTANTS
  Accounts,  \* account ids (UUIDs, never reused)
  Profiles,  \* profile ids (UUIDs, never reused)
  Tokens,    \* access tokens with their ids
  Requests,  \* slots for concurrent requests
  CapSets,   \* the capabilities an administrator may choose for a profile
  None

Caps == {"read", "draft", "send"}
Operations == {"read", "draft", "send", "reply"}

ASSUME CapSetsAssumption == CapSets \subseteq SUBSET Caps
ASSUME NoneAssumption ==
  /\ None \notin Profiles
  /\ None \notin [caps : SUBSET Caps, accounts : SUBSET Accounts]

VARIABLES
  account,   \* "enabled", "disabled" or "deleted"
  profile,   \* "new", "live" or "deleted"
  policy,    \* the capabilities and the accounts of a profile, as stored
  token,     \* "new", "valid", "revoked" or "deleted"
  owner,     \* access_tokens.profile_id
  pc,        \* "idle", "dispatched" or "reaching" a provider
  job,       \* the request's input and req.authContext
  (*************************************************************************)
  (* What the administrator has been told.                                 *)
  (*************************************************************************)
  edit,      \* the last policy of a profile that was acknowledged, or None
  due        \* the policy that held for a request when it arrived

tables == <<profile, policy, token, owner, edit>>
requests == <<pc, job, due>>
vars == <<account, profile, policy, token, owner, pc, job, edit, due>>

Policy == [caps : SUBSET Caps, accounts : SUBSET Accounts]
NoPolicy == [caps |-> {}, accounts |-> {}]

Job == [operation : Operations, account : Accounts, seen : Policy]

TypeOK ==
  /\ account \in [Accounts -> {"enabled", "disabled", "deleted"}]
  /\ profile \in [Profiles -> {"new", "live", "deleted"}]
  /\ policy \in [Profiles -> Policy]
  /\ token \in [Tokens -> {"new", "valid", "revoked", "deleted"}]
  /\ owner \in [Tokens -> Profiles \cup {None}]
  /\ pc \in [Requests -> {"idle", "dispatched", "reaching"}]
  /\ job \in [Requests -> Job \cup {None}]
  /\ edit \in [Profiles -> Policy \cup {None}]
  /\ due \in [Requests -> Policy]
  /\ \A r \in Requests : pc[r] # "idle" => job[r] \in Job

Init ==
  /\ account = [a \in Accounts |-> "enabled"]
  /\ profile = [p \in Profiles |-> "new"]
  /\ policy = [p \in Profiles |-> NoPolicy]
  /\ token = [t \in Tokens |-> "new"]
  /\ owner = [t \in Tokens |-> None]
  /\ pc = [r \in Requests |-> "idle"]
  /\ job = [r \in Requests |-> None]
  /\ edit = [p \in Profiles |-> None]
  /\ due = [r \in Requests |-> NoPolicy]

Existing == {a \in Accounts : account[a] # "deleted"}

-----------------------------------------------------------------------------
(* Profiles and their tokens.  "stored" is whether the inserts of          *)
(* setProfileAccounts go through: an unknown or repeated account makes     *)
(* them throw, and so may the disk.                                        *)

CanStore(ids, stored) == stored => ids \subseteq Existing

(* create: the profile's row, then its accounts in a transaction of their  *)
(* own; the row stays when that one fails.                                 *)
CreateProfile(p, caps, ids, stored) ==
  /\ profile[p] = "new"
  /\ CanStore(ids, stored)
  /\ profile' = [profile EXCEPT ![p] = "live"]
  /\ policy' = [policy EXCEPT ![p] = [caps |-> caps,
                                      accounts |-> IF stored THEN ids ELSE {}]]
  /\ edit' = [edit EXCEPT ![p] = IF stored THEN [caps |-> caps, accounts |-> ids]
                                          ELSE None]
  /\ UNCHANGED <<account, token, owner, pc, job, due>>

(* Mutant: the two writes are not in one transaction. *)
UpdatedInSteps(p, caps, ids, stored) ==
  [caps |-> caps, accounts |-> IF stored THEN ids ELSE {}]

(* updateProfile: capabilities and accounts in one transaction. *)
Updated(p, caps, ids, stored) ==
  IF stored THEN [caps |-> caps, accounts |-> ids] ELSE policy[p]

UpdateProfile(p, caps, ids, stored) ==
  /\ profile[p] = "live"
  /\ CanStore(ids, stored)
  /\ policy' = [policy EXCEPT ![p] = Updated(p, caps, ids, stored)]
  /\ edit' = [edit EXCEPT ![p] = IF stored THEN [caps |-> caps, accounts |-> ids]
                                          ELSE @]
  /\ UNCHANGED <<account, profile, token, owner, pc, job, due>>

(* Mutant: foreign keys are off, and the tokens stay. *)
TokensOfNobody(p) == {}

(* The rows ON DELETE CASCADE takes along with a profile. *)
TokensOf(p) == {t \in Tokens : owner[t] = p}

(* remove *)
DeleteProfile(p) ==
  /\ profile[p] = "live"
  /\ profile' = [profile EXCEPT ![p] = "deleted"]
  /\ policy' = [policy EXCEPT ![p] = NoPolicy]
  /\ token' = [t \in Tokens |-> IF t \in TokensOf(p) THEN "deleted" ELSE token[t]]
  /\ edit' = [edit EXCEPT ![p] = None]
  /\ UNCHANGED <<account, owner, pc, job, due>>

(* createToken *)
CreateToken(p, t) ==
  /\ profile[p] = "live" /\ token[t] = "new"
  /\ token' = [token EXCEPT ![t] = "valid"]
  /\ owner' = [owner EXCEPT ![t] = p]
  /\ UNCHANGED <<account, profile, policy, pc, job, edit, due>>

(* revokeToken: acknowledged even if the token is another profile's. *)
RevokeToken(p, t) ==
  /\ profile[p] = "live"
  /\ token' = [token EXCEPT ![t] = IF owner[t] = p THEN "revoked" ELSE @]
  /\ UNCHANGED <<account, profile, policy, owner, pc, job, edit, due>>

-----------------------------------------------------------------------------
(* Accounts, as far as they matter here. *)

SetEnabled(a, value) ==
  /\ account[a] # "deleted"
  /\ account' = [account EXCEPT ![a] = value]
  /\ UNCHANGED <<tables, requests>>

(* Mutant: the check is left to the schema, which cascades. *)
DeletableAlways(a) == account[a] # "deleted"

(* deleteAccount refuses an account that a profile has. *)
Deletable(a) ==
  /\ account[a] # "deleted"
  /\ \A p \in Profiles : a \notin policy[p].accounts

DeleteAccount(a) ==
  /\ Deletable(a)
  /\ account' = [account EXCEPT ![a] = "deleted"]
  /\ policy' = [p \in Profiles |-> [policy[p] EXCEPT !.accounts = @ \ {a}]]
  /\ UNCHANGED <<profile, token, owner, edit, requests>>

-----------------------------------------------------------------------------
(* Requests. *)

(* Mutant: revoked_at is not looked at. *)
AuthenticatesRow(t) == token[t] \in {"valid", "revoked"}

(* getScopeContextForToken finds a token that is not revoked, and its      *)
(* profile.                                                                *)
Authenticates(t) == token[t] = "valid"

Context(t) == policy[owner[t]]

(* canRead, canDraft, canSend *)
Needs(operation) ==
  CASE operation = "read" -> {"read"}
    [] operation = "draft" -> {"read", "draft"}
    [] OTHER -> {"send"}

(* The gate of POST /mcp and the tools registered for the profile. *)
ToolNeeds(operation) ==
  CASE operation = "read" -> {"read"}
    [] operation = "draft" -> {"draft"}
    [] operation = "send" -> {"send"}
    [] OTHER -> {"read", "send"}

(* Mutant: the account is looked up, its assignment is not. *)
AllowedAnyAccount(seen, operation, a) ==
  /\ Needs(operation) \subseteq seen.caps
  /\ account[a] = "enabled"

(* MailService's checks: the context as it was read, the account as it is. *)
Allowed(seen, operation, a) ==
  /\ Needs(operation) \subseteq seen.caps
  /\ a \in seen.accounts
  /\ account[a] = "enabled"

(* What the administrator has granted the bearer of t. *)
Granted(t) ==
  IF token[t] = "valid" /\ edit[owner[t]] # None
    THEN edit[owner[t]]
    ELSE NoPolicy

Take(r, t, operation, a) ==
  /\ job' = [job EXCEPT ![r] = [operation |-> operation, account |-> a,
                                seen |-> Context(t)]]
  /\ due' = [due EXCEPT ![r] = Granted(t)]

(* The routes of /api/mail, up to the call of the provider. *)
RestRequest(r, t, operation, a) ==
  /\ pc[r] = "idle"
  /\ Authenticates(t) /\ Allowed(Context(t), operation, a)
  /\ Take(r, t, operation, a)
  /\ pc' = [pc EXCEPT ![r] = "reaching"]
  /\ UNCHANGED <<account, tables>>

(* POST /mcp, up to transport.handleRequest. *)
McpRequest(r, t, operation, a) ==
  /\ pc[r] = "idle"
  /\ Authenticates(t) /\ ToolNeeds(operation) \subseteq Context(t).caps
  /\ Take(r, t, operation, a)
  /\ pc' = [pc EXCEPT ![r] = "dispatched"]
  /\ UNCHANGED <<account, tables>>

Leave(r) ==
  /\ pc' = [pc EXCEPT ![r] = "idle"]
  /\ job' = [job EXCEPT ![r] = None]
  /\ due' = [due EXCEPT ![r] = NoPolicy]

(* The tool's handler, on its way to the provider. *)
RunTool(r) ==
  /\ pc[r] = "dispatched"
  /\ Allowed(job[r].seen, job[r].operation, job[r].account)
  /\ pc' = [pc EXCEPT ![r] = "reaching"]
  /\ UNCHANGED <<account, tables, job, due>>

(* It may refuse for these or other reasons: its arguments, the sender's   *)
(* identity, what the provider is capable of.                              *)
RefuseTool(r) ==
  /\ pc[r] = "dispatched"
  /\ Leave(r)
  /\ UNCHANGED <<account, tables>>

Answered(r) ==
  /\ pc[r] = "reaching"
  /\ Leave(r)
  /\ UNCHANGED <<account, tables>>

Restart ==
  /\ pc' = [r \in Requests |-> "idle"]
  /\ job' = [r \in Requests |-> None]
  /\ due' = [r \in Requests |-> NoPolicy]
  /\ UNCHANGED <<account, tables>>

-----------------------------------------------------------------------------
Admin ==
  \/ \E p \in Profiles, caps \in CapSets, ids \in SUBSET Accounts, stored \in BOOLEAN :
       \/ CreateProfile(p, caps, ids, stored)
       \/ UpdateProfile(p, caps, ids, stored)
  \/ \E p \in Profiles : DeleteProfile(p)
  \/ \E p \in Profiles, t \in Tokens : CreateToken(p, t) \/ RevokeToken(p, t)
  \/ \E a \in Accounts, value \in {"enabled", "disabled"} : SetEnabled(a, value)
  \/ \E a \in Accounts : DeleteAccount(a)

Request(r) ==
  \/ \E t \in Tokens, operation \in Operations, a \in Accounts :
       RestRequest(r, t, operation, a) \/ McpRequest(r, t, operation, a)
  \/ RunTool(r) \/ RefuseTool(r)
  \/ Answered(r)

Next == Admin \/ (\E r \in Requests : Request(r)) \/ Restart

Spec == Init /\ [][Next]_vars

-----------------------------------------------------------------------------
(* What is stored is what was acknowledged: the capabilities and accounts  *)
(* of the last edit that succeeded, whichever edits failed and whichever   *)
(* accounts were deleted since; a profile whose creation failed half way   *)
(* gives access to nothing.                                                *)
StoredAsAcknowledged ==
  \A p \in Profiles : profile[p] = "live" =>
    IF edit[p] = None THEN policy[p].accounts = {} ELSE policy[p] = edit[p]

(* No row outlives what it refers to, without which an old token or        *)
(* assignment would give access: the cascades of the schema.               *)
NothingDangles ==
  /\ \A p \in Profiles : policy[p].accounts \subseteq Existing
  /\ \A p \in Profiles : profile[p] # "live" => policy[p] = NoPolicy
  /\ \A t \in Tokens :
       token[t] \in {"valid", "revoked"} =>
         owner[t] \in Profiles /\ profile[owner[t]] = "live"

(* A request reaches a provider only within the policy that the            *)
(* administrator had granted its token, not revoked, when it arrived, all  *)
(* of it in one policy, whatever was edited, revoked or deleted meanwhile. *)
ReachesWhatWasGranted ==
  \A r \in Requests : pc[r] = "reaching" =>
    /\ Needs(job[r].operation) \subseteq due[r].caps
    /\ job[r].account \in due[r].accounts

(* With what a step relies on: the context of a tool call under way is     *)
(* within what was due, or names no account.                               *)
AccessInv ==
  /\ TypeOK
  /\ StoredAsAcknowledged
  /\ NothingDangles
  /\ ReachesWhatWasGranted
  /\ \A r \in Requests : pc[r] = "dispatched" =>
       /\ job[r].seen.accounts \subseteq due[r].accounts
       /\ job[r].seen.accounts # {} => job[r].seen.caps \subseteq due[r].caps
===============================================================================
