----------------------------- MODULE AccessProofs -----------------------------
(* Proofs about AccessProfiles, for any accounts, profiles and tokens. *)
EXTENDS AccessProfiles, TLAPS

(* A policy without an account it does not have is the same.               *)
LEMMA PolicyWithout ==
  ASSUME NEW x \in Policy, NEW a, a \notin x.accounts
  PROVE  [x EXCEPT !.accounts = @ \ {a}] = x
<1>1. x.accounts \ {a} = x.accounts
  OBVIOUS
<1> QED
  BY <1>1 DEF Policy

(* None is not a policy, and the empty policy is one. *)
LEMMA NonesDiffer == None \notin Policy /\ NoPolicy \in Policy
  BY NoneAssumption DEF Policy, NoPolicy

(* The invariant holds initially: there is nothing yet. *)
LEMMA InitAccess == Init => AccessInv
  BY NonesDiffer
  DEF Init, AccessInv, TypeOK, StoredAsAcknowledged, NothingDangles,
      ReachesWhatWasGranted, NoPolicy, Existing

(* Whatever a request is allowed by its context, it is allowed by what the *)
(* administrator had granted: the two agree as long as StoredAsAcknowledged *)
(* and NothingDangles hold.                                                *)
LEMMA ContextIsGranted ==
  ASSUME AccessInv, NEW t \in Tokens, Authenticates(t)
  PROVE  /\ Context(t) \in Policy /\ Granted(t) \in Policy
         /\ Context(t).accounts \subseteq Granted(t).accounts
         /\ Context(t).accounts # {} => Context(t).caps \subseteq Granted(t).caps
<1>1. owner[t] \in Profiles /\ profile[owner[t]] = "live" /\ token[t] = "valid"
  BY DEF AccessInv, NothingDangles, Authenticates
<1>2. policy[owner[t]] \in Policy /\ edit[owner[t]] \in Policy \cup {None}
  BY <1>1 DEF AccessInv, TypeOK
<1>3. CASE edit[owner[t]] = None
  <2>1. policy[owner[t]].accounts = {}
    BY <1>1, <1>3 DEF AccessInv, StoredAsAcknowledged
  <2> QED
    BY <1>1, <1>2, <1>3, <2>1, NonesDiffer DEF Context, Granted
<1>4. CASE edit[owner[t]] # None
  <2>1. policy[owner[t]] = edit[owner[t]]
    BY <1>1, <1>4 DEF AccessInv, StoredAsAcknowledged
  <2> QED
    BY <1>1, <1>2, <1>4, <2>1 DEF Context, Granted
<1> QED
  BY <1>3, <1>4

(* The parts of the invariant that speak of requests. *)
RequestsInBounds ==
  /\ ReachesWhatWasGranted
  /\ \A r \in Requests : pc[r] = "dispatched" =>
       /\ job[r].seen.accounts \subseteq due[r].accounts
       /\ job[r].seen.accounts # {} => job[r].seen.caps \subseteq due[r].caps

(* They do not change with the tables. *)
LEMMA RequestsKept ==
  ASSUME AccessInv, UNCHANGED requests
  PROVE  RequestsInBounds'
  BY DEF AccessInv, RequestsInBounds, ReachesWhatWasGranted, requests

(* The tables' parts do not change with the requests. *)
LEMMA TablesKept ==
  ASSUME AccessInv, UNCHANGED <<account, tables>>
  PROVE  StoredAsAcknowledged' /\ NothingDangles'
  BY DEF AccessInv, StoredAsAcknowledged, NothingDangles, Existing, tables

(* Every step keeps the invariant: one step per action. *)
LEMMA NextAccess == AccessInv /\ [Next]_vars => AccessInv'
<1> SUFFICES ASSUME AccessInv, [Next]_vars PROVE AccessInv'
  OBVIOUS
<1> USE DEF AccessInv
<1>a. ASSUME NEW p \in Profiles, NEW caps \in CapSets, NEW ids \in SUBSET Accounts
      PROVE  [caps |-> caps, accounts |-> ids] \in Policy
  BY CapSetsAssumption DEF Policy
<1>1. ASSUME NEW p \in Profiles, NEW caps \in CapSets, NEW ids \in SUBSET Accounts,
             NEW stored \in BOOLEAN, CreateProfile(p, caps, ids, stored)
      PROVE  AccessInv'
  <2> DEFINE kept == IF stored THEN ids ELSE {}
  <2>0. kept \in SUBSET Accounts /\ kept \subseteq Existing
    BY <1>1 DEF CreateProfile, CanStore
  <2>1. [caps |-> caps, accounts |-> kept] \in Policy
    BY <2>0, <1>a
  <2>2. TypeOK'
    BY <1>1, <2>1, <1>a DEF TypeOK, CreateProfile
  <2>3. Existing' = Existing
    BY <1>1 DEF CreateProfile, Existing
  <2>4. policy'[p] = [caps |-> caps, accounts |-> kept]
    BY <1>1 DEF CreateProfile, TypeOK
  <2>5. StoredAsAcknowledged'
    <3> SUFFICES ASSUME NEW q \in Profiles, profile'[q] = "live"
                 PROVE  IF edit'[q] = None
                          THEN policy'[q].accounts = {}
                          ELSE policy'[q] = edit'[q]
      BY DEF StoredAsAcknowledged
    <3>1. CASE q # p
      BY <3>1, <1>1 DEF CreateProfile, TypeOK, StoredAsAcknowledged
    <3>2. CASE q = p /\ stored
      BY <3>2, <1>1, <2>1, <2>4, NonesDiffer DEF CreateProfile, TypeOK
    <3>3. CASE q = p /\ ~stored
      BY <3>3, <1>1, <2>4 DEF CreateProfile, TypeOK
    <3> QED
      BY <3>1, <3>2, <3>3
  <2>6. NothingDangles'
    BY <1>1, <2>0, <2>3, <2>4 DEF CreateProfile, TypeOK, NothingDangles
  <2> QED
    BY <1>1, <2>2, <2>5, <2>6, RequestsKept DEF CreateProfile, requests, RequestsInBounds
<1>2. ASSUME NEW p \in Profiles, NEW caps \in CapSets, NEW ids \in SUBSET Accounts,
             NEW stored \in BOOLEAN, UpdateProfile(p, caps, ids, stored)
      PROVE  AccessInv'
  <2> DEFINE wanted == [caps |-> caps, accounts |-> ids]
  <2>1. wanted \in Policy
    BY <1>a
  <2>2. TypeOK'
    BY <1>2, <2>1 DEF TypeOK, UpdateProfile, Updated
  <2>3. Existing' = Existing
    BY <1>2 DEF UpdateProfile, Existing
  <2>4. CASE ~stored
    <3>1. policy' = policy /\ edit' = edit
      BY <1>2, <2>4 DEF UpdateProfile, Updated, TypeOK
    <3> QED
      BY <1>2, <2>2, <2>3, <3>1, RequestsKept
      DEF UpdateProfile, requests, RequestsInBounds, StoredAsAcknowledged, NothingDangles
  <2>5. CASE stored
    <3>1. /\ policy'[p] = wanted /\ edit'[p] = wanted
          /\ \A q \in Profiles : q # p => policy'[q] = policy[q] /\ edit'[q] = edit[q]
      BY <1>2, <2>5 DEF UpdateProfile, Updated, TypeOK
    <3>2. ids \subseteq Existing
      BY <1>2, <2>5 DEF UpdateProfile, CanStore
    <3> HIDE DEF wanted
    <3>4. StoredAsAcknowledged'
      BY <1>2, <2>1, <3>1, NonesDiffer DEF UpdateProfile, StoredAsAcknowledged
    <3>5. NothingDangles'
      BY <1>2, <2>3, <3>1, <3>2 DEF UpdateProfile, NothingDangles, wanted
    <3> QED
      BY <1>2, <2>2, <3>4, <3>5, RequestsKept DEF UpdateProfile, requests, RequestsInBounds
  <2> QED
    BY <2>4, <2>5
<1>3. ASSUME NEW p \in Profiles, DeleteProfile(p) PROVE AccessInv'
  <2>1. TypeOK'
    BY <1>3, NonesDiffer DEF TypeOK, DeleteProfile
  <2>2. StoredAsAcknowledged'
    BY <1>3 DEF DeleteProfile, StoredAsAcknowledged, TypeOK, Existing
  <2>3. NothingDangles'
    BY <1>3 DEF DeleteProfile, NothingDangles, TypeOK, Existing, NoPolicy, TokensOf
  <2> QED
    BY <1>3, <2>1, <2>2, <2>3, RequestsKept DEF DeleteProfile, requests, RequestsInBounds
<1>4. ASSUME NEW p \in Profiles, NEW t \in Tokens, CreateToken(p, t) PROVE AccessInv'
  <2>1. TypeOK'
    BY <1>4 DEF TypeOK, CreateToken
  <2>2. StoredAsAcknowledged' /\ NothingDangles'
    BY <1>4 DEF CreateToken, StoredAsAcknowledged, NothingDangles, TypeOK, Existing
  <2> QED
    BY <1>4, <2>1, <2>2, RequestsKept DEF CreateToken, requests, RequestsInBounds
<1>5. ASSUME NEW p \in Profiles, NEW t \in Tokens, RevokeToken(p, t) PROVE AccessInv'
  <2>1. TypeOK'
    BY <1>5 DEF TypeOK, RevokeToken
  <2>2. StoredAsAcknowledged' /\ NothingDangles'
    BY <1>5 DEF RevokeToken, StoredAsAcknowledged, NothingDangles, TypeOK, Existing
  <2> QED
    BY <1>5, <2>1, <2>2, RequestsKept DEF RevokeToken, requests, RequestsInBounds
<1>6. ASSUME NEW a \in Accounts, NEW value \in {"enabled", "disabled"}, SetEnabled(a, value)
      PROVE  AccessInv'
  <2>1. TypeOK'
    BY <1>6 DEF TypeOK, SetEnabled, tables, requests
  <2>2. Existing' = Existing
    BY <1>6 DEF SetEnabled, Existing, TypeOK
  <2>3. StoredAsAcknowledged' /\ NothingDangles'
    BY <1>6, <2>2 DEF SetEnabled, tables, StoredAsAcknowledged, NothingDangles
  <2> QED
    BY <1>6, <2>1, <2>3, RequestsKept DEF SetEnabled, RequestsInBounds
<1>7. ASSUME NEW a \in Accounts, DeleteAccount(a) PROVE AccessInv'
  <2>1. policy' = policy
    <3>1. \A q \in Profiles : [policy[q] EXCEPT !.accounts = @ \ {a}] = policy[q]
      BY <1>7, PolicyWithout DEF DeleteAccount, Deletable, TypeOK
    <3> QED
      BY <1>7, <3>1 DEF DeleteAccount, TypeOK
  <2>2. TypeOK'
    BY <1>7, <2>1 DEF TypeOK, DeleteAccount, requests
  <2>3. StoredAsAcknowledged'
    BY <1>7, <2>1 DEF DeleteAccount, StoredAsAcknowledged
  <2>4. NothingDangles'
    BY <1>7, <2>1 DEF DeleteAccount, Deletable, NothingDangles, Existing, TypeOK
  <2> QED
    BY <1>7, <2>2, <2>3, <2>4, RequestsKept DEF DeleteAccount, RequestsInBounds
<1>8. ASSUME NEW r \in Requests, NEW t \in Tokens, NEW operation \in Operations,
             NEW a \in Accounts, RestRequest(r, t, operation, a)
      PROVE  AccessInv'
  <2>1. /\ Context(t) \in Policy /\ Granted(t) \in Policy
        /\ Context(t).accounts \subseteq Granted(t).accounts
        /\ Context(t).accounts # {} => Context(t).caps \subseteq Granted(t).caps
    BY <1>8, ContextIsGranted DEF RestRequest
  <2>2. TypeOK'
    BY <1>8, <2>1 DEF TypeOK, RestRequest, Take, Job, tables
  <2>3. /\ job'[r].operation = operation /\ job'[r].account = a /\ due'[r] = Granted(t)
        /\ pc'[r] = "reaching"
        /\ \A q \in Requests : q # r => pc'[q] = pc[q] /\ job'[q] = job[q] /\ due'[q] = due[q]
    BY <1>8 DEF RestRequest, Take, TypeOK
  <2>4. Needs(operation) \subseteq Context(t).caps /\ a \in Context(t).accounts
    BY <1>8 DEF RestRequest, Allowed
  <2>5. RequestsInBounds'
    BY <2>1, <2>3, <2>4 DEF RequestsInBounds, ReachesWhatWasGranted
  <2> QED
    BY <1>8, <2>2, <2>5, TablesKept DEF RestRequest, RequestsInBounds
<1>9. ASSUME NEW r \in Requests, NEW t \in Tokens, NEW operation \in Operations,
             NEW a \in Accounts, McpRequest(r, t, operation, a)
      PROVE  AccessInv'
  <2>1. /\ Context(t) \in Policy /\ Granted(t) \in Policy
        /\ Context(t).accounts \subseteq Granted(t).accounts
        /\ Context(t).accounts # {} => Context(t).caps \subseteq Granted(t).caps
    BY <1>9, ContextIsGranted DEF McpRequest
  <2>2. TypeOK'
    BY <1>9, <2>1 DEF TypeOK, McpRequest, Take, Job, tables
  <2>3. /\ job'[r].seen = Context(t) /\ due'[r] = Granted(t)
        /\ pc'[r] = "dispatched"
        /\ \A q \in Requests : q # r => pc'[q] = pc[q] /\ job'[q] = job[q] /\ due'[q] = due[q]
    BY <1>9 DEF McpRequest, Take, TypeOK
  <2>5. RequestsInBounds'
    BY <2>1, <2>3 DEF RequestsInBounds, ReachesWhatWasGranted
  <2> QED
    BY <1>9, <2>2, <2>5, TablesKept DEF McpRequest, RequestsInBounds
<1>l. ASSUME NEW r \in Requests, Leave(r), UNCHANGED <<account, tables>> PROVE AccessInv'
  <2>1. TypeOK'
    BY <1>l, NonesDiffer DEF TypeOK, Leave, tables
  <2>2. RequestsInBounds'
    BY <1>l DEF RequestsInBounds, ReachesWhatWasGranted, Leave, TypeOK
  <2> QED
    BY <1>l, <2>1, <2>2, TablesKept DEF RequestsInBounds
<1>10. ASSUME NEW r \in Requests, RunTool(r) PROVE AccessInv'
  <2>1. /\ pc'[r] = "reaching" /\ UNCHANGED <<job, due>>
        /\ \A q \in Requests : q # r => pc'[q] = pc[q]
    BY <1>10 DEF RunTool, TypeOK
  <2>2. TypeOK'
    BY <1>10 DEF TypeOK, RunTool, tables
  <2>3. RequestsInBounds'
    BY <1>10, <2>1 DEF RequestsInBounds, ReachesWhatWasGranted, RunTool, Allowed
  <2> QED
    BY <1>10, <2>2, <2>3, TablesKept DEF RunTool, RequestsInBounds
<1>11. ASSUME NEW r \in Requests, Answered(r) \/ RefuseTool(r) PROVE AccessInv'
  BY <1>11, <1>l DEF Answered, RefuseTool
<1>12. CASE Restart
  <2>1. TypeOK'
    BY <1>12, NonesDiffer DEF TypeOK, Restart, tables
  <2>2. RequestsInBounds'
    BY <1>12 DEF RequestsInBounds, ReachesWhatWasGranted, Restart
  <2> QED
    BY <1>12, <2>1, <2>2, TablesKept DEF Restart, RequestsInBounds
<1>13. CASE UNCHANGED vars
  BY <1>13 DEF vars, TypeOK, StoredAsAcknowledged, NothingDangles, Existing,
               ReachesWhatWasGranted
<1> QED
  BY <1>1, <1>2, <1>3, <1>4, <1>5, <1>6, <1>7, <1>8, <1>9, <1>10, <1>11, <1>12, <1>13
  DEF Next, Admin, Request

(* Rows match what the administrator was told, nothing dangles, and no     *)
(* request goes beyond what was granted.                                   *)
THEOREM AccessInvariant == Spec => []AccessInv
  BY InitAccess, NextAccess, PTL DEF Spec

(* The types of the tables and of the requests' locals. *)
THEOREM AccessTypeCorrect == Spec => []TypeOK
<1>1. AccessInv => TypeOK
  BY DEF AccessInv
<1> QED
  BY <1>1, AccessInvariant, PTL

(* The stored policy of a profile is the acknowledged one: createProfile,  *)
(* updateProfile, and deleteAccount, which no profile loses an account to. *)
THEOREM StoredAsAcknowledgedHolds == Spec => []StoredAsAcknowledged
<1>1. AccessInv => StoredAsAcknowledged
  BY DEF AccessInv
<1> QED
  BY <1>1, AccessInvariant, PTL

(* A provider is reached within one policy that was granted to the token   *)
(* when the request arrived.                                               *)
THEOREM ReachesWhatWasGrantedHolds == Spec => []ReachesWhatWasGranted
<1>1. AccessInv => ReachesWhatWasGranted
  BY DEF AccessInv
<1> QED
  BY <1>1, AccessInvariant, PTL

(* The tables refer to one another consistently: no profile lists an       *)
(* account that deleteAccount removed, no token outlives its profile.      *)
THEOREM NothingDanglesHolds == Spec => []NothingDangles
<1>1. AccessInv => NothingDangles
  BY DEF AccessInv
<1> QED
  BY <1>1, AccessInvariant, PTL
===============================================================================
