---------------------------- MODULE AccountProofs ----------------------------
(***************************************************************************)
(* Theorems of AccountRegistry for every set of ids, servers, mailboxes,   *)
(* readers and OAuth states, and every bound on edits and credentials.     *)
(***************************************************************************)
EXTENDS AccountRegistry, FiniteSetTheorems, TLAPS

(* The part of the invariant about the rows and the readers that hold a    *)
(* version of them.                                                        *)
RowsInv == KeyStaysWithItsOrigin /\ GenerationTracksMailbox /\ ReadersBehind

USE DEF Nobody

(* A present row is a row, and a reader in use holds a version of one.     *)
LEMMA Shapes ==
  ASSUME TypeOK
  PROVE  /\ \A i \in Present : account[i] \in Row
         /\ \A r \in Readers : reader[r].stage \in {"snapshot", "test"} => reader[r] \in Using
         /\ \A r \in Readers : reader[r].stage = "exchange" => reader[r] \in Exchanging
  BY DEF TypeOK, Present, Using, Exchanging

(* A new row is well typed and fits the credential it comes with. *)
LEMMA NewRowFits ==
  ASSUME ConstantsAssumption, NEW k \in Kinds, NEW e \in Endpoints, issued \in 0 .. MaxIssued,
         MayIssue
  PROVE  /\ Issue(e.origin) \in Secrets
         /\ NewRow(k, e, Issue(e.origin)) \in Row
         /\ Issue(e.origin).origin = e.origin
         /\ issued' \in 0 .. MaxIssued
  <1>1. Issue(e.origin) \in Secrets /\ issued' \in 0 .. MaxIssued
    BY DEF ConstantsAssumption, Issue, Secrets, MayIssue, Endpoints
  <1>2. NewRow(k, e, Issue(e.origin)) \in Row
    BY <1>1 DEF ConstantsAssumption, NewRow, Row
  <1>3. QED
    BY <1>1, <1>2 DEF Issue

-----------------------------------------------------------------------------
(* A row appears under an id that no one had before. *)
LEMMA RowAppears ==
  ASSUME TypeOK, RowsInv, ConstantsAssumption,
         NEW i \in Ids \ used, NEW k \in Kinds, NEW e \in Endpoints,
         MayIssue,
         used' = used \cup {i},
         account' = [account EXCEPT ![i] = NewRow(k, e, Issue(e.origin))],
         UNCHANGED edits,
         \A r \in Readers : reader'[r].stage \in {"snapshot", "test"} => reader'[r] = reader[r]
  PROVE  RowsInv' /\ account' \in [Ids -> Row \cup {Null}] /\ used' \subseteq Ids
  <1>1. /\ NewRow(k, e, Issue(e.origin)) \in Row
        /\ Issue(e.origin).origin = e.origin
    BY NewRowFits DEF TypeOK
  <1>2. account' \in [Ids -> Row \cup {Null}] /\ used' \subseteq Ids
    BY <1>1 DEF TypeOK
  <1>4. \A j \in Ids \ {i} : account'[j] = account[j]
    BY DEF TypeOK
  <1>5. account'[i] = NewRow(k, e, Issue(e.origin))
    BY DEF TypeOK
  <1>6. Present' \subseteq Present \cup {i} /\ Present' \ {i} = Present \ {i}
    BY <1>4 DEF Present
  <1>7. \A r \in Readers : reader'[r].stage \in {"snapshot", "test"} =>
           reader'[r] = reader[r] /\ reader[r].id \in used
    BY DEF RowsInv, ReadersBehind
  <1>8. ReadersBehind'
    <2>1. \A j \in Present' : account'[j].generation <= edits' + 1
      BY <1>4, <1>5, <1>6 DEF RowsInv, ReadersBehind, NewRow, TypeOK
    <2>2. QED
      BY <2>1, <1>4, <1>6, <1>7 DEF RowsInv, ReadersBehind
  <1>9. GenerationTracksMailbox'
    BY <1>4, <1>6, <1>7 DEF RowsInv, GenerationTracksMailbox, TypeOK
  <1>10. KeyStaysWithItsOrigin'
    <2>1. account'[i].secret.origin = account'[i].inbound.origin
      BY <1>1, <1>5 DEF NewRow
    <2>2. QED
      BY <2>1, <1>4, <1>6, <1>7 DEF RowsInv, KeyStaysWithItsOrigin, TypeOK
  <1>11. QED
    BY <1>2, <1>8, <1>9, <1>10 DEF RowsInv

(* A row changes in place: what is read through it changes only with its   *)
(* generation, and an API key goes along with its origin.                  *)
LEMMA RowChanges ==
  ASSUME TypeOK, RowsInv, ConstantsAssumption,
         NEW i \in Present, NEW row \in Row,
         account' = [account EXCEPT ![i] = row],
         row.kind = account[i].kind,
         \/ /\ row.inbound = account[i].inbound /\ row.secret = account[i].secret
            /\ row.generation = account[i].generation
         \/ row.generation = account[i].generation + 1 /\ edits' = edits + 1,
         row.kind \in ApiKinds => row.secret.origin = row.inbound.origin,
         edits' \in {edits, edits + 1},
         UNCHANGED <<used, reader>>
  PROVE  RowsInv' /\ account' \in [Ids -> Row \cup {Null}]
  <1>1. i \in Ids /\ account[i] \in Row
    BY DEF Present, TypeOK
  <1>2. account'[i] = row /\ \A j \in Ids \ {i} : account'[j] = account[j]
    BY <1>1 DEF TypeOK
  <1>3. Present' \subseteq Present
    BY <1>1, <1>2 DEF Present
  <1>4. account[i].generation \in Nat /\ row.generation \in Nat /\ edits \in Nat
    BY <1>1 DEF Row, TypeOK
  <1>5. \A j \in Present : account[j].generation \in Nat
    BY DEF Present, TypeOK, Row
  <1>6. \A r \in Readers : reader[r].stage \in {"snapshot", "test"} =>
           reader[r].generation \in Nat
    BY Shapes DEF Using
  <1>7. ReadersBehind'
    <2>1. \A j \in Present' : account'[j].generation <= edits' + 1
      BY <1>1, <1>2, <1>3, <1>4, <1>5 DEF RowsInv, ReadersBehind, Present
    <2>2. ASSUME NEW r \in Readers, reader[r].stage \in {"snapshot", "test"},
                 reader[r].id \in Present'
          PROVE  reader[r].generation <= account'[reader[r].id].generation
      <3>1. reader[r].id \in Ids /\ reader[r].generation <= account[reader[r].id].generation
        BY <2>2, <1>3 DEF RowsInv, ReadersBehind, Present
      <3>2. QED
        BY <2>2, <3>1, <1>2, <1>4, <1>6
    <2>3. QED
      BY <2>1, <2>2, <1>3 DEF RowsInv, ReadersBehind
  <1>8. GenerationTracksMailbox'
    <2> SUFFICES ASSUME NEW r \in Readers, reader[r].stage \in {"snapshot", "test"},
                        reader[r].id \in Present',
                        account'[reader[r].id].generation = reader[r].generation
                 PROVE  /\ account'[reader[r].id].inbound = reader[r].inbound
                        /\ account'[reader[r].id].secret = reader[r].secret
      BY DEF GenerationTracksMailbox
    <2>1. /\ reader[r].id \in Present
          /\ reader[r].generation <= account[reader[r].id].generation
      BY <1>3 DEF RowsInv, ReadersBehind
    <2>2. CASE reader[r].id = i
      BY <2>1, <2>2, <1>2, <1>4, <1>6 DEF RowsInv, GenerationTracksMailbox
    <2>3. CASE reader[r].id # i
      BY <2>1, <2>3, <1>2 DEF RowsInv, GenerationTracksMailbox, Present
    <2>4. QED
      BY <2>2, <2>3
  <1>9. KeyStaysWithItsOrigin'
    <2>1. \A j \in Present' : account'[j].kind = account[j].kind
      BY <1>2, <1>3 DEF Present
    <2>2. QED
      BY <2>1, <1>2, <1>3 DEF RowsInv, KeyStaysWithItsOrigin, Present
  <1>10. account' \in [Ids -> Row \cup {Null}]
    BY DEF TypeOK
  <1>11. QED
    BY <1>7, <1>8, <1>9, <1>10 DEF RowsInv

(* The rows stay or go, and a reader keeps what it holds or lets go of it. *)
LEMMA RowsGo ==
  ASSUME TypeOK, RowsInv, ConstantsAssumption,
         account' \in [Ids -> Row \cup {Null}],
         \A i \in Ids : account'[i] \in {account[i], Null},
         UNCHANGED used,
         edits' \in {edits, edits + 1},
         reader' \in [Readers -> Using \cup Exchanging \cup {Nobody}],
         \A r \in Readers : reader'[r].stage \in {"snapshot", "test"} => reader'[r] = reader[r]
  PROVE  RowsInv'
  <1>1. \A i \in Present' : i \in Present /\ account'[i] = account[i]
    BY DEF Present
  <1>3. \A i \in Present : account[i].generation \in Nat
    BY DEF Present, TypeOK, Row
  <1>4. edits \in Nat
    BY DEF TypeOK
  <1>5. ReadersBehind'
    <2>1. \A i \in Present' : account'[i].generation <= edits' + 1
      BY <1>1, <1>3, <1>4 DEF RowsInv, ReadersBehind
    <2>2. ASSUME NEW r \in Readers, reader'[r].stage \in {"snapshot", "test"}
          PROVE  /\ reader'[r].id \in used'
                 /\ reader'[r].id \in Present' =>
                      reader'[r].generation <= account'[reader'[r].id].generation
      <3>1. reader'[r] = reader[r]
        BY <2>2
      <3>2. reader[r].stage \in {"snapshot", "test"}
        BY <2>2, <3>1
      <3>3. QED
        BY <3>1, <3>2, <1>1 DEF RowsInv, ReadersBehind
    <2>3. QED
      BY <2>1, <2>2, <1>1 DEF RowsInv, ReadersBehind
  <1>6. GenerationTracksMailbox'
    <2> SUFFICES ASSUME NEW r \in Readers, reader'[r].stage \in {"snapshot", "test"},
                        reader'[r].id \in Present',
                        account'[reader'[r].id].generation = reader'[r].generation
                 PROVE  /\ account'[reader'[r].id].inbound = reader'[r].inbound
                        /\ account'[reader'[r].id].secret = reader'[r].secret
      BY DEF GenerationTracksMailbox
    <2>1. reader'[r] = reader[r]
      OBVIOUS
    <2>2. /\ reader[r].stage \in {"snapshot", "test"}
          /\ reader[r].id \in Present /\ account'[reader[r].id] = account[reader[r].id]
      BY <2>1, <1>1
    <2>3. QED
      BY <2>1, <2>2 DEF RowsInv, GenerationTracksMailbox
  <1>7. KeyStaysWithItsOrigin'
    BY <1>1 DEF RowsInv, KeyStaysWithItsOrigin
  <1>8. QED
    BY <1>5, <1>6, <1>7 DEF RowsInv

(* A reader takes a version of a row that is there. *)
LEMMA ReaderTakes ==
  ASSUME TypeOK, RowsInv, ConstantsAssumption,
         NEW q \in Readers, NEW i \in Present, NEW stage \in {"snapshot", "test"},
         Remember(q, stage, i),
         UNCHANGED <<account, used, edits>>
  PROVE  RowsInv' /\ reader' \in [Readers -> Using \cup Exchanging \cup {Nobody}]
  <1>1. i \in Ids /\ account[i] \in Row
    BY DEF Present, TypeOK
  <1> DEFINE held == [stage |-> stage, id |-> i, generation |-> account[i].generation,
                      inbound |-> account[i].inbound, secret |-> account[i].secret]
  <1>2. held \in Using
    BY <1>1 DEF Using, Row
  <1>3. reader' = [reader EXCEPT ![q] = held]
    BY DEF Remember
  <1>4. reader' \in [Readers -> Using \cup Exchanging \cup {Nobody}]
    BY <1>2, <1>3 DEF TypeOK
  <1>5. reader'[q] = held /\ \A r \in Readers \ {q} : reader'[r] = reader[r]
    BY <1>3 DEF TypeOK
  <1>6. /\ held.id = i /\ held.generation = account[i].generation
        /\ held.inbound = account[i].inbound /\ held.secret = account[i].secret
    OBVIOUS
  <1>7. Present' = Present
    BY DEF Present
  <1>8. account[i].generation \in Nat
    BY <1>1 DEF Row
  <1> HIDE DEF held
  <1>9. ReadersBehind'
    BY <1>5, <1>6, <1>7, <1>8 DEF RowsInv, ReadersBehind
  <1>10. GenerationTracksMailbox'
    BY <1>5, <1>6, <1>7 DEF RowsInv, GenerationTracksMailbox
  <1>11. KeyStaysWithItsOrigin'
    BY <1>5, <1>6, <1>7 DEF RowsInv, KeyStaysWithItsOrigin
  <1>12. QED
    BY <1>4, <1>9, <1>10, <1>11 DEF RowsInv
-----------------------------------------------------------------------------
(* A step that touches no OAuth state and no exchange. *)
LEMMA StatesStay ==
  ASSUME TypeOK, OneHolder,
         UNCHANGED <<oauth, made, connected>>,
         \A r \in Readers :
           reader'[r].stage = "exchange" => reader[r].stage = "exchange" /\ reader'[r] = reader[r]
  PROVE  OneHolder'
  <1>1. \A s \in States : ExchangeOf(s)' \subseteq ExchangeOf(s)
    BY DEF ExchangeOf
  <1>2. QED
    BY <1>1 DEF OneHolder

(* An OAuth state is issued. *)
LEMMA AuthorizeHolder ==
  ASSUME TypeOK, OneHolder, NEW s \in States, NEW p \in OAuthProviders, Authorize(s, p)
  PROVE  OneHolder'
  <1>1. \A t \in States : ExchangeOf(t)' = ExchangeOf(t)
    BY DEF Authorize, ExchangeOf
  <1>2. \A t \in States \ {s} : oauth'[t] = oauth[t]
    BY DEF Authorize, TypeOK
  <1>3. ExchangeOf(s) = {} /\ connected[s] = {} /\ connected' = connected
    BY DEF Authorize, OneHolder
  <1>4. made' = made \cup {s}
    BY DEF Authorize
  <1>5. QED
    BY <1>1, <1>2, <1>3, <1>4 DEF OneHolder

(* An OAuth state leaves its row, for one exchange or for none. *)
LEMMA CallbackHolder ==
  ASSUME TypeOK, OneHolder, NEW q \in Readers, NEW s \in States, NEW p \in OAuthProviders,
         Callback(q, s, p)
  PROVE  OneHolder'
  <1>1. oauth'[s] = Null /\ \A t \in States \ {s} : oauth'[t] = oauth[t]
    BY DEF Callback, Consumed, TypeOK
  <1>2. /\ s \in made /\ ExchangeOf(s) = {} /\ connected[s] = {}
        /\ connected' = connected /\ made' = made
    BY DEF Callback, OneHolder
  <1>3. /\ \A r \in Readers \ {q} : reader'[r] = reader[r]
        /\ \/ reader'[q].stage = "exchange" /\ reader'[q].state = s
           \/ reader'[q] = reader[q] /\ reader[q].stage # "exchange"
    BY DEF Callback, TypeOK
  <1>4. \A t \in States \ {s} : ExchangeOf(t)' \subseteq ExchangeOf(t)
    BY <1>3 DEF ExchangeOf
  <1>5. ExchangeOf(s)' \subseteq {q}
    BY <1>2, <1>3 DEF ExchangeOf
  <1>6. QED
    BY <1>1, <1>2, <1>4, <1>5 DEF OneHolder

(* An exchange ends with an account. *)
LEMMA ConnectHolder ==
  ASSUME TypeOK, OneHolder, NEW q \in Readers, NEW i \in Ids, NEW e \in Endpoints,
         Connect(q, i, e)
  PROVE  OneHolder'
  <1>1. PICK s \in States : reader[q].state = s /\ q \in ExchangeOf(s)
    BY Shapes DEF Connect, ExchangeOf, Exchanging
  <1>2. /\ connected[s] = {} /\ oauth[s] = Null /\ s \in made
        /\ \A r \in ExchangeOf(s) : r = q
    BY <1>1 DEF OneHolder
  <1>3. /\ connected'[s] = connected[s] \cup {i}
        /\ \A t \in States \ {s} : connected'[t] = connected[t]
    BY <1>1 DEF Connect, TypeOK
  <1>4. \A t \in States : ExchangeOf(t)' \subseteq ExchangeOf(t) \ {q}
    BY DEF Connect, ExchangeOf, TypeOK
  <1>5. ExchangeOf(s)' = {}
    <2>1. ExchangeOf(s)' \subseteq ExchangeOf(s) \ {q}
      BY <1>1, <1>4
    <2>2. QED
      BY <1>2, <2>1
  <1>6. oauth' = oauth /\ made' = made
    BY DEF Connect
  <1>7. QED
    BY <1>1, <1>2, <1>3, <1>4, <1>5, <1>6 DEF OneHolder

-----------------------------------------------------------------------------
(* The empty registry satisfies the invariant. *)
LEMMA InitRegistry ==
  ASSUME ConstantsAssumption, Init
  PROVE  RegistryInv
  <1>1. TypeOK
    BY DEF ConstantsAssumption, Init, TypeOK
  <1>2. Present = {} /\ \A r \in Readers : reader[r] = Nobody
    BY DEF Init, Present
  <1>3. \A s \in States : ExchangeOf(s) = {}
    BY <1>2 DEF ExchangeOf
  <1>4. KeyStaysWithItsOrigin /\ GenerationTracksMailbox
    BY <1>2 DEF KeyStaysWithItsOrigin, GenerationTracksMailbox
  <1>5. ReadersBehind
    BY <1>2 DEF ReadersBehind
  <1>6. OneHolder
    BY <1>3 DEF OneHolder, Init
  <1>7. QED
    BY <1>1, <1>4, <1>5, <1>6 DEF RegistryInv

(* Every step of the registry, its readers and the OAuth connections       *)
(* preserves the invariant.                                                *)
LEMMA NextRegistry ==
  ASSUME ConstantsAssumption, RegistryInv, [Next]_vars
  PROVE  RegistryInv'
  <1> USE DEF RegistryInv
  <1>0. TypeOK /\ RowsInv /\ OneHolder
    BY DEF RowsInv
  <1> SUFFICES TypeOK' /\ RowsInv' /\ OneHolder'
    BY DEF RowsInv
  <1>1. ASSUME NEW i \in Ids, NEW k \in Kinds, NEW e \in Endpoints, Create(i, k, e)
        PROVE  TypeOK' /\ RowsInv' /\ OneHolder'
    <2>1. /\ i \in Ids \ used /\ MayIssue /\ used' = used \cup {i}
          /\ account' = [account EXCEPT ![i] = NewRow(k, e, Issue(e.origin))]
          /\ UNCHANGED <<reader, edits>>
      BY <1>1 DEF Create
    <2>2. RowsInv' /\ account' \in [Ids -> Row \cup {Null}] /\ used' \subseteq Ids
      BY <1>0, <2>1, RowAppears
    <2>3. issued' \in 0 .. MaxIssued
      BY <1>1, NewRowFits DEF Create, TypeOK
    <2>4. TypeOK'
      BY <1>1, <2>2, <2>3 DEF Create, TypeOK
    <2>5. OneHolder'
      BY <1>1, StatesStay DEF Create
    <2>6. QED
      BY <2>2, <2>4, <2>5
  <1>2. ASSUME NEW i \in Ids, NEW e \in Endpoints,
               NEW newSecret \in BOOLEAN, Update(i, e, newSecret)
        PROVE  TypeOK' /\ RowsInv' /\ OneHolder'
    <2> DEFINE old == account[i]
               secret == IF newSecret THEN Issue(e.origin) ELSE old.secret
               row == [old EXCEPT !.inbound = e, !.secret = secret,
                                  !.generation = IF MovesMailbox(old, e, secret) THEN @ + 1 ELSE @]
    <2>1. i \in Present /\ old \in Row /\ old.generation <= edits + 1
          /\ edits \in 0 .. MaxEdits /\ edits' = edits + 1 /\ edits' \in 0 .. MaxEdits
      BY <1>2, <1>0, Shapes DEF Update, Edit, TypeOK, ConstantsAssumption, RowsInv, ReadersBehind
    <2>2. secret \in Secrets /\ issued' \in 0 .. MaxIssued
          /\ (newSecret => secret.origin = e.origin)
      <3>1. CASE newSecret
        BY <1>2, <3>1 DEF Update, MayIssue, Issue, Secrets, Endpoints, TypeOK, ConstantsAssumption
      <3>2. CASE ~newSecret
        BY <1>2, <3>2, <2>1 DEF Update, Row, TypeOK
      <3>3. QED
        BY <3>1, <3>2
    <2>3. /\ row.kind = old.kind /\ row.inbound = e /\ row.secret = secret
          /\ row.enabled = old.enabled /\ row.status = old.status
          /\ row.generation = IF MovesMailbox(old, e, secret) THEN old.generation + 1
                                                              ELSE old.generation
      BY <2>1 DEF Row
    <2>4. row \in Row
      <3>1. old.generation \in 1 .. MaxEdits + 1 /\ old.generation + 1 \in 1 .. MaxEdits + 1
        BY <1>2, <2>1 DEF Row, Update, Edit, ConstantsAssumption
      <3>2. QED
        BY <2>1, <2>2, <3>1 DEF Row
    <2>5. account' = [account EXCEPT ![i] = row]
      BY <1>2 DEF Update
    <2>6. \/ /\ row.inbound = old.inbound /\ row.secret = old.secret
             /\ row.generation = old.generation
          \/ row.generation = old.generation + 1
      BY <2>3 DEF MovesMailbox
    <2>7. row.kind \in ApiKinds => row.secret.origin = row.inbound.origin
      <3>1. old.kind \in ApiKinds => old.secret.origin = old.inbound.origin
        BY <2>1, <1>0 DEF RowsInv, KeyStaysWithItsOrigin
      <3>2. KeyGoesAlong(old, e, newSecret)
        BY <1>2 DEF Update
      <3>3. CASE newSecret
        BY <2>2, <2>3, <3>3
      <3>4. CASE ~newSecret
        BY <2>3, <3>1, <3>2, <3>4 DEF KeyGoesAlong
      <3>5. QED
        BY <3>3, <3>4
    <2>8. UNCHANGED <<used, reader>>
      BY <1>2 DEF Update
    <2> HIDE DEF row, secret
    <2>9. RowsInv' /\ account' \in [Ids -> Row \cup {Null}]
      BY <1>0, <2>1, <2>3, <2>4, <2>5, <2>6, <2>7, <2>8, RowChanges
    <2>10. TypeOK'
      BY <1>2, <2>1, <2>2, <2>9 DEF Update, TypeOK
    <2>11. OneHolder'
      BY <1>2, StatesStay DEF Update
    <2>12. QED
      BY <2>9, <2>10, <2>11
  <1>3. ASSUME NEW i \in Ids, NEW value \in BOOLEAN, SetEnabled(i, value)
        PROVE  TypeOK' /\ RowsInv' /\ OneHolder'
    <2> DEFINE old == account[i]
               row == [old EXCEPT !.enabled = value, !.generation = old.generation + 1]
    <2>1. i \in Present /\ old \in Row /\ old.generation <= edits + 1
          /\ edits \in 0 .. MaxEdits /\ edits' = edits + 1 /\ edits' \in 0 .. MaxEdits
      BY <1>3, <1>0, Shapes
      DEF SetEnabled, Edit, TypeOK, ConstantsAssumption, RowsInv, ReadersBehind
    <2>2. /\ row.kind = old.kind /\ row.inbound = old.inbound /\ row.secret = old.secret
          /\ row.generation = old.generation + 1
      BY <2>1 DEF Row
    <2>3. row \in Row
      <3>1. old.generation + 1 \in 1 .. MaxEdits + 1
        BY <1>3, <2>1 DEF Row, SetEnabled, Edit, ConstantsAssumption
      <3>2. QED
        BY <2>1, <3>1 DEF Row
    <2>4. account' = [account EXCEPT ![i] = row]
      BY <1>3, <2>1 DEF SetEnabled, TypeOK, Row
    <2>5. row.kind \in ApiKinds => row.secret.origin = row.inbound.origin
      BY <2>1, <2>2, <1>0 DEF RowsInv, KeyStaysWithItsOrigin
    <2>6. UNCHANGED <<used, reader>>
      BY <1>3 DEF SetEnabled
    <2> HIDE DEF row
    <2>7. RowsInv' /\ account' \in [Ids -> Row \cup {Null}]
      BY <1>0, <2>1, <2>2, <2>3, <2>4, <2>5, <2>6, RowChanges
    <2>8. TypeOK'
      BY <1>3, <2>1, <2>7 DEF SetEnabled, TypeOK
    <2>9. OneHolder'
      BY <1>3, StatesStay DEF SetEnabled
    <2>10. QED
      BY <2>7, <2>8, <2>9
  <1>4. ASSUME NEW j \in Ids, Delete(j)
        PROVE  TypeOK' /\ RowsInv' /\ OneHolder'
    <2>1. /\ account' \in [Ids -> Row \cup {Null}]
          /\ \A i \in Ids : account'[i] \in {account[i], Null}
          /\ edits' \in {edits, edits + 1} /\ edits' \in 0 .. MaxEdits
          /\ UNCHANGED used
          /\ reader' \in [Readers -> Using \cup Exchanging \cup {Nobody}]
          /\ \A r \in Readers : reader'[r].stage \in {"snapshot", "test"} => reader'[r] = reader[r]
      BY <1>4 DEF Delete, TypeOK, Exchanging, ConstantsAssumption
    <2>2. RowsInv'
      BY <1>0, <2>1, RowsGo
    <2>3. TypeOK'
      BY <1>4, <2>1, <2>2 DEF Delete, TypeOK, Present
    <2>4. OneHolder'
      BY <1>4, StatesStay DEF Delete, TypeOK
    <2>5. QED
      BY <2>2, <2>3, <2>4
  <1>5. ASSUME NEW accounts \in SUBSET Ids, SetAssigned(accounts)
        PROVE  TypeOK' /\ RowsInv' /\ OneHolder'
    <2>1. /\ account' \in [Ids -> Row \cup {Null}]
          /\ \A i \in Ids : account'[i] \in {account[i], Null}
          /\ edits' \in {edits, edits + 1} /\ edits' \in 0 .. MaxEdits
          /\ UNCHANGED used
          /\ reader' \in [Readers -> Using \cup Exchanging \cup {Nobody}]
          /\ \A r \in Readers : reader'[r].stage \in {"snapshot", "test"} => reader'[r] = reader[r]
      BY <1>5 DEF SetAssigned, Edit, TypeOK, Exchanging, ConstantsAssumption
    <2>2. RowsInv'
      BY <1>0, <2>1, RowsGo
    <2>3. TypeOK'
      BY <1>5, <2>1, <2>2 DEF SetAssigned, Edit, TypeOK, Present
    <2>4. OneHolder'
      BY <1>5, StatesStay DEF SetAssigned, TypeOK
    <2>5. QED
      BY <2>2, <2>3, <2>4
  <1>6. ASSUME NEW q \in Readers, NEW i \in Present, NEW stage \in {"snapshot", "test"},
               Remember(q, stage, i),
               UNCHANGED <<account, used, assigned, oauth, made, client, connected, issued, edits>>
        PROVE  TypeOK' /\ RowsInv' /\ OneHolder'
    <2>1. RowsInv' /\ reader' \in [Readers -> Using \cup Exchanging \cup {Nobody}]
      BY <1>0, <1>6, ReaderTakes
    <2>2. TypeOK'
      BY <1>6, <2>1 DEF TypeOK
    <2>3. OneHolder'
      BY <1>6, StatesStay DEF Remember, TypeOK
    <2>4. QED
      BY <2>1, <2>2, <2>3
  <1>7. ASSUME NEW q \in Readers, NEW verdict \in {"ok", "error"}, FinishTest(q, verdict)
        PROVE  TypeOK' /\ RowsInv' /\ OneHolder'
    <2>1. /\ reader' = [reader EXCEPT ![q] = Nobody]
          /\ UNCHANGED <<used, assigned, oauth, made, client, connected, issued, edits>>
      BY <1>7 DEF FinishTest
    <2>2. /\ \A r \in Readers : reader'[r].stage \in {"snapshot", "test"} => reader'[r] = reader[r]
          /\ reader' \in [Readers -> Using \cup Exchanging \cup {Nobody}]
      BY <2>1 DEF TypeOK
    <2>3. /\ account' \in [Ids -> Row \cup {Null}]
          /\ \A i \in Present' :
               /\ i \in Present
               /\ account'[i].kind = account[i].kind
               /\ account'[i].inbound = account[i].inbound
               /\ account'[i].secret = account[i].secret
               /\ account'[i].generation = account[i].generation
      <3>1. account' = StatusWritten(q, verdict)
        BY <1>7 DEF FinishTest
      <3>2. ASSUME NEW i \in Ids
            PROVE  \/ account'[i] = account[i]
                   \/ i \in Present /\ account'[i] = [account[i] EXCEPT !.status = verdict]
        BY <3>1 DEF StatusWritten
      <3>3. ASSUME NEW i \in Present
            PROVE  LET new == [account[i] EXCEPT !.status = verdict] IN
                   /\ new \in Row /\ new.kind = account[i].kind
                   /\ new.inbound = account[i].inbound /\ new.secret = account[i].secret
                   /\ new.generation = account[i].generation
        BY <3>3, Shapes DEF Row
      <3>4. account' \in [Ids -> Row \cup {Null}]
        BY <3>1, <3>2, <3>3 DEF StatusWritten, TypeOK
      <3>5. ASSUME NEW i \in Present' PROVE i \in Present
        BY <3>2 DEF Present
      <3>6. QED
        BY <3>2, <3>3, <3>4, <3>5 DEF Present
    <2>4. RowsInv'
      <3> DEFINE using(r) == reader'[r].stage \in {"snapshot", "test"}
      <3>1. \A r \in Readers : using(r) =>
               reader'[r] = reader[r] /\ reader[r].stage \in {"snapshot", "test"}
        BY <2>2
      <3>2. ReadersBehind'
        BY <1>0, <2>1, <2>3, <3>1 DEF RowsInv, ReadersBehind
      <3>3. GenerationTracksMailbox'
        BY <1>0, <2>3, <3>1 DEF RowsInv, GenerationTracksMailbox
      <3>4. KeyStaysWithItsOrigin'
        BY <1>0, <2>3, <3>1 DEF RowsInv, KeyStaysWithItsOrigin
      <3>5. QED
        BY <3>2, <3>3, <3>4 DEF RowsInv
    <2>5. TypeOK'
      BY <2>1, <2>2, <2>3 DEF TypeOK
    <2>6. OneHolder'
      BY <2>1, StatesStay DEF TypeOK
    <2>7. QED
      BY <2>4, <2>5, <2>6
  <1>8. ASSUME NEW q \in Readers, Release(q) \/ ExchangeFails(q) \/ Restart
        PROVE  TypeOK' /\ RowsInv' /\ OneHolder'
    <2>1. /\ account' \in [Ids -> Row \cup {Null}]
          /\ \A i \in Ids : account'[i] \in {account[i], Null}
          /\ edits' \in {edits, edits + 1} /\ edits' \in 0 .. MaxEdits
          /\ UNCHANGED used
          /\ reader' \in [Readers -> Using \cup Exchanging \cup {Nobody}]
          /\ \A r \in Readers : reader'[r].stage \in {"snapshot", "test"} => reader'[r] = reader[r]
      BY <1>8 DEF Release, ExchangeFails, Restart, TypeOK, Exchanging, ConstantsAssumption
    <2>2. RowsInv'
      BY <1>0, <2>1, RowsGo
    <2>3. TypeOK'
      BY <1>8, <2>1, <2>2 DEF Release, ExchangeFails, Restart, TypeOK, Present
    <2>4. OneHolder'
      BY <1>8, StatesStay DEF Release, ExchangeFails, Restart, TypeOK
    <2>5. QED
      BY <2>2, <2>3, <2>4
  <1>9. ASSUME NEW s \in States, NEW p \in OAuthProviders, Authorize(s, p)
        PROVE  TypeOK' /\ RowsInv' /\ OneHolder'
    <2>1. /\ account' \in [Ids -> Row \cup {Null}]
          /\ \A i \in Ids : account'[i] \in {account[i], Null}
          /\ edits' \in {edits, edits + 1} /\ edits' \in 0 .. MaxEdits
          /\ UNCHANGED used
          /\ reader' \in [Readers -> Using \cup Exchanging \cup {Nobody}]
          /\ \A r \in Readers : reader'[r].stage \in {"snapshot", "test"} => reader'[r] = reader[r]
      BY <1>9 DEF Authorize, TypeOK, Exchanging, ConstantsAssumption
    <2>2. RowsInv'
      BY <1>0, <2>1, RowsGo
    <2>3. TypeOK'
      BY <1>9, <2>1, <2>2 DEF Authorize, TypeOK, Present
    <2>4. OneHolder'
      BY <1>9, AuthorizeHolder
    <2>5. QED
      BY <2>2, <2>3, <2>4
  <1>10. ASSUME NEW s \in States, Expire(s)
        PROVE  TypeOK' /\ RowsInv' /\ OneHolder'
    <2>1. /\ account' \in [Ids -> Row \cup {Null}]
          /\ \A i \in Ids : account'[i] \in {account[i], Null}
          /\ edits' \in {edits, edits + 1} /\ edits' \in 0 .. MaxEdits
          /\ UNCHANGED used
          /\ reader' \in [Readers -> Using \cup Exchanging \cup {Nobody}]
          /\ \A r \in Readers : reader'[r].stage \in {"snapshot", "test"} => reader'[r] = reader[r]
      BY <1>10 DEF Expire, TypeOK, Exchanging, ConstantsAssumption
    <2>2. RowsInv'
      BY <1>0, <2>1, RowsGo
    <2>3. TypeOK'
      <3>1. oauth[s] \in [provider : OAuthProviders, expired : BOOLEAN]
        BY <1>10 DEF Expire, TypeOK
      <3>2. oauth' = [oauth EXCEPT ![s] = [oauth[s] EXCEPT !.expired = TRUE]]
        BY <1>10 DEF Expire
      <3>3. oauth' \in [States -> [provider : OAuthProviders, expired : BOOLEAN] \cup {Null}]
        BY <3>1, <3>2 DEF TypeOK
      <3>4. QED
        BY <1>10, <2>1, <2>2, <3>3 DEF Expire, TypeOK
    <2>4. OneHolder'
      <3>1. \A t \in States : oauth'[t] # Null => oauth[t] # Null
        BY <1>10 DEF Expire, TypeOK
      <3>2. \A t \in States : ExchangeOf(t)' = ExchangeOf(t)
        BY <1>10 DEF Expire, ExchangeOf
      <3>3. \A t \in States : t \notin made => oauth'[t] = Null
        BY <1>10 DEF Expire, TypeOK, OneHolder
      <3>4. made' = made /\ connected' = connected
        BY <1>10 DEF Expire
      <3>5. QED
        BY <3>1, <3>2, <3>3, <3>4 DEF OneHolder
    <2>5. QED
      BY <2>2, <2>3, <2>4
  <1>11. ASSUME NEW q \in Readers, NEW s \in States, NEW p \in OAuthProviders,
                Callback(q, s, p)
        PROVE  TypeOK' /\ RowsInv' /\ OneHolder'
    <2>1. /\ account' \in [Ids -> Row \cup {Null}]
          /\ \A i \in Ids : account'[i] \in {account[i], Null}
          /\ edits' \in {edits, edits + 1} /\ edits' \in 0 .. MaxEdits
          /\ UNCHANGED used
          /\ reader' \in [Readers -> Using \cup Exchanging \cup {Nobody}]
          /\ \A r \in Readers : reader'[r].stage \in {"snapshot", "test"} => reader'[r] = reader[r]
      BY <1>11 DEF Callback, Consumed, TypeOK, Exchanging, ConstantsAssumption
    <2>2. RowsInv'
      BY <1>0, <2>1, RowsGo
    <2>3. TypeOK'
      BY <1>11, <2>1, <2>2 DEF Callback, Consumed, TypeOK, Present
    <2>4. OneHolder'
      BY <1>11, CallbackHolder
    <2>5. QED
      BY <2>2, <2>3, <2>4
  <1>12. ASSUME NEW q \in Readers, NEW i \in Ids, NEW e \in Endpoints, Connect(q, i, e)
         PROVE  TypeOK' /\ RowsInv' /\ OneHolder'
    <2>1. reader[q].provider \in Kinds /\ reader[q].state \in States
      BY <1>12, Shapes DEF Connect, Exchanging, Kinds
    <2>2. /\ i \in Ids \ used /\ MayIssue /\ used' = used \cup {i}
          /\ account' = [account EXCEPT ![i] = NewRow(reader[q].provider, e, Issue(e.origin))]
          /\ UNCHANGED edits
          /\ \A r \in Readers : reader'[r].stage \in {"snapshot", "test"} => reader'[r] = reader[r]
          /\ reader' \in [Readers -> Using \cup Exchanging \cup {Nobody}]
      BY <1>12 DEF Connect, TypeOK
    <2>3. RowsInv' /\ account' \in [Ids -> Row \cup {Null}] /\ used' \subseteq Ids
      BY <1>0, <2>1, <2>2, RowAppears
    <2>4. issued' \in 0 .. MaxIssued
      BY <1>12, <2>1, NewRowFits DEF Connect, TypeOK
    <2>5. TypeOK'
      BY <1>12, <2>1, <2>2, <2>3, <2>4 DEF Connect, TypeOK
    <2>6. OneHolder'
      BY <1>12, ConnectHolder
    <2>7. QED
      BY <2>3, <2>5, <2>6
  <1>13. ASSUME NEW p \in OAuthProviders, NEW withSecret \in BOOLEAN, SaveSettings(p, withSecret)
         PROVE  TypeOK' /\ RowsInv' /\ OneHolder'
    <2>1. edits' \in {edits, edits + 1} /\ edits' \in 0 .. MaxEdits
      BY <1>13 DEF SaveSettings, Edit, TypeOK, ConstantsAssumption
    <2>2. UNCHANGED <<account, used, assigned, oauth, made, reader, connected, issued>>
      BY <1>13 DEF SaveSettings
    <2>3. client' \in Clients
      BY <1>13 DEF SaveSettings, Clients, TypeOK
    <2>4. TypeOK'
      BY <2>1, <2>2, <2>3 DEF TypeOK
    <2>5. RowsInv'
      BY <1>0, <2>1, <2>2, RowsGo DEF TypeOK
    <2>6. OneHolder'
      BY <1>0, <2>2, StatesStay
    <2>7. QED
      BY <2>4, <2>5, <2>6
  <1>14. CASE UNCHANGED vars
    <2>1. TypeOK' /\ account' = account /\ edits' = edits /\ used' = used /\ reader' = reader
      BY <1>14 DEF vars, TypeOK
    <2>2. OneHolder'
      BY <1>0, <1>14, StatesStay DEF vars
    <2>3. RowsInv'
      <3>1. Present' = Present
        BY <2>1 DEF Present
      <3>2. QED
        BY <1>0, <2>1, <3>1
        DEF RowsInv, ReadersBehind, GenerationTracksMailbox, KeyStaysWithItsOrigin
    <2>4. QED
      BY <2>1, <2>2, <2>3
  <1>15. CASE Registry
    BY <1>15, <1>1, <1>2, <1>3, <1>4, <1>5 DEF Registry
  <1>16. CASE Reading
    <2>1. PICK r \in Readers :
            \/ \E i \in Ids : Snapshot(r, i) \/ BeginTest(r, i)
            \/ \E verdict \in {"ok", "error"} : FinishTest(r, verdict)
            \/ Release(r)
      BY <1>16 DEF Reading
    <2>2. ASSUME NEW i \in Ids, Snapshot(r, i)
          PROVE  TypeOK' /\ RowsInv' /\ OneHolder'
      BY <2>2, <1>6 DEF Snapshot
    <2>3. ASSUME NEW i \in Ids, BeginTest(r, i)
          PROVE  TypeOK' /\ RowsInv' /\ OneHolder'
      BY <2>3, <1>6 DEF BeginTest
    <2>4. QED
      BY <2>1, <2>2, <2>3, <1>7, <1>8
  <1>17. CASE OAuth
    BY <1>17, <1>8, <1>9, <1>10, <1>11, <1>12, <1>13 DEF OAuth
  <1>18. CASE Restart
    <2>1. PICK q \in Readers : TRUE
      BY <1>18 DEF Restart
    <2>2. QED
      BY <1>18, <2>1, <1>8
  <1>19. QED
    BY <1>15, <1>16, <1>17, <1>18, <1>14 DEF Next

-----------------------------------------------------------------------------
(* The rows, their readers and the OAuth states keep the inductive         *)
(* invariant of AccountService's handlers.                                 *)
THEOREM RegistryInvariant == Spec => []RegistryInv
  <1>1. Init => RegistryInv
    BY InitRegistry, ConstantsAssumption
  <1>2. RegistryInv /\ [Next]_vars => RegistryInv'
    BY NextRegistry, ConstantsAssumption
  <1>3. QED
    BY <1>1, <1>2, PTL DEF Spec

(* Every reachable state of the registry is well typed. *)
THEOREM RegistryTypeCorrect == Spec => []TypeOK
  <1>1. RegistryInv => TypeOK
    BY DEF RegistryInv
  <1>2. QED
    BY <1>1, RegistryInvariant, PTL

(* An API key is only ever used with the origin that issued it, in the row *)
(* and in every provider built from an earlier version of the row          *)
(* (updateAccount).                                                        *)
THEOREM KeyStaysHolds == Spec => []KeyStaysWithItsOrigin
  <1>1. RegistryInv => KeyStaysWithItsOrigin
    BY DEF RegistryInv
  <1>2. QED
    BY <1>1, RegistryInvariant, PTL

(* Equal generations mean an unchanged endpoint and credential             *)
(* (getInboundProviderSnapshot, updateAccount, setAccountEnabled).         *)
THEOREM GenerationTracksHolds == Spec => []GenerationTracksMailbox
  <1>1. RegistryInv => GenerationTracksMailbox
    BY DEF RegistryInv
  <1>2. QED
    BY <1>1, RegistryInvariant, PTL

(* An OAuth state connects one account at most (consumeOauthState). *)
THEOREM StateUsedOnceHolds == Spec => []StateUsedOnce
  <1>1. RegistryInv => StateUsedOnce
    <2> SUFFICES ASSUME RegistryInv, NEW s \in States
                 PROVE  Cardinality(connected[s]) <= 1
      BY DEF StateUsedOnce
    <2>1. CASE connected[s] = {}
      BY <2>1, FS_EmptySet
    <2>2. CASE connected[s] # {}
      <3>1. PICK i : i \in connected[s]
        BY <2>2
      <3>2. connected[s] = {i}
        BY <3>1 DEF RegistryInv, OneHolder
      <3>3. QED
        BY <3>2, FS_Singleton
    <2>3. QED
      BY <2>1, <2>2
  <1>2. QED
    BY <1>1, RegistryInvariant, PTL

(* No late verdict, snapshot or callback brings a deleted account back     *)
(* (updateAccountConnectionStatus, persistAccount).                        *)
THEOREM DeletedStaysDeletedHolds == Spec => DeletedStaysDeleted
  <1>1. RegistryInv /\ [Next]_vars => [\A i \in used : account[i] = Null => account'[i] = Null]_vars
    <2> SUFFICES ASSUME RegistryInv, Next, NEW i \in used, account[i] = Null
                 PROVE  account'[i] = Null
      OBVIOUS
    <2>1. TypeOK /\ i \in Ids /\ i \notin Present
      BY DEF RegistryInv, TypeOK, Present
    <2>2. CASE Registry
      <3>1. ASSUME NEW j \in Ids, NEW e \in Endpoints, NEW kind \in Kinds, Create(j, kind, e)
            PROVE  account'[i] = Null
        BY <2>1, <3>1 DEF Create, TypeOK
      <3>2. ASSUME NEW j \in Ids, NEW e \in Endpoints,
                   NEW newSecret \in BOOLEAN, Update(j, e, newSecret)
            PROVE  account'[i] = Null
        BY <2>1, <3>2 DEF Update, TypeOK
      <3>3. ASSUME NEW j \in Ids, Delete(j) \/ \E value \in BOOLEAN : SetEnabled(j, value)
            PROVE  account'[i] = Null
        BY <2>1, <3>3 DEF Delete, SetEnabled, TypeOK
      <3>4. ASSUME NEW accounts \in SUBSET Ids, SetAssigned(accounts)
            PROVE  account'[i] = Null
        BY <2>1, <3>4 DEF SetAssigned, TypeOK
      <3>5. QED
        BY <2>2, <3>1, <3>2, <3>3, <3>4 DEF Registry
    <2>3. CASE Reading
      BY <2>1, <2>3 DEF Reading, Snapshot, BeginTest, FinishTest, StatusWritten, Release, TypeOK
    <2>4. CASE OAuth
      BY <2>1, <2>4 DEF OAuth, SaveSettings, Authorize, Expire, Callback, Connect, ExchangeFails, TypeOK
    <2>5. CASE Restart
      BY <2>5 DEF Restart
    <2>6. QED
      BY <2>2, <2>3, <2>4, <2>5 DEF Next
  <1>2. QED
    BY <1>1, RegistryInvariant, PTL DEF Spec, DeletedStaysDeleted

-----------------------------------------------------------------------------
(* The versions of a row. *)

VersionStep(i) == [Version(i)!VersionsNext]_(Version(i)!versionVars)

(* What a step leaves of a row but its status leaves its version. *)
LEMMA SameVersion ==
  ASSUME NEW i \in Ids, i \in used' <=> i \in used,
         \/ account'[i] = account[i]
         \/ /\ account[i] # Null /\ account'[i] # Null
            /\ account'[i].enabled = account[i].enabled
            /\ account'[i].generation = account[i].generation
            /\ account'[i].inbound = account[i].inbound
            /\ account'[i].secret = account[i].secret
  PROVE  VersionStep(i)
  <1>1. UNCHANGED Version(i)!versionVars
    BY DEF Version!versionVars, StateOf
  <1>2. QED
    BY <1>1 DEF VersionStep

(* An edited row is a row. *)
LEMMA UpdatedRow ==
  ASSUME RegistryInv, ConstantsAssumption, NEW j \in Ids, NEW e \in Endpoints,
         NEW newSecret \in BOOLEAN, Update(j, e, newSecret)
  PROVE  account'[j] \in Row
  <1> DEFINE secret == IF newSecret THEN Issue(e.origin) ELSE account[j].secret
             moves == MovesMailbox(account[j], e, secret)
  <1>1. /\ j \in Present /\ account[j] \in Row /\ account[j].generation <= edits + 1
        /\ edits \in 0 .. MaxEdits /\ edits < MaxEdits /\ issued \in 0 .. MaxIssued
        /\ MaxEdits \in Nat /\ MaxIssued \in Nat
    BY Shapes DEF RegistryInv, ReadersBehind, TypeOK, Update, Edit, ConstantsAssumption
  <1>2. secret \in Secrets
    <2>1. CASE newSecret
      BY <1>1, <2>1 DEF Update, MayIssue, Issue, Secrets, Endpoints
    <2>2. CASE ~newSecret
      BY <1>1, <2>2 DEF Row
    <2>3. QED
      BY <2>1, <2>2
  <1>3. account' = [account EXCEPT ![j] =
             [account[j] EXCEPT !.inbound = e, !.secret = secret,
                !.generation = IF moves THEN @ + 1 ELSE @]]
    BY DEF Update
  <1> HIDE DEF secret, moves
  <1>4. account'[j] = [account[j] EXCEPT !.inbound = e, !.secret = secret,
                          !.generation = IF moves THEN @ + 1 ELSE @]
    BY <1>3 DEF RegistryInv, TypeOK
  <1>5. account[j].generation + 1 \in 1 .. MaxEdits + 1
    BY <1>1 DEF Row
  <1>6. CASE moves
    BY <1>1, <1>2, <1>4, <1>5, <1>6 DEF Row
  <1>7. CASE ~moves
    BY <1>1, <1>2, <1>4, <1>7 DEF Row
  <1>8. QED
    BY <1>6, <1>7

LEMMA SwitchedRow ==
  ASSUME RegistryInv, ConstantsAssumption, NEW j \in Ids, NEW value \in BOOLEAN,
         SetEnabled(j, value)
  PROVE  account'[j] \in Row
  <1>1. /\ account[j] \in Row /\ account[j].generation <= edits + 1
        /\ edits \in 0 .. MaxEdits /\ edits < MaxEdits /\ MaxEdits \in Nat
    BY Shapes DEF RegistryInv, ReadersBehind, TypeOK, SetEnabled, Edit, ConstantsAssumption
  <1>2. account[j].generation + 1 \in 1 .. MaxEdits + 1
    BY <1>1 DEF Row
  <1>3. account'[j] = [account[j] EXCEPT !.enabled = value, !.generation = @ + 1]
    BY <1>1 DEF SetEnabled, RegistryInv, TypeOK, Row
  <1>4. QED
    BY <1>1, <1>2, <1>3 DEF Row

(* A row that appears is of the first generation. *)
LEMMA NewVersion ==
  ASSUME RegistryInv, ConstantsAssumption, NEW j \in Ids \ used, NEW i \in Ids,
         NEW k \in Kinds, NEW e \in Endpoints, MayIssue, used' = used \cup {j},
         account' = [account EXCEPT ![j] = NewRow(k, e, Issue(e.origin))]
  PROVE  VersionStep(i)
  <1>1. TypeOK /\ Present \subseteq used
    BY DEF RegistryInv, ReadersBehind
  <1>2. CASE i = j
    <2>1. account[i] = Null /\ i \notin used
      BY <1>1, <1>2 DEF Present
    <2>2. account'[i] = NewRow(k, e, Issue(e.origin)) /\ NewRow(k, e, Issue(e.origin)) \in Row
      BY <1>1, <1>2, NewRowFits DEF TypeOK
    <2>3. account'[i] # Null
      BY <2>2, NullAssumption DEF NullAssumption
    <2>4. account'[i].enabled = TRUE /\ account'[i].generation = 1
      BY <2>2 DEF NewRow
    <2>5. Version(i)!Add
      BY <2>1, <2>3, <2>4 DEF Version!Add, StateOf
    <2>6. QED
      BY <2>5 DEF VersionStep, Version!VersionsNext
  <1>3. CASE i # j
    BY <1>1, <1>3, SameVersion DEF TypeOK
  <1>4. QED
    BY <1>2, <1>3

LEMMA EditedVersion ==
  ASSUME RegistryInv, ConstantsAssumption, NEW j \in Ids, NEW i \in Ids,
         NEW e \in Endpoints, NEW newSecret \in BOOLEAN, Update(j, e, newSecret)
  PROVE  VersionStep(i)
  <1>0. TypeOK
    BY DEF RegistryInv
  <1> DEFINE secret == IF newSecret THEN Issue(e.origin) ELSE account[j].secret
  <1>1. /\ j \in Present /\ account[j] \in Row /\ used' = used
        /\ account' = [account EXCEPT ![j] =
             [account[j] EXCEPT !.inbound = e, !.secret = secret,
                !.generation = IF MovesMailbox(account[j], e, secret) THEN @ + 1 ELSE @]]
    BY <1>0 DEF Update, Present, TypeOK
  <1> HIDE DEF secret
  <1>2. CASE i = j
    <2>0. account[i] \in Row
      BY <1>1, <1>2
    <2>1. account'[i] = [account[i] EXCEPT !.inbound = e, !.secret = secret,
             !.generation = IF MovesMailbox(account[i], e, secret) THEN @ + 1 ELSE @]
      BY <1>0, <1>1, <1>2 DEF TypeOK
    <2>2. /\ account'[i].enabled = account[i].enabled /\ account'[i].kind = account[i].kind
          /\ account'[i].inbound = e /\ account'[i].secret = secret
          /\ account'[i].generation = IF MovesMailbox(account[i], e, secret)
                                        THEN account[i].generation + 1
                                        ELSE account[i].generation
      <3>1. CASE MovesMailbox(account[i], e, secret)
        BY <2>0, <2>1, <3>1 DEF Row
      <3>2. CASE ~MovesMailbox(account[i], e, secret)
        BY <2>0, <2>1, <3>2 DEF Row
      <3>3. QED
        BY <3>1, <3>2
    <2>3. account[i] # Null /\ account'[i] # Null
      BY <1>1, <1>2, UpdatedRow, NullAssumption DEF Present, NullAssumption
    <2>4. CASE MovesMailbox(account[i], e, secret)
      <3>1. Version(i)!Repoint
        BY <1>1, <1>2, <2>2, <2>3, <2>4 DEF Version!Repoint, Version!Live, StateOf
      <3>2. QED
        BY <3>1 DEF VersionStep, Version!VersionsNext
    <2>5. CASE ~MovesMailbox(account[i], e, secret)
      <3>1. account[i].inbound = e /\ account[i].secret = secret
        BY <2>5 DEF MovesMailbox
      <3>2. QED
        BY <1>1, <2>2, <2>3, <2>5, <3>1, SameVersion
    <2>6. QED
      BY <2>4, <2>5
  <1>3. CASE i # j
    BY <1>0, <1>1, <1>3, SameVersion DEF TypeOK
  <1>4. QED
    BY <1>2, <1>3

LEMMA SwitchedVersion ==
  ASSUME RegistryInv, ConstantsAssumption, NEW j \in Ids, NEW i \in Ids, NEW value \in BOOLEAN,
         SetEnabled(j, value)
  PROVE  VersionStep(i)
  <1>1. /\ TypeOK /\ j \in Present /\ account[j] \in Row /\ used' = used
        /\ account[j].enabled # value
        /\ account' = [account EXCEPT ![j].enabled = value, ![j].generation = @ + 1]
    BY DEF RegistryInv, SetEnabled, Present, TypeOK
  <1>2. CASE i = j
    <2>1. /\ account'[i].enabled = value
          /\ account'[i].generation = account[i].generation + 1
          /\ account'[i].inbound = account[i].inbound
          /\ account'[i].secret = account[i].secret
      BY <1>1, <1>2 DEF TypeOK, Row
    <2>2. account[i] # Null /\ account'[i] # Null
      BY <1>1, <1>2, SwitchedRow, NullAssumption DEF Present, NullAssumption
    <2>3. account[i].enabled \in BOOLEAN
      BY <1>1, <1>2 DEF Row
    <2>4. Version(i)!Switch
      <3>1. CASE value
        <4>1. StateOf(i) = "disabled" /\ StateOf(i)' = "enabled"
          BY <1>1, <1>2, <2>1, <2>2, <2>3, <3>1 DEF StateOf
        <4>2. QED
          BY <2>1, <2>2, <4>1 DEF Version!Switch, Version!Live
      <3>2. CASE ~value
        <4>1. StateOf(i) = "enabled" /\ StateOf(i)' = "disabled"
          BY <1>1, <1>2, <2>1, <2>2, <2>3, <3>2 DEF StateOf
        <4>2. QED
          BY <2>1, <2>2, <4>1 DEF Version!Switch, Version!Live
      <3>3. QED
        BY <3>1, <3>2
    <2>5. QED
      BY <2>4 DEF VersionStep, Version!VersionsNext
  <1>3. CASE i # j
    BY <1>1, <1>3, SameVersion DEF TypeOK
  <1>4. QED
    BY <1>2, <1>3

LEMMA RemovedVersion ==
  ASSUME RegistryInv, NEW j \in Ids, NEW i \in Ids, Delete(j)
  PROVE  VersionStep(i)
  <1>1. /\ TypeOK /\ Present \subseteq used /\ j \in Present /\ used' = used
        /\ account' = [account EXCEPT ![j] = Null]
    BY DEF RegistryInv, ReadersBehind, Delete
  <1>2. CASE i = j
    <2>1. account[i] # Null /\ account'[i] = Null /\ i \in used'
      BY <1>1, <1>2 DEF Present, TypeOK
    <2>2. Version(i)!Remove
      BY <2>1 DEF Version!Remove, Version!Live, StateOf
    <2>3. QED
      BY <2>2 DEF VersionStep, Version!VersionsNext
  <1>3. CASE i # j
    BY <1>1, <1>3, SameVersion DEF TypeOK
  <1>4. QED
    BY <1>2, <1>3

(* A verdict is not part of a version. *)
LEMMA TestedVersion ==
  ASSUME RegistryInv, NEW r \in Readers, NEW verdict \in {"ok", "error"}, NEW i \in Ids,
         FinishTest(r, verdict)
  PROVE  VersionStep(i)
  <1>1. /\ TypeOK /\ used' = used
        /\ account'[i] = IF i = reader[r].id /\ i \in Present
                           THEN [account[i] EXCEPT !.status = verdict] ELSE account[i]
    BY DEF RegistryInv, FinishTest, StatusWritten
  <1>2. CASE i = reader[r].id /\ i \in Present
    <2>1. account[i] \in Row /\ account[i] # Null
      BY <1>1, <1>2, Shapes DEF Present
    <2>2. account'[i] = [account[i] EXCEPT !.status = verdict]
      BY <1>1, <1>2
    <2>3. account'[i] \in Row
      BY <2>1, <2>2 DEF Row
    <2>4. account'[i] # Null
      BY <2>3, NullAssumption DEF NullAssumption
    <2>5. /\ account'[i].enabled = account[i].enabled
          /\ account'[i].generation = account[i].generation
          /\ account'[i].inbound = account[i].inbound
          /\ account'[i].secret = account[i].secret
      BY <2>1, <2>2 DEF Row
    <2>6. QED
      BY <1>1, <2>1, <2>4, <2>5, SameVersion
  <1>3. CASE ~(i = reader[r].id /\ i \in Present)
    BY <1>1, <1>3, SameVersion
  <1>4. QED
    BY <1>2, <1>3

LEMMA EveryStepIsVersioned ==
  ASSUME RegistryInv, ConstantsAssumption, Next, NEW i \in Ids
  PROVE  VersionStep(i)
  <1>1. CASE Registry
    <2>1. ASSUME NEW j \in Ids, NEW e \in Endpoints, NEW k \in Kinds, Create(j, k, e)
          PROVE  VersionStep(i)
      BY <2>1, NewVersion DEF Create
    <2>2. ASSUME NEW j \in Ids, NEW e \in Endpoints,
                 NEW newSecret \in BOOLEAN, Update(j, e, newSecret)
          PROVE  VersionStep(i)
      BY <2>2, EditedVersion
    <2>3. ASSUME NEW j \in Ids, Delete(j)
          PROVE  VersionStep(i)
      BY <2>3, RemovedVersion
    <2>4. ASSUME NEW j \in Ids, NEW value \in BOOLEAN, SetEnabled(j, value)
          PROVE  VersionStep(i)
      BY <2>4, SwitchedVersion
    <2>5. ASSUME NEW accounts \in SUBSET Ids, SetAssigned(accounts)
          PROVE  VersionStep(i)
      BY <2>5, SameVersion DEF SetAssigned
    <2>6. QED
      BY <1>1, <2>1, <2>2, <2>3, <2>4, <2>5 DEF Registry
  <1>2. CASE Reading
    <2>1. ASSUME NEW r \in Readers, NEW verdict \in {"ok", "error"}, FinishTest(r, verdict)
          PROVE  VersionStep(i)
      BY <2>1, TestedVersion
    <2>2. ASSUME NEW r \in Readers,
                 Release(r) \/ \E j \in Ids : Snapshot(r, j) \/ BeginTest(r, j)
          PROVE  VersionStep(i)
      BY <2>2, SameVersion DEF Release, Snapshot, BeginTest
    <2>3. QED
      BY <1>2, <2>1, <2>2 DEF Reading
  <1>3. CASE OAuth
    <2>1. ASSUME NEW r \in Readers, NEW j \in Ids, NEW e \in Endpoints, Connect(r, j, e)
          PROVE  VersionStep(i)
      <3>1. TypeOK
        BY DEF RegistryInv
      <3>2. reader[r].provider \in Kinds
        BY <2>1, <3>1, Shapes DEF Connect, Exchanging, Kinds
      <3>3. QED
        BY <2>1, <3>2, NewVersion DEF Connect
    <2>2. ASSUME NEW p \in OAuthProviders, NEW withSecret \in BOOLEAN,
                 SaveSettings(p, withSecret)
          PROVE  VersionStep(i)
      BY <2>2, SameVersion DEF SaveSettings
    <2>3. ASSUME NEW s \in States, Expire(s) \/ \E p \in OAuthProviders : Authorize(s, p)
          PROVE  VersionStep(i)
      BY <2>3, SameVersion DEF Expire, Authorize
    <2>4. ASSUME NEW r \in Readers,
                 \/ ExchangeFails(r)
                 \/ \E s \in States, p \in OAuthProviders : Callback(r, s, p)
          PROVE  VersionStep(i)
      BY <2>4, SameVersion DEF ExchangeFails, Callback
    <2>5. QED
      BY <1>3, <2>1, <2>2, <2>3, <2>4 DEF OAuth
  <1>4. CASE Restart
    BY <1>4, SameVersion DEF Restart
  <1>5. QED
    BY <1>1, <1>2, <1>3, <1>4 DEF Next

(* The rows of the registry have the versions that AccountVersions         *)
(* promises to the poller, whatever edits, tests, connections and restarts *)
(* come in between.                                                        *)
THEOREM ImplementsVersionsHolds == Spec => ImplementsVersions
  <1>1. Init => \A i \in Ids : Version(i)!VersionsInit
    BY DEF Init, Version!VersionsInit, StateOf
  <1>2. RegistryInv /\ [Next]_vars
          => [\A i \in Ids : [Version(i)!VersionsNext]_(Version(i)!versionVars)
             ]_<<account, used>>
    <2> SUFFICES ASSUME RegistryInv, Next
                 PROVE  \A i \in Ids : VersionStep(i)
      BY DEF vars, VersionStep
    <2>1. QED
      BY EveryStepIsVersioned, ConstantsAssumption
  <1>3. QED
    BY <1>1, <1>2, RegistryInvariant, PTL DEF Spec, ImplementsVersions
=============================================================================
