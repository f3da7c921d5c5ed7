---------------------------- MODULE AccountVersions ----------------------------
(***************************************************************************)
(* The versions of one account's row, as those who read it across an await *)
(* may count on them: setAccountEnabled and upsertEmailAccount of          *)
(* src/src/db/database.ts keep inbound_generation so that it tells two     *)
(* mailboxes, and two spells of being enabled, apart.  AccountRegistry     *)
(* implements this for every account, and InboundPoll relies on no more.   *)
(***************************************************************************)
EXTENDS Naturals

VARIABLES
  state,        \* "none", "enabled", "disabled" or "deleted"
  generation,   \* inbound_generation; 0 when there is no row
  mailbox       \* what is read through the row: its endpoint and credential

versionVars == <<state, generation, mailbox>>

Live == state \in {"enabled", "disabled"}

VersionsInit ==
  \/ state = "none" /\ generation = 0
  \/ state = "enabled" /\ generation = 1

Add ==
  /\ state = "none"
  /\ state' = "enabled" /\ generation' = 1

Switch ==
  /\ Live
  /\ state' = IF state = "enabled" THEN "disabled" ELSE "enabled"
  /\ generation' = generation + 1
  /\ UNCHANGED mailbox

(* Another endpoint, another identity or another credential; it may be     *)
(* that of an earlier generation.                                          *)
Repoint ==
  /\ Live
  /\ generation' = generation + 1
  /\ UNCHANGED state

(* Ids are random: a deleted account does not come back. *)
Remove ==
  /\ Live
  /\ state' = "deleted" /\ generation' = 0

VersionsNext == Add \/ Switch \/ Repoint \/ Remove

VersionsSpec == VersionsInit /\ [][VersionsNext]_versionVars
================================================================================
