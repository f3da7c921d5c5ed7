------------------------------- MODULE MCInbound -------------------------------
(* InboundPoll on small instances, for TLC. *)
EXTENDS InboundPoll

CONSTANTS b1, b2

OneMailbox == {b1}
TwoMailboxes == {b1, b2}
===============================================================================
