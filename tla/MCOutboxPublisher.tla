------------------------- MODULE MCOutboxPublisher -------------------------
(***************************************************************************)
(* Instances of OutboxPublisher for TLC.                                   *)
(***************************************************************************)
EXTENDS OutboxPublisher, TLC

CONSTANTS old, new   \* the two pods of a rolling update

MCPublishers == {old, new}
=============================================================================
