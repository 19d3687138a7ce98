-------------------------- MODULE MCOutboxPublisher --------------------------
(***************************************************************************)
(* OutboxPublisher with a few rows and two instances.                      *)
(***************************************************************************)
EXTENDS OutboxPublisher

=============================================================================
