-------------------------- MODULE MCConsumerRollout --------------------------
(***************************************************************************)
(* Instances of ConsumerRollout for TLC: two payloads of one event_id (a   *)
(* message and a changed copy of it), one of another event.                *)
(***************************************************************************)
EXTENDS ConsumerRollout, TLC

CONSTANTS e1, e1changed, e2, bad, overflow, deep

MCValid == {e1, e1changed, e2}
MCEventId == (e1 :> 1) @@ (e1changed :> 1) @@ (e2 :> 2)
MCMalformed == {bad}
MCPoison == {overflow}
MCUndecodable == {deep}
=============================================================================
