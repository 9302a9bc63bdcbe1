--------------------------- MODULE MCIcebergWriter ---------------------------
(***************************************************************************)
(* Instances of IcebergWriter for TLC: two payloads of one event_id, one   *)
(* of another, a malformed and a poison payload.                           *)
(***************************************************************************)
EXTENDS IcebergValidation, TLC

CONSTANTS e1, e1changed, e2, bad, overflow

MCValid == {e1, e1changed, e2}
MCEventId == (e1 :> 1) @@ (e1changed :> 1) @@ (e2 :> 2)
MCMalformed == {bad}
MCPoison == {overflow}
=============================================================================
