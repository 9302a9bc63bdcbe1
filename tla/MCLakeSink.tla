----------------------------- MODULE MCLakeSink -----------------------------
(***************************************************************************)
(* Instances of LakeSink for TLC: three events on two days.                *)
(***************************************************************************)
EXTENDS LakeQualityGate, TLC

CONSTANTS e1, e2, e3, monday, tuesday, b1, b2

MCEvents == {e1, e2, e3}
MCDates == {monday, tuesday}
MCDateOf == (e1 :> monday) @@ (e2 :> tuesday) @@ (e3 :> monday)
MCBatches == {b1, b2}
=============================================================================
