--------------------------- MODULE MCApprovalAPI ---------------------------
(***************************************************************************)
(* Instances of ApprovalAPI for TLC.                                       *)
(***************************************************************************)
EXTENDS ApprovalAPI, TLC

CONSTANTS k1, k2, p1, p2, stable, canary

MCKeys == {k1, k2}
MCPairs == {p1, p2}
MCPods == {stable, canary}
=============================================================================
