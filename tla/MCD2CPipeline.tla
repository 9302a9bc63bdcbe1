---------------------------- MODULE MCD2CPipeline ----------------------------
(***************************************************************************)
(* Instances of D2CPipeline for TLC.                                       *)
(***************************************************************************)
EXTENDS D2CPipeline, TLC

CONSTANTS k1, k2, p1, p2, stable, publisher

MCKeys == {k1, k2}
MCPairs == {p1, p2}
MCPublishers == {publisher}
=============================================================================
