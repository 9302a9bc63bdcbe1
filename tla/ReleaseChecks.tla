---------------------------- MODULE ReleaseChecks ----------------------------
(* What stands between a change and its users: CI compares a changed event  *)
(* schema with the deployed one (SchemaCompatibility) and validates the     *)
(* lineage of a data product (LineageCatalog), and the canary gate decides  *)
(* on a new version of the API (CanaryGate).  None of them reads what       *)
(* another has decided; a behaviour is one job of one kind.                 *)
EXTENDS SchemaCompatibility, LineageCatalog, CanaryGate

VARIABLE job  \* the check under way

releaseVars == <<schemaVars, catalogVars, gateVars, job>>

\* What a job is not about is empty.
NoSchema == [required |-> {}, additional |-> Absent, properties |-> [n \in {} |-> n]]
SchemaUnused == baseline = NoSchema /\ candidate = NoSchema /\ accepted = 0
CatalogUnused == Document([asset \in Assets |-> {}], {})

ReleaseInit ==
    \/ job = "schema" /\ SchemaInit /\ CatalogUnused /\ GateInit
    \/ job = "lineage" /\ SchemaUnused /\ CatalogInit /\ GateInit
    \/ job = "canary" /\ SchemaUnused /\ CatalogUnused /\ GateInit

ReleaseNext ==
    /\ \/ job = "schema" /\ SchemaNext /\ UNCHANGED <<catalogVars, gateVars>>
       \/ job = "lineage" /\ CatalogNext /\ UNCHANGED <<schemaVars, gateVars>>
       \/ job = "canary" /\ GateNext /\ UNCHANGED <<schemaVars, catalogVars>>
    /\ UNCHANGED job

\* CI jobs run to their end by themselves; the gate is scheduled by clocks.
ReleaseSpec == ReleaseInit /\ [][ReleaseNext]_releaseVars /\ GateFairness
=============================================================================
