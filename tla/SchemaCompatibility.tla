------------------------- MODULE SchemaCompatibility -------------------------
(***************************************************************************)
(* The backward-compatibility check of event schemas                       *)
(* (scripts/check_schema_compatibility.py): CI compares the deployed       *)
(* schema with the proposed one and lets the proposal pass when no error   *)
(* is found.  Here the comparison stands beside what it is for, the        *)
(* instances each schema admits.                                           *)
(*                                                                         *)
(* A schema is an object schema with properties that are leaves.  Of the   *)
(* four lower and the four upper bounds, compared alike, a leaf keeps      *)
(* minimum and maximum; const and pattern are compared alike, and const is *)
(* kept; items is a nested comparison like that of a property.             *)
(***************************************************************************)
EXTENDS Integers, FiniteSets

CONSTANTS Names,    \* property names
          Numbers,  \* integers an instance may hold
          Texts,    \* strings an instance may hold
          Leaves,   \* leaf schemas that occur in a schema
          Policies, \* values of additionalProperties that occur
          Absent    \* the value of a keyword that is not there

Has(value) == value # Absent

Types == {"integer", "string"}
Values == Numbers \cup Texts

Leaf(type, const, enum, minimum, maximum) ==
    [type |-> type, const |-> const, enum |-> enum, minimum |-> minimum, maximum |-> maximum]

\* properties is a function on the names that have a schema.
Schemas ==
    UNION {[required : SUBSET Names, additional : Policies, properties : [N -> Leaves]] :
               N \in SUBSET Names}

ASSUME SchemaAssumption ==
    /\ Numbers \subseteq Int
    /\ Policies \subseteq {Absent, TRUE, FALSE}
    /\ \A s \in Leaves :
          /\ s = Leaf(s.type, s.const, s.enum, s.minimum, s.maximum)
          /\ Has(s.minimum) => s.minimum \in Int
          /\ Has(s.maximum) => s.maximum \in Int

VARIABLES baseline,   \* the deployed schema
          candidate,  \* the proposed one
          accepted    \* proposals CI has let pass since the baseline

schemaVars == <<baseline, candidate, accepted>>

(***************************************************************************)
(* _compare_constraints                                                    *)
(***************************************************************************)
TypesKept(b, c) == Has(b.type) => Has(c.type) /\ b.type \subseteq c.type
ConstKept(b, c) == Has(b.const) => c.const = b.const
EnumKept(b, c) == Has(b.enum) => b.enum \subseteq (IF Has(c.enum) THEN c.enum ELSE {})

\* The bounds compared in the wrong direction.
BoundSwapped(b, c) ==
    /\ Has(b.minimum) => Has(c.minimum) /\ c.minimum >= b.minimum
    /\ Has(b.maximum) => Has(c.maximum) /\ c.maximum <= b.maximum

\* A bound that may be dropped once it has been declared.
BoundNotTightened(b, c) ==
    /\ Has(b.minimum) /\ Has(c.minimum) => c.minimum <= b.minimum
    /\ Has(b.maximum) /\ Has(c.maximum) => c.maximum >= b.maximum

BoundKept(b, c) ==
    /\ Has(b.minimum) => Has(c.minimum) /\ c.minimum <= b.minimum
    /\ Has(b.maximum) => Has(c.maximum) /\ c.maximum >= b.maximum

LeafCompatible(b, c) ==
    TypesKept(b, c) /\ ConstKept(b, c) /\ EnumKept(b, c) /\ BoundKept(b, c)

\* required is compared in both directions, additionalProperties for equality,
\* and every property of the baseline is there and compatible.
Compatible(b, c) ==
    /\ Has(b.additional) => c.additional = b.additional
    /\ b.required = c.required
    /\ \A n \in DOMAIN b.properties :
          /\ n \in DOMAIN c.properties
          /\ LeafCompatible(b.properties[n], c.properties[n])

(***************************************************************************)
(* What the schemas mean (JSON Schema, external)                           *)
(***************************************************************************)
TypeOf(v) == IF v \in Numbers THEN "integer" ELSE "string"

ValidValue(v, s) ==
    /\ Has(s.type) => TypeOf(v) \in s.type
    /\ Has(s.const) => v = s.const
    /\ Has(s.enum) => v \in s.enum
    /\ v \in Numbers => /\ Has(s.minimum) => v >= s.minimum
                        /\ Has(s.maximum) => v <= s.maximum

\* Events: values for some of the names.
Instances == UNION {[N -> Values] : N \in SUBSET Names}

ValidInstance(event, s) ==
    /\ s.required \subseteq DOMAIN event
    /\ \A n \in DOMAIN event \cap DOMAIN s.properties : ValidValue(event[n], s.properties[n])
    /\ s.additional = FALSE => DOMAIN event \subseteq DOMAIN s.properties

Breaks(b, c) == \E event \in Instances : ValidInstance(event, b) /\ ~ValidInstance(event, c)

(***************************************************************************)
(* A contract's history: proposals pass CI one after the other.            *)
(***************************************************************************)
SchemaInit ==
    /\ baseline \in Schemas
    /\ candidate = baseline
    /\ accepted = 0

\* The next proposal is compared with the one accepted before it.
Propose(c) ==
    /\ accepted < 2
    /\ Compatible(candidate, c)
    /\ candidate' = c
    /\ accepted' = accepted + 1
    /\ UNCHANGED baseline

SchemaNext == \E c \in Schemas : Propose(c)
SchemaSpec == SchemaInit /\ [][SchemaNext]_schemaVars

(***************************************************************************)
(* Properties                                                              *)
(***************************************************************************)
\* Comparing each version with its predecessor is enough: what passed step by
\* step would also pass against the first version.
AcceptanceComposes == Compatible(baseline, candidate)

\* A proposal that constrains nothing the baseline left free breaks no event:
\* the keywords of a leaf, the properties and the policy on others are the same.
Keywords(s) == {k \in DOMAIN s : Has(s[k])}
SameKeywords ==
    /\ Has(baseline.additional) <=> Has(candidate.additional)
    /\ DOMAIN baseline.properties = DOMAIN candidate.properties
    /\ \A n \in DOMAIN baseline.properties :
           Keywords(baseline.properties[n]) = Keywords(candidate.properties[n])
WideningBreaksNothing == SameKeywords => ~Breaks(baseline, candidate)

\* "The check intentionally favours a safe false negative over silently
\* approving a breaking data contract" (check_schema_compatibility.py).  Not
\* kept: a keyword the baseline does not have is not compared at all, so a
\* proposal may add a bound, an enum or a type to a property that had none.
AcceptedBreaksNothing == ~Breaks(baseline, candidate)
=============================================================================
