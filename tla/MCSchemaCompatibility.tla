----------------------- MODULE MCSchemaCompatibility -----------------------
(***************************************************************************)
(* Instances of SchemaCompatibility for TLC: leaves with each keyword      *)
(* absent, tight and wide, in the combinations a contract uses.            *)
(***************************************************************************)
EXTENDS SchemaCompatibility

CONSTANTS a, b, x, y

MCTexts == {a, b}
MCNames == {x, y}

\* Numeric leaves, text leaves and the empty schema.
MCLeaves ==
    {Leaf({"integer"}, Absent, Absent, low, high) : low \in {Absent, 0, 1}, high \in {Absent, 2}}
        \cup {Leaf({"string"}, const, enum, Absent, Absent) :
                  const \in {Absent, a}, enum \in {Absent, {a}, {a, b}}}
        \cup {Leaf(Types, Absent, Absent, Absent, Absent),
              Leaf(Absent, Absent, Absent, Absent, Absent)}

MCOneName == {x}
MCPolicies == {Absent, TRUE, FALSE}
MCClosed == {FALSE}
\* A smaller set for two properties.
MCFewLeaves ==
    {Leaf({"integer"}, Absent, Absent, low, 2) : low \in {Absent, 1}}
        \cup {Leaf(Absent, Absent, Absent, Absent, Absent)}
=============================================================================
