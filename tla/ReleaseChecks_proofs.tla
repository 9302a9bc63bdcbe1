------------------------ MODULE ReleaseChecks_proofs ------------------------
(***************************************************************************)
(* Proofs about the three checks of ReleaseChecks: the schema comparison   *)
(* for any names, values and leaves, the lineage search for any assets and *)
(* any lineage, the canary gate for any threads, limits and outages.       *)
(***************************************************************************)
EXTENDS ReleaseChecks, SequenceTheorems, FiniteSetTheorems, TLAPS

\* A job is a step of one of the checks and leaves the variables of the others.
LEMMA JobsAreChecks ==
    ASSUME [ReleaseNext]_releaseVars
    PROVE  [SchemaNext]_schemaVars /\ [CatalogNext]_catalogVars /\ [GateNext]_gateVars
  BY DEF ReleaseNext, releaseVars

LEMMA JobsBeginAsChecks ==
    ASSUME ReleaseInit
    PROVE  /\ SchemaInit \/ SchemaUnused
           /\ \E lineage \in [Assets -> SUBSET (Assets \cup {Unknown})], states \in SUBSET Assets :
                  Document(lineage, states)
           /\ GateInit
  BY DEF ReleaseInit, CatalogInit, CatalogUnused

(***************************************************************************)
(* The schema comparison                                                   *)
(***************************************************************************)
WellFormed(s) == \A n \in DOMAIN s.properties : s.properties[n] \in Leaves

SchemaInv == WellFormed(baseline) /\ WellFormed(candidate) /\ AcceptanceComposes

\* Each of the comparisons is reflexive and transitive, a bound because the bounds
\* that are there are integers.
LEMMA LeafReflexive ==
    ASSUME NEW b \in Leaves
    PROVE  LeafCompatible(b, b)
  BY SchemaAssumption DEF LeafCompatible, TypesKept, ConstKept, EnumKept, BoundKept

LEMMA LeafTransitive ==
    ASSUME NEW b \in Leaves, NEW c \in Leaves, NEW d \in Leaves,
           LeafCompatible(b, c), LeafCompatible(c, d)
    PROVE  LeafCompatible(b, d)
  <1>1. TypesKept(b, d)
    BY DEF LeafCompatible, TypesKept
  <1>2. ConstKept(b, d)
    BY DEF LeafCompatible, ConstKept, Has
  <1>3. EnumKept(b, d)
    BY DEF LeafCompatible, EnumKept
  <1>4. BoundKept(b, d)
    <2>1. /\ Has(b.minimum) => Has(c.minimum) /\ Has(d.minimum)
          /\ Has(b.maximum) => Has(c.maximum) /\ Has(d.maximum)
      BY DEF LeafCompatible, BoundKept
    <2>2. Has(b.minimum) => d.minimum <= c.minimum /\ c.minimum <= b.minimum
      BY <2>1 DEF LeafCompatible, BoundKept
    <2>3. Has(b.maximum) => d.maximum >= c.maximum /\ c.maximum >= b.maximum
      BY <2>1 DEF LeafCompatible, BoundKept
    <2>4. /\ Has(b.minimum) => {b.minimum, c.minimum, d.minimum} \subseteq Int
          /\ Has(b.maximum) => {b.maximum, c.maximum, d.maximum} \subseteq Int
      BY <2>1, SchemaAssumption
    <2>5. Has(b.minimum) => d.minimum <= b.minimum
      BY <2>2, <2>4
    <2>6. Has(b.maximum) => d.maximum >= b.maximum
      BY <2>3, <2>4
    <2> QED
      BY <2>1, <2>5, <2>6 DEF BoundKept
  <1> QED
    BY <1>1, <1>2, <1>3, <1>4 DEF LeafCompatible

LEMMA CompatibleReflexive ==
    ASSUME NEW b, WellFormed(b)
    PROVE  Compatible(b, b)
  BY LeafReflexive DEF Compatible, WellFormed

LEMMA CompatibleTransitive ==
    ASSUME NEW b, NEW c, NEW d, WellFormed(b), WellFormed(c), WellFormed(d),
           Compatible(b, c), Compatible(c, d)
    PROVE  Compatible(b, d)
  <1>1. Has(b.additional) => d.additional = b.additional
    BY DEF Compatible, Has
  <1>2. b.required = d.required
    BY DEF Compatible
  <1>3. ASSUME NEW n \in DOMAIN b.properties
        PROVE  /\ n \in DOMAIN d.properties
               /\ LeafCompatible(b.properties[n], d.properties[n])
    BY LeafTransitive DEF Compatible, WellFormed
  <1> QED
    BY <1>1, <1>2, <1>3 DEF Compatible

LEMMA SchemasAreWellFormed ==
    ASSUME NEW s \in Schemas
    PROVE  WellFormed(s)
  <1>1. PICK N \in SUBSET Names :
            s \in [required : SUBSET Names, additional : Policies, properties : [N -> Leaves]]
    BY DEF Schemas
  <1> QED
    BY <1>1 DEF WellFormed

LEMMA SchemaInvariant == ReleaseSpec => []SchemaInv
  <1>1. ReleaseInit => SchemaInv
    <2> SUFFICES ASSUME ReleaseInit PROVE SchemaInv
      OBVIOUS
    <2>1. CASE SchemaInit
      BY <2>1, SchemasAreWellFormed, CompatibleReflexive
      DEF SchemaInit, SchemaInv, AcceptanceComposes
    <2>2. CASE SchemaUnused
      <3>1. WellFormed(NoSchema)
        BY DEF WellFormed, NoSchema
      <3> QED
        BY <2>2, <3>1, CompatibleReflexive DEF SchemaUnused, SchemaInv, AcceptanceComposes
    <2> QED
      BY <2>1, <2>2, JobsBeginAsChecks
  <1>2. SchemaInv /\ [ReleaseNext]_releaseVars => SchemaInv'
    <2> SUFFICES ASSUME SchemaInv, [SchemaNext]_schemaVars PROVE SchemaInv'
      BY JobsAreChecks
    <2>1. CASE UNCHANGED schemaVars
      BY <2>1 DEF schemaVars, SchemaInv, AcceptanceComposes
    <2>2. ASSUME NEW c \in Schemas, Propose(c)
          PROVE  SchemaInv'
      <3>1. /\ Compatible(baseline, candidate) /\ Compatible(candidate, c)
            /\ baseline' = baseline /\ candidate' = c
        BY <2>2 DEF Propose, SchemaInv, AcceptanceComposes
      <3>2. WellFormed(baseline) /\ WellFormed(candidate) /\ WellFormed(c)
        BY SchemasAreWellFormed DEF SchemaInv
      <3>3. Compatible(baseline, c)
        BY <3>1, <3>2, CompatibleTransitive
      <3> QED
        BY <3>1, <3>2, <3>3 DEF SchemaInv, AcceptanceComposes
    <2> QED
      BY <2>1, <2>2 DEF SchemaNext
  <1> QED
    BY <1>1, <1>2, PTL DEF ReleaseSpec

\* A value a leaf admits is admitted by a compatible leaf with the same keywords.
LEMMA LeafAdmitsMore ==
    ASSUME NEW b \in Leaves, NEW c \in Leaves, NEW v,
           LeafCompatible(b, c), Keywords(b) = Keywords(c), ValidValue(v, b)
    PROVE  ValidValue(v, c)
  <1>1. \A s \in Leaves :
            /\ Has(s.type) <=> "type" \in Keywords(s)
            /\ Has(s.const) <=> "const" \in Keywords(s)
            /\ Has(s.enum) <=> "enum" \in Keywords(s)
            /\ Has(s.minimum) <=> "minimum" \in Keywords(s)
            /\ Has(s.maximum) <=> "maximum" \in Keywords(s)
    BY SchemaAssumption DEF Keywords, Leaf
  <1>2. /\ Has(b.type) <=> Has(c.type)
        /\ Has(b.const) <=> Has(c.const)
        /\ Has(b.enum) <=> Has(c.enum)
        /\ Has(b.minimum) <=> Has(c.minimum)
        /\ Has(b.maximum) <=> Has(c.maximum)
    BY <1>1
  <1>3. Has(c.type) => TypeOf(v) \in c.type
    BY <1>2 DEF LeafCompatible, TypesKept, ValidValue
  <1>4. Has(c.const) => v = c.const
    BY <1>2 DEF LeafCompatible, ConstKept, ValidValue
  <1>5. Has(c.enum) => v \in c.enum
    BY <1>2 DEF LeafCompatible, EnumKept, ValidValue
  <1>6. ASSUME v \in Numbers, Has(c.minimum)
        PROVE  v >= c.minimum
    <2>1. v \in Int /\ b.minimum \in Int /\ c.minimum \in Int
      BY <1>2, <1>6, SchemaAssumption
    <2>2. v >= b.minimum /\ c.minimum <= b.minimum
      BY <1>2, <1>6 DEF LeafCompatible, BoundKept, ValidValue
    <2> QED
      BY <2>1, <2>2
  <1>7. ASSUME v \in Numbers, Has(c.maximum)
        PROVE  v <= c.maximum
    <2>1. v \in Int /\ b.maximum \in Int /\ c.maximum \in Int
      BY <1>2, <1>7, SchemaAssumption
    <2>2. v <= b.maximum /\ c.maximum >= b.maximum
      BY <1>2, <1>7 DEF LeafCompatible, BoundKept, ValidValue
    <2> QED
      BY <2>1, <2>2
  <1> QED
    BY <1>3, <1>4, <1>5, <1>6, <1>7 DEF ValidValue

\* Comparing each version with its predecessor is enough: what passes step by
\* step passes against the first version, for schemas of any size.
THEOREM SchemaAcceptanceComposes == ReleaseSpec => []AcceptanceComposes
  <1>1. SchemaInv => AcceptanceComposes
    BY DEF SchemaInv
  <1> QED
    BY SchemaInvariant, <1>1, PTL

\* An accepted proposal with the keywords, properties and policy of the baseline
\* admits every event the baseline admits.
THEOREM SchemaWideningBreaksNothing == ReleaseSpec => []WideningBreaksNothing
  <1>1. SchemaInv => WideningBreaksNothing
    <2> SUFFICES ASSUME SchemaInv, SameKeywords, NEW event, ValidInstance(event, baseline)
                 PROVE  ValidInstance(event, candidate)
      BY DEF WideningBreaksNothing, Breaks
    <2>1. Compatible(baseline, candidate) /\ WellFormed(baseline) /\ WellFormed(candidate)
      BY DEF SchemaInv, AcceptanceComposes
    <2>2. candidate.required \subseteq DOMAIN event
      BY <2>1 DEF Compatible, ValidInstance
    <2>3. candidate.additional = FALSE => DOMAIN event \subseteq DOMAIN candidate.properties
      BY <2>1 DEF Compatible, ValidInstance, SameKeywords, Has
    <2>4. ASSUME NEW n \in DOMAIN event \cap DOMAIN candidate.properties
          PROVE  ValidValue(event[n], candidate.properties[n])
      <3> DEFINE b == baseline.properties[n]
                 c == candidate.properties[n]
      <3>1. /\ b \in Leaves /\ c \in Leaves
            /\ LeafCompatible(b, c) /\ Keywords(b) = Keywords(c) /\ ValidValue(event[n], b)
        BY <2>1 DEF SameKeywords, Compatible, WellFormed, ValidInstance
      <3> QED
        BY <3>1, LeafAdmitsMore
    <2> QED
      BY <2>2, <2>3, <2>4 DEF ValidInstance
  <1> QED
    BY SchemaInvariant, <1>1, PTL

(***************************************************************************)
(* The lineage search                                                      *)
(***************************************************************************)
\* The path goes from an asset to an upstream of it and repeats none; an asset on
\* it has seen its upstreams but those that remain and the next on the path.
PathIsLineage ==
    /\ \A i \in 1..Len(path) - 1 : path[i + 1] \in upstreams[path[i]]
    /\ \A i, j \in DOMAIN path : path[i] = path[j] => i = j
    /\ visiting \cap visited = {}
    /\ \A i \in DOMAIN path :
          /\ remaining[path[i]] \subseteq upstreams[path[i]]
          /\ upstreams[path[i]] \subseteq
                 remaining[path[i]] \cup visited \cup {path[j] : j \in {i + 1} \cap DOMAIN path}

\* A set that holds whatever the asset comes from, and not the asset.
Foundation(a, S) ==
    S \subseteq visited /\ a \notin S /\ upstreams[a] \subseteq S /\ HoldsUpstreams(S)

VisitedIsGrounded ==
    /\ HoldsUpstreams(visited)
    /\ \A a \in visited : \E S \in SUBSET Assets : Foundation(a, S)

\* A search is under way, or has ended, for sound declarations only.
SearchedIsSound ==
    /\ verdict \in {"searching", "accepted", "cyclic"} => \A a \in Assets : Sound(a)
    /\ verdict = "none" => path = <<>> /\ visited = {}
    /\ verdict = "accepted" => visited = Assets

CatalogInv ==
    /\ CatalogTypeOK
    /\ SearchedIsSound
    /\ PathIsLineage
    /\ VisitedIsGrounded
    /\ ReportedIsCycle

\* The path with an asset more, or one less.
LEMMA PathPushed ==
    ASSUME path \in Seq(Assets), NEW a \in Assets
    PROVE  LET pushed == Append(path, a)
           IN  /\ pushed \in Seq(Assets) /\ Len(path) \in Nat /\ Len(pushed) = Len(path) + 1
               /\ DOMAIN path = 1..Len(path) /\ DOMAIN pushed = 1..Len(path) + 1
               /\ \A i \in 1..Len(path) : pushed[i] = path[i]
               /\ pushed[Len(path) + 1] = a
  OBVIOUS

LEMMA PathPopped ==
    ASSUME path \in Seq(Assets), path # <<>>
    PROVE  LET popped == SubSeq(path, 1, Len(path) - 1)
           IN  /\ popped \in Seq(Assets) /\ Len(path) \in Nat \ {0} /\ Len(popped) = Len(path) - 1
               /\ DOMAIN path = 1..Len(path) /\ DOMAIN popped = 1..Len(path) - 1
               /\ \A i \in 1..Len(path) - 1 : popped[i] = path[i]
  <1> DEFINE n == Len(path)
             popped == SubSeq(path, 1, n - 1)
  <1>1. n \in Nat \ {0} /\ DOMAIN path = 1..n
    OBVIOUS
  <1>2. 1 \in Int /\ n - 1 \in Int /\ \A i \in 1..n - 1 : path[i] \in Assets
    BY <1>1
  <1>3. /\ popped \in Seq(Assets)
        /\ Len(popped) = IF 1 <= n - 1 THEN n - 1 - 1 + 1 ELSE 0
        /\ \A i \in 1..(n - 1) - 1 + 1 : popped[i] = path[1 + i - 1]
    BY <1>2, SubSeqProperties
  <1> HIDE DEF n, popped
  <1>4. Len(popped) = n - 1
    BY <1>1, <1>3
  <1>5. \A i \in 1..n - 1 : i \in 1..(n - 1) - 1 + 1 /\ 1 + i - 1 = i
    BY <1>1
  <1>6. \A i \in 1..n - 1 : popped[i] = path[i]
    BY <1>3, <1>5
  <1>7. DOMAIN popped = 1..n - 1
    BY <1>3, <1>4
  <1> QED
    BY <1>1, <1>3, <1>4, <1>6, <1>7 DEF n, popped

\* The asset at the end of the path.
LEMMA TopOfPath ==
    ASSUME CatalogTypeOK, path # <<>>
    PROVE  /\ Len(path) \in DOMAIN path /\ DOMAIN path = 1..Len(path) /\ Len(path) \in Nat \ {0}
           /\ Top \in Assets /\ Top \in visiting
  <1>1. path \in Seq(Assets)
    BY DEF CatalogTypeOK
  <1>2. Len(path) \in DOMAIN path /\ DOMAIN path = 1..Len(path) /\ Len(path) \in Nat \ {0}
        /\ path[Len(path)] \in Assets
    BY <1>1
  <1> QED
    BY <1>2 DEF Top, visiting

\* What a sound lineage has is declared.
LEMMA SearchedUpstreams ==
    ASSUME SearchedIsSound, verdict = "searching", NEW a \in Assets
    PROVE  upstreams[a] \subseteq Assets
  BY DEF SearchedIsSound, Sound

LEMMA CatalogTypesKept ==
    ASSUME CatalogTypeOK, SearchedIsSound, [CatalogNext]_catalogVars
    PROVE  CatalogTypeOK'
  <1> USE DEF CatalogTypeOK
  <1>1. CASE UNCHANGED catalogVars
    BY <1>1 DEF catalogVars, search
  <1>2. CASE Validate
    BY <1>2 DEF Validate, search
  <1>3. ASSUME NEW a \in Assets, VisitAsset(a) \/ VisitUpstream(a)
        PROVE  CatalogTypeOK'
    <2>1. /\ path' = Append(path, a) /\ UNCHANGED <<upstreams, implemented, verdict, visited, cycle>>
          /\ verdict = "searching"
      BY <1>3 DEF VisitAsset, VisitUpstream, Enter
    <2>2. path' \in Seq(Assets)
      BY <2>1, PathPushed
    <2>3. upstreams[a] \subseteq Assets
      BY <2>1, SearchedUpstreams
    <2>4. remaining' \in [Assets -> SUBSET Assets]
      BY <1>3, <2>3 DEF VisitAsset, VisitUpstream, Enter
    <2> QED
      BY <2>1, <2>2, <2>4
  <1>4. ASSUME NEW a \in Assets, ReportCycle(a)
        PROVE  CatalogTypeOK'
    <2>1. /\ path # <<>> /\ UNCHANGED <<upstreams, implemented, path, remaining, visited>>
          /\ verdict' = "cyclic" /\ \E i \in DOMAIN path : path[i] = a
      BY <1>4 DEF ReportCycle, visiting
    <2> DEFINE start == CHOOSE i \in DOMAIN path : path[i] = a
    <2>2. start \in DOMAIN path
      BY <2>1
    <2>3. cycle' = Append(SubSeq(path, start, Len(path)), a)
      BY <1>4 DEF ReportCycle
    <2> HIDE DEF start
    <2>4. SubSeq(path, start, Len(path)) \in Seq(Assets)
      <3>1. start \in Int /\ Len(path) \in Int /\ \A i \in start..Len(path) : path[i] \in Assets
        BY <2>2
      <3> QED
        BY <3>1, SubSeqProperties
    <2>5. cycle' \in Seq(Assets)
      BY <2>3, <2>4
    <2> QED
      BY <2>1, <2>5
  <1>5. ASSUME NEW a \in Assets, SkipVisited(a)
        PROVE  CatalogTypeOK'
    <2>1. Top \in Assets
      BY <1>5, TopOfPath DEF SkipVisited
    <2> QED
      BY <1>5, <2>1 DEF SkipVisited
  <1>6. CASE Leave
    <2>1. Top \in Assets /\ path' \in Seq(Assets)
      BY <1>6, TopOfPath, PathPopped DEF Leave
    <2> QED
      BY <1>6, <2>1 DEF Leave
  <1>7. CASE Accept
    BY <1>7 DEF Accept, search
  <1> QED
    BY <1>1, <1>2, <1>3, <1>4, <1>5, <1>6, <1>7 DEF CatalogNext

LEMMA SearchStaysSound ==
    ASSUME SearchedIsSound, [CatalogNext]_catalogVars
    PROVE  SearchedIsSound'
  <1>1. CASE Validate
    BY <1>1 DEF SearchedIsSound, Validate, search, Sound
  <1>2. CASE UNCHANGED catalogVars
    BY <1>2 DEF SearchedIsSound, catalogVars, search, Sound
  <1>3. CASE Accept
    BY <1>3 DEF SearchedIsSound, Accept, search, Sound
  <1>4. ASSUME UNCHANGED <<upstreams, implemented>>, verdict = "searching",
               verdict' \in {"searching", "cyclic"}
        PROVE  SearchedIsSound'
    BY <1>4 DEF SearchedIsSound, Sound
  <1>5. ASSUME NEW a \in Assets,
               VisitAsset(a) \/ ReportCycle(a) \/ SkipVisited(a) \/ VisitUpstream(a)
        PROVE  SearchedIsSound'
    BY <1>4, <1>5 DEF VisitAsset, ReportCycle, SkipVisited, VisitUpstream
  <1>6. CASE Leave
    BY <1>4, <1>6 DEF Leave
  <1> QED
    BY <1>1, <1>2, <1>3, <1>5, <1>6 DEF CatalogNext

LEMMA PathStaysLineage ==
    ASSUME CatalogInv, [CatalogNext]_catalogVars
    PROVE  PathIsLineage'
  <1>1. CatalogTypeOK /\ SearchedIsSound /\ PathIsLineage /\ path \in Seq(Assets)
    BY DEF CatalogInv, CatalogTypeOK
  <1>2. CASE UNCHANGED <<upstreams, path, remaining, visited>>
    BY <1>1, <1>2 DEF PathIsLineage, visiting
  <1>3. ASSUME NEW a \in Assets, VisitAsset(a)
        PROVE  PathIsLineage'
    <2>1. /\ path = <<>> /\ path' = Append(path, a) /\ a \notin visited /\ Len(path) = 0
          /\ remaining' = [remaining EXCEPT ![a] = upstreams[a]]
          /\ UNCHANGED <<upstreams, visited>>
      BY <1>3 DEF VisitAsset, Enter
    <2>2. Len(path') = 1 /\ DOMAIN path' = {1} /\ path'[1] = a
      <3>1. Len(path') = 0 + 1 /\ DOMAIN path' = 1..0 + 1 /\ path'[0 + 1] = a
        BY <1>1, <2>1, PathPushed
      <3> QED
        BY <3>1
    <2>3. remaining'[a] = upstreams[a]
      BY <1>1, <2>1 DEF CatalogTypeOK
    <2>4. 1..Len(path') - 1 = {}
      BY <2>2
    <2>5. visiting' = {a}
      BY <2>2 DEF visiting
    <2> QED
      BY <2>1, <2>2, <2>3, <2>4, <2>5 DEF PathIsLineage
  <1>4. ASSUME NEW a \in Assets, VisitUpstream(a)
        PROVE  PathIsLineage'
    <2> DEFINE n == Len(path)
    <2>1. /\ path # <<>> /\ path' = Append(path, a) /\ a \in remaining[Top]
          /\ a \notin visiting /\ a \notin visited
          /\ remaining' = [remaining EXCEPT ![Top] = @ \ {a}, ![a] = upstreams[a]]
          /\ UNCHANGED <<upstreams, visited>>
      BY <1>4 DEF VisitUpstream
    <2>2. /\ n \in Nat \ {0} /\ DOMAIN path = 1..n /\ Len(path') = n + 1 /\ DOMAIN path' = 1..n + 1
          /\ \A i \in 1..n : path'[i] = path[i]
          /\ path'[n + 1] = a
      BY <1>1, <2>1, TopOfPath, PathPushed
    <2> HIDE DEF n
    <2>3. /\ Top = path[n] /\ Top \in Assets /\ Top \in visiting
          /\ \A i \in 1..n : path[i] \in Assets /\ path[i] \in visiting /\ path[i] # a
          /\ \A i \in 1..n - 1 : path[i] # Top
      <3>1. Top = path[n] /\ Top \in Assets /\ Top \in visiting
        BY <1>1, <2>1, TopOfPath DEF Top, n
      <3>2. \A i \in 1..n : path[i] \in Assets /\ path[i] \in visiting
        BY <1>1, <2>2 DEF visiting
      <3>3. \A i \in 1..n - 1 : i \in DOMAIN path /\ n \in DOMAIN path /\ i # n
        BY <2>2
      <3> QED
        BY <1>1, <2>1, <3>1, <3>2, <3>3 DEF PathIsLineage
    <2>4. /\ remaining'[a] = upstreams[a] /\ remaining'[Top] = remaining[Top] \ {a}
          /\ \A b \in Assets \ {a, Top} : remaining'[b] = remaining[b]
      BY <1>1, <2>1, <2>3 DEF CatalogTypeOK
    <2>5. \A i \in 1..n : i \in DOMAIN path
      BY <2>2
    <2>6. a \in upstreams[Top]
      BY <1>1, <2>1, <2>2, <2>3 DEF PathIsLineage
    <2>7. \A i \in 1..Len(path') - 1 : path'[i + 1] \in upstreams[path'[i]]
      <3> TAKE i \in 1..Len(path') - 1
      <3>1. CASE i < n
        <4>1. i \in 1..n - 1 /\ i \in 1..n /\ i + 1 \in 1..n
          BY <2>2, <3>1
        <4> QED
          BY <1>1, <2>2, <4>1 DEF PathIsLineage
      <3>2. CASE i = n
        BY <2>2, <2>3, <2>6, <3>2
      <3> QED
        BY <2>2, <3>1, <3>2
    <2>8. \A i \in DOMAIN path' : i \in 1..n \/ i = n + 1
      BY <2>2
    <2>9. \A i, j \in DOMAIN path' : path'[i] = path'[j] => i = j
      BY <1>1, <2>2, <2>3, <2>8 DEF PathIsLineage
    <2>10. visiting' \subseteq visiting \cup {a}
      BY <2>2, <2>3, <2>8 DEF visiting
    <2>11. ASSUME NEW i \in DOMAIN path'
           PROVE  /\ remaining'[path'[i]] \subseteq upstreams[path'[i]]
                  /\ upstreams[path'[i]] \subseteq remaining'[path'[i]] \cup visited
                         \cup {path'[j] : j \in {i + 1} \cap DOMAIN path'}
      <3>1. CASE i = n + 1
        BY <2>2, <2>4, <3>1
      <3>2. CASE i = n
        <4>1. path'[i] = Top /\ i + 1 \in DOMAIN path' /\ path'[i + 1] = a
          BY <2>2, <2>3, <3>2
        <4>2. n \in DOMAIN path /\ {n + 1} \cap DOMAIN path = {}
          BY <2>2
        <4>3. /\ remaining[Top] \subseteq upstreams[Top]
              /\ upstreams[Top] \subseteq remaining[Top] \cup visited
          BY <1>1, <2>3, <4>2 DEF PathIsLineage
        <4> QED
          BY <2>4, <4>1, <4>3
      <3>3. CASE i < n
        <4>1. i \in 1..n - 1 /\ i \in 1..n /\ i + 1 \in 1..n /\ i + 1 \in DOMAIN path'
              /\ i \in DOMAIN path /\ i + 1 \in DOMAIN path
          BY <2>2, <3>3
        <4>2. path'[i] = path[i] /\ path'[i + 1] = path[i + 1] /\ remaining'[path[i]] = remaining[path[i]]
          BY <2>2, <2>3, <2>4, <4>1
        <4>3. /\ remaining[path[i]] \subseteq upstreams[path[i]]
              /\ upstreams[path[i]] \subseteq remaining[path[i]] \cup visited \cup {path[i + 1]}
          BY <1>1, <4>1 DEF PathIsLineage
        <4> QED
          BY <4>1, <4>2, <4>3
      <3> QED
        BY <2>2, <2>8, <3>1, <3>2, <3>3
    <2>12. (visiting \cap visited)' = {}
      BY <1>1, <2>1, <2>10 DEF PathIsLineage
    <2> QED
      BY <2>1, <2>7, <2>9, <2>11, <2>12 DEF PathIsLineage
  <1>5. ASSUME NEW a \in Assets, SkipVisited(a)
        PROVE  PathIsLineage'
    <2>1. /\ path # <<>> /\ a \in remaining[Top] /\ a \in visited
          /\ remaining' = [remaining EXCEPT ![Top] = @ \ {a}]
          /\ UNCHANGED <<upstreams, path, visited>>
      BY <1>5 DEF SkipVisited
    <2>2. Top \in Assets
      BY <1>1, <2>1, TopOfPath
    <2>3. \A b \in Assets : remaining'[b] \subseteq remaining[b] /\ remaining[b] \subseteq remaining'[b] \cup visited
      BY <1>1, <2>1, <2>2 DEF CatalogTypeOK
    <2>4. \A i \in DOMAIN path : path[i] \in Assets
      BY <1>1
    <2>5. visiting' = visiting
      BY <2>1 DEF visiting
    <2>6. ASSUME NEW i \in DOMAIN path
          PROVE  /\ remaining'[path[i]] \subseteq upstreams[path[i]]
                 /\ upstreams[path[i]] \subseteq remaining'[path[i]] \cup visited
                        \cup {path[j] : j \in {i + 1} \cap DOMAIN path}
      <3>1. /\ remaining[path[i]] \subseteq upstreams[path[i]]
            /\ upstreams[path[i]] \subseteq remaining[path[i]] \cup visited
                   \cup {path[j] : j \in {i + 1} \cap DOMAIN path}
        BY <1>1 DEF PathIsLineage
      <3> QED
        BY <2>3, <2>4, <3>1
    <2> QED
      BY <1>1, <2>1, <2>5, <2>6 DEF PathIsLineage
  <1>6. CASE Leave
    <2> DEFINE n == Len(path)
    <2>1. /\ path # <<>> /\ path' = SubSeq(path, 1, n - 1) /\ visited' = visited \cup {Top}
          /\ UNCHANGED <<upstreams, remaining>>
      BY <1>6 DEF Leave
    <2>2. /\ n \in Nat \ {0} /\ DOMAIN path = 1..n /\ Len(path') = n - 1 /\ DOMAIN path' = 1..n - 1
          /\ \A i \in 1..n - 1 : path'[i] = path[i]
      BY <1>1, <2>1, PathPopped
    <2>3. Top = path[n]
      BY DEF Top
    <2> HIDE DEF n
    <2>4. \A i \in 1..n - 1 : i \in DOMAIN path /\ n \in DOMAIN path /\ i # n
      BY <2>2
    <2>5. \A i \in 1..n - 1 : path[i] # Top
      BY <1>1, <2>3, <2>4 DEF PathIsLineage
    <2>6. \A i \in 1..Len(path') - 1 : path'[i + 1] \in upstreams[path'[i]]
      <3> TAKE i \in 1..Len(path') - 1
      <3>1. i \in 1..n - 1 /\ i + 1 \in 1..n - 1
        BY <2>2
      <3> QED
        BY <1>1, <2>1, <2>2, <3>1 DEF PathIsLineage
    <2>7. \A i, j \in DOMAIN path' : path'[i] = path'[j] => i = j
      BY <1>1, <2>2, <2>4 DEF PathIsLineage
    <2>8. visiting' \subseteq visiting /\ Top \notin visiting'
      BY <2>2, <2>4, <2>5 DEF visiting
    <2>9. ASSUME NEW i \in DOMAIN path'
          PROVE  /\ remaining[path'[i]] \subseteq upstreams[path'[i]]
                 /\ upstreams[path'[i]] \subseteq remaining[path'[i]] \cup visited'
                        \cup {path'[j] : j \in {i + 1} \cap DOMAIN path'}
      <3>1. i \in 1..n - 1 /\ i \in DOMAIN path /\ path'[i] = path[i] /\ i + 1 \in 1..n
        BY <2>2, <2>4
      <3>2. /\ remaining[path[i]] \subseteq upstreams[path[i]]
            /\ upstreams[path[i]] \subseteq remaining[path[i]] \cup visited \cup {path[i + 1]}
        BY <1>1, <2>2, <3>1 DEF PathIsLineage
      <3>3. CASE i + 1 = n
        BY <2>1, <2>3, <3>1, <3>2, <3>3
      <3>4. CASE i + 1 \in 1..n - 1
        BY <2>1, <2>2, <3>1, <3>2, <3>4
      <3> QED
        BY <2>2, <3>1, <3>3, <3>4
    <2>10. (visiting \cap visited)' = {}
      BY <1>1, <2>1, <2>8 DEF PathIsLineage
    <2> QED
      BY <2>1, <2>6, <2>7, <2>9, <2>10 DEF PathIsLineage
  <1> QED
    BY <1>2, <1>3, <1>4, <1>5, <1>6 DEF CatalogNext, catalogVars, search, Validate, ReportCycle, Accept

\* An asset whose visit ends is founded on the assets visited before it.
LEMMA VisitedStaysGrounded ==
    ASSUME CatalogInv, [CatalogNext]_catalogVars
    PROVE  VisitedIsGrounded'
  <1>1. CatalogTypeOK /\ SearchedIsSound /\ PathIsLineage /\ VisitedIsGrounded /\ upstreams' = upstreams
    BY DEF CatalogInv, CatalogNext, catalogVars, search, Validate, VisitAsset, Enter, ReportCycle,
           SkipVisited, VisitUpstream, Leave, Accept
  <1>2. \A a, S : Foundation(a, S) /\ visited \subseteq visited' => Foundation(a, S)'
    BY <1>1 DEF Foundation, HoldsUpstreams
  <1>3. CASE visited' = visited
    BY <1>1, <1>2, <1>3 DEF VisitedIsGrounded, HoldsUpstreams
  <1>4. CASE Leave
    <2>1. path # <<>> /\ remaining[Top] = {} /\ visited' = visited \cup {Top}
      BY <1>4 DEF Leave
    <2>2. /\ Len(path) \in DOMAIN path /\ {Len(path) + 1} \cap DOMAIN path = {}
          /\ Top \in Assets /\ Top \in visiting /\ Top = path[Len(path)]
      <3>1. /\ Len(path) \in DOMAIN path /\ DOMAIN path = 1..Len(path) /\ Len(path) \in Nat
            /\ Top \in Assets /\ Top \in visiting
        BY <1>1, <2>1, TopOfPath
      <3>2. Len(path) + 1 \notin 1..Len(path)
        BY <3>1
      <3> QED
        BY <3>1, <3>2 DEF Top
    <2>3. upstreams[Top] \subseteq visited
      <3>1. upstreams[Top] \subseteq remaining[Top] \cup visited
        BY <1>1, <2>2 DEF PathIsLineage
      <3> QED
        BY <2>1, <3>1
    <2>4. Top \notin visited /\ visited \subseteq Assets
      BY <1>1, <2>2 DEF PathIsLineage, CatalogTypeOK
    <2>5. Foundation(Top, visited)
      BY <1>1, <2>3, <2>4 DEF Foundation, VisitedIsGrounded
    <2>6. HoldsUpstreams(visited)'
      BY <1>1, <2>1, <2>3 DEF VisitedIsGrounded, HoldsUpstreams
    <2>7. \A a \in visited' : \E S \in SUBSET Assets : Foundation(a, S)
      BY <1>1, <2>1, <2>4, <2>5 DEF VisitedIsGrounded
    <2> QED
      BY <1>2, <2>1, <2>6, <2>7 DEF VisitedIsGrounded
  <1> QED
    BY <1>3, <1>4 DEF CatalogNext, catalogVars, search, Validate, VisitAsset, ReportCycle,
       SkipVisited, VisitUpstream, Accept

\* The part of the path from an asset on, closed with that asset, is a cycle.
LEMMA ReportIsCycle ==
    ASSUME CatalogInv, NEW a \in Assets, ReportCycle(a)
    PROVE  ReportedIsCycle'
  <1> DEFINE n == Len(path)
             start == CHOOSE i \in DOMAIN path : path[i] = a
             part == SubSeq(path, start, n)
             m == n - start + 1
  <1>1. /\ CatalogTypeOK /\ PathIsLineage /\ path \in Seq(Assets) /\ path # <<>>
        /\ a \in remaining[Top] /\ upstreams' = upstreams /\ cycle' = Append(part, a)
        /\ \E i \in DOMAIN path : path[i] = a
    BY DEF CatalogInv, CatalogTypeOK, ReportCycle, visiting
  <1>2. n \in Nat /\ DOMAIN path = 1..n /\ n \in DOMAIN path /\ Top = path[n]
    BY <1>1, TopOfPath DEF Top
  <1>3. start \in DOMAIN path /\ path[start] = a
    BY <1>1
  <1> HIDE DEF n, start
  <1>4. start \in 1..n /\ m \in Nat \ {0}
    BY <1>2, <1>3
  <1>5. part \in Seq(Assets) /\ Len(part) = m /\ \A i \in 1..m : part[i] = path[start + i - 1]
    <2>1. start \in Int /\ n \in Int /\ start <= n /\ \A i \in start..n : path[i] \in Assets
      BY <1>1, <1>2, <1>4
    <2>2. /\ part \in Seq(Assets) /\ Len(part) = IF start <= n THEN m ELSE 0
          /\ \A i \in 1..m : part[i] = path[start + i - 1]
      BY <2>1, SubSeqProperties
    <2> QED
      BY <2>1, <2>2
  <1> HIDE DEF part
  <1>6. Len(cycle') = m + 1 /\ cycle'[m + 1] = a /\ \A i \in 1..m : cycle'[i] = path[start + i - 1]
    <2>1. /\ Len(Append(part, a)) = m + 1 /\ Append(part, a)[m + 1] = a
          /\ \A i \in 1..m : Append(part, a)[i] = part[i]
      BY <1>4, <1>5
    <2> QED
      BY <1>1, <1>5, <2>1
  <1>7. Len(cycle') > 1 /\ Len(cycle') - 1 = m /\ cycle'[1] = cycle'[Len(cycle')]
    <2>1. 1 \in 1..m /\ start + 1 - 1 = start /\ m + 1 > 1 /\ m + 1 - 1 = m
      BY <1>4
    <2>2. cycle'[1] = path[start]
      BY <1>6, <2>1
    <2>3. cycle'[Len(cycle')] = a
      BY <1>6
    <2>4. Len(cycle') > 1 /\ Len(cycle') - 1 = m
      <3>1. Len(cycle') = m + 1
        BY <1>6
      <3> HIDE DEF m
      <3> QED
        BY <1>4, <3>1
    <2> QED
      BY <1>3, <2>2, <2>3, <2>4
  <1>8. \A i \in 1..m : start + i - 1 \in DOMAIN path
    BY <1>2, <1>4
  <1>9. ASSUME NEW i \in 1..m
        PROVE  cycle'[i + 1] \in upstreams[cycle'[i]]
    <2>1. CASE i = m
      <3>1. start + i - 1 = n
        BY <1>2, <1>4, <2>1
      <3>2. a \in upstreams[path[n]]
        BY <1>1, <1>2 DEF PathIsLineage
      <3> QED
        BY <1>6, <2>1, <3>1, <3>2
    <2>2. CASE i < m
      <3>1. i + 1 \in 1..m /\ start + (i + 1) - 1 = (start + i - 1) + 1 /\ start + i - 1 \in 1..n - 1
        BY <1>2, <1>4, <2>2
      <3>2. path[(start + i - 1) + 1] \in upstreams[path[start + i - 1]]
        BY <1>1, <3>1 DEF PathIsLineage, n
      <3>3. cycle'[i + 1] = path[(start + i - 1) + 1] /\ cycle'[i] = path[start + i - 1]
        BY <1>6, <3>1
      <3> QED
        BY <3>2, <3>3
    <2> QED
      BY <1>4, <2>1, <2>2
  <1>10. ASSUME NEW i \in 1..m, NEW j \in 1..m, cycle'[i] = cycle'[j]
         PROVE  i = j
    <2> DEFINE k == start + i - 1
               l == start + j - 1
    <2>1. k \in DOMAIN path /\ l \in DOMAIN path /\ cycle'[i] = path[k] /\ cycle'[j] = path[l]
      BY <1>6, <1>8
    <2> HIDE DEF k, l
    <2>2. k = l
      BY <1>1, <1>10, <2>1 DEF PathIsLineage
    <2>3. start + i - 1 = start + j - 1
      BY <2>2 DEF k, l
    <2> QED
      BY <1>4, <2>3
  <1> HIDE DEF m
  <1> QED
    BY <1>1, <1>7, <1>9, <1>10 DEF ReportedIsCycle

LEMMA CatalogInvariant == ReleaseSpec => []CatalogInv
  <1>1. ReleaseInit => CatalogInv
    <2> SUFFICES ASSUME NEW lineage \in [Assets -> SUBSET (Assets \cup {Unknown})],
                        NEW states \in SUBSET Assets, Document(lineage, states)
                 PROVE  CatalogInv
      BY JobsBeginAsChecks
    <2>1. /\ upstreams = lineage /\ implemented = states /\ verdict = "none" /\ path = <<>>
          /\ remaining = [a \in Assets |-> {}] /\ visited = {} /\ cycle = <<>>
      BY DEF Document
    <2>2. DOMAIN path = {} /\ Len(path) = 0 /\ 1..Len(path) - 1 = {}
      BY <2>1
    <2>3. CatalogTypeOK
      BY <2>1 DEF CatalogTypeOK
    <2>4. SearchedIsSound /\ PathIsLineage /\ VisitedIsGrounded /\ ReportedIsCycle
      BY <2>1, <2>2
      DEF SearchedIsSound, PathIsLineage, visiting, VisitedIsGrounded, HoldsUpstreams, ReportedIsCycle
    <2> QED
      BY <2>3, <2>4 DEF CatalogInv
  <1>2. CatalogInv /\ [ReleaseNext]_releaseVars => CatalogInv'
    <2> SUFFICES ASSUME CatalogInv, [CatalogNext]_catalogVars PROVE CatalogInv'
      BY JobsAreChecks
    <2>1. CatalogTypeOK' /\ SearchedIsSound' /\ PathIsLineage' /\ VisitedIsGrounded'
      BY CatalogTypesKept, SearchStaysSound, PathStaysLineage, VisitedStaysGrounded DEF CatalogInv
    <2>2. CASE \E a \in Assets : ReportCycle(a)
      BY <2>1, <2>2, ReportIsCycle DEF CatalogInv
    <2>3. CASE UNCHANGED <<upstreams, verdict, cycle>> \/ verdict' # "cyclic"
      BY <2>1, <2>3 DEF CatalogInv, ReportedIsCycle
    <2> QED
      BY <2>2, <2>3
      DEF CatalogNext, catalogVars, search, Validate, VisitAsset, SkipVisited, VisitUpstream, Leave, Accept
  <1> QED
    BY <1>1, <1>2, PTL DEF ReleaseSpec

\* A cycle reported for any lineage is one: each asset in it is derived from the
\* next, it ends where it begins and repeats nothing else.
THEOREM LineageReportedIsCycle == ReleaseSpec => []ReportedIsCycle
  <1>1. CatalogInv => ReportedIsCycle
    BY DEF CatalogInv
  <1> QED
    BY CatalogInvariant, <1>1, PTL

\* A lineage that is accepted has no cycle at any distance, and nothing an
\* implemented asset comes from is only planned.
THEOREM LineageAcceptedIsGrounded == ReleaseSpec => []AcceptedIsGrounded
  <1>1. CatalogInv => AcceptedIsGrounded
    <2> SUFFICES ASSUME CatalogInv, verdict = "accepted", NEW a \in Assets
                 PROVE  /\ a \notin Origins(a)
                        /\ a \in implemented => Origins(a) \subseteq implemented
      BY DEF AcceptedIsGrounded
    <2>1. visited = Assets /\ \A b \in Assets : Sound(b)
      BY DEF CatalogInv, SearchedIsSound
    <2>2. a \notin Origins(a)
      <3>1. PICK S \in SUBSET Assets : Foundation(a, S)
        BY <2>1 DEF CatalogInv, VisitedIsGrounded
      <3>2. S \in SUBSET (Assets \cup {Unknown})
        BY <3>1
      <3> QED
        BY <3>1, <3>2 DEF Foundation, Origins
    <2>3. ASSUME a \in implemented
          PROVE  Origins(a) \subseteq implemented
      <3>1. implemented \in SUBSET (Assets \cup {Unknown})
        BY DEF CatalogInv, CatalogTypeOK
      <3>2. upstreams[a] \subseteq implemented /\ HoldsUpstreams(implemented)
        BY <2>1, <2>3 DEF Sound, HoldsUpstreams
      <3> QED
        BY <3>1, <3>2 DEF Origins
    <2> QED
      BY <2>2, <2>3
  <1> QED
    BY CatalogInvariant, <1>1, PTL

(***************************************************************************)
(* The canary gate.  In a step of the rollout throughout which the tables  *)
(* have not agreed, "outbox-parity" passes only on an answer from before   *)
(* the step: of a thread Prometheus has given up, one for each late answer.*)
(***************************************************************************)
\* Threads with such an answer that have still to set the gauge.
LateAnswers ==
    {"thread"} \X {t \in Threads : t # scraped /\ pc[t] = "gap" /\ result[t] = "equal"}

\* The gauge as the scrape under way will find it, and the sample as the next
\* measurement will, if they pass.
GaugeInHand ==
    IF scraped \in Threads /\ pc[scraped] \in {"check", "render"} /\ ~gauges["gap"]
    THEN {<<"gauge", NoThread>>} ELSE {}
SampleInHand ==
    IF refreshed /\ sample # NoSample /\ ~sample["gap"] THEN {<<"sample", NoThread>>} ELSE {}

PassesToCome == LateAnswers \cup GaugeInHand \cup SampleInHand

\* The scrape of a thread does what the thread does, and ends with the rollout.
ScrapesAreInOrder ==
    /\ \A t \in Threads : result[t] = "equal" => pc[t] \in {"gap", "check"}
    /\ phase = "stable" => scraped = NoThread /\ ~refreshed /\ taken = 0
    /\ phase = "stable" => failures = NoFailures
    /\ phase = "canary" => taken < Measurements /\ \A m \in Metrics : failures[m] <= FailureLimit

\* No answer of the step's own is that the tables agree.
BrokenIsSeen ==
    broken => /\ phase # "stable" /\ store # "agree"
              /\ scraped \in Threads => result[scraped] # "equal"

LateAnswersAreCounted == IsFiniteSet(LateAnswers) /\ Cardinality(LateAnswers) <= late

\* The passes of the step so far, taken - failures, and those to come.
PassesAreLate ==
    broken /\ phase = "canary" =>
        /\ IsFiniteSet(PassesToCome)
        /\ Cardinality(PassesToCome) + taken <= late + failures["outbox-parity"]

\* So a promotion in spite of broken tables needs a late answer for each
\* measurement that may not fail.
PromotionNeedsLateAnswers ==
    broken /\ phase = "promoted" => Measurements <= FailureLimit + late

GateInv ==
    /\ GateTypeOK
    /\ ScrapesAreInOrder
    /\ BrokenIsSeen
    /\ LateAnswersAreCounted
    /\ PassesAreLate
    /\ PromotionNeedsLateAnswers

\* A set that gains at most an element, or exchanges one, stays finite.
LEMMA OneMore ==
    ASSUME NEW S, NEW T, NEW y, IsFiniteSet(S), T \subseteq S \cup {y}
    PROVE  /\ IsFiniteSet(T) /\ Cardinality(S) \in Nat /\ Cardinality(T) \in Nat
           /\ Cardinality(T) <= Cardinality(S) + 1
  <1> DEFINE more == S \cup {y}
  <1>1. Cardinality(S) \in Nat
    BY FS_CardinalityType
  <1>2. IsFiniteSet(more) /\ Cardinality(more) <= Cardinality(S) + 1
    <2>1. /\ IsFiniteSet(more)
          /\ Cardinality(more) = IF y \in S THEN Cardinality(S) ELSE Cardinality(S) + 1
      BY FS_AddElement
    <2> HIDE DEF more
    <2> QED
      BY <1>1, <2>1
  <1>3. IsFiniteSet(T) /\ Cardinality(T) <= Cardinality(more)
    BY <1>2, FS_Subset
  <1>4. Cardinality(T) \in Nat /\ Cardinality(more) \in Nat
    BY <1>2, <1>3, FS_CardinalityType
  <1> HIDE DEF more
  <1> QED
    BY <1>1, <1>2, <1>3, <1>4

LEMMA OneLess ==
    ASSUME NEW S, NEW T, NEW x \in S, IsFiniteSet(S), T \subseteq S \ {x}
    PROVE  /\ IsFiniteSet(T) /\ Cardinality(S) \in Nat /\ Cardinality(T) \in Nat
           /\ Cardinality(T) + 1 <= Cardinality(S)
  <1>1. IsFiniteSet(S \ {x}) /\ Cardinality(S \ {x}) = Cardinality(S) - 1
    BY FS_RemoveElement
  <1>2. IsFiniteSet(T) /\ Cardinality(T) <= Cardinality(S \ {x})
    BY <1>1, FS_Subset
  <1>3. Cardinality(S) \in Nat /\ Cardinality(T) \in Nat
    BY <1>2, FS_CardinalityType
  <1> QED
    BY <1>1, <1>2, <1>3

LEMMA OneExchanged ==
    ASSUME NEW S, NEW T, NEW x \in S, NEW y, IsFiniteSet(S), T \subseteq (S \ {x}) \cup {y}
    PROVE  /\ IsFiniteSet(T) /\ Cardinality(S) \in Nat /\ Cardinality(T) \in Nat
           /\ Cardinality(T) <= Cardinality(S)
  <1>1. /\ IsFiniteSet(S \ {x}) /\ Cardinality(S) \in Nat /\ Cardinality(S \ {x}) \in Nat
        /\ Cardinality(S \ {x}) + 1 <= Cardinality(S)
    BY OneLess
  <1>2. /\ IsFiniteSet(T) /\ Cardinality(T) \in Nat
        /\ Cardinality(T) <= Cardinality(S \ {x}) + 1
    BY <1>1, OneMore
  <1> QED
    BY <1>1, <1>2

\* What is in one of the three kinds is not in another.
LEMMA PassesByKind ==
    /\ \A x \in LateAnswers : x # <<"gauge", NoThread>> /\ x # <<"sample", NoThread>>
    /\ \A x \in GaugeInHand : x = <<"gauge", NoThread>>
    /\ \A x \in SampleInHand : x = <<"sample", NoThread>>
    /\ <<"gauge", NoThread>> # <<"sample", NoThread>>
  BY DEF LateAnswers, GaugeInHand, SampleInHand

\* A judgement either begins the next step of the rollout or counts one more
\* measurement, and it goes on or promotes only within the limits of the step.
LEMMA JudgedOutcome ==
    ASSUME GateTypeOK, phase = "canary", NEW passing, Judge(passing)
    PROVE  LET now == [m \in Metrics |-> failures[m] + IF m \in passing THEN 0 ELSE 1]
           IN  \/ /\ step < Steps /\ step' = step + 1 /\ taken' = 0 /\ failures' = NoFailures
                  /\ broken' = (store # "agree") /\ phase' = phase
               \/ /\ taken' = taken + 1 /\ failures' = now /\ UNCHANGED <<step, broken>>
                  /\ phase' \in {"canary", "promoted", "aborted"}
                  /\ phase' # "aborted" => \A m \in Metrics : now[m] <= FailureLimit
                  /\ phase' = "promoted" <=> phase' # "aborted" /\ taken' = Measurements
  <1> DEFINE now == [m \in Metrics |-> failures[m] + IF m \in passing THEN 0 ELSE 1]
             exceeded == \E m \in Metrics : now[m] > FailureLimit
             last == taken + 1 = Measurements
  <1>1. /\ step \in 1..Steps /\ FailureLimit \in Nat /\ Steps \in Nat
        /\ \A m \in Metrics : failures[m] \in Nat
    BY GateAssumption DEF GateTypeOK
  <1>2. \A m \in Metrics : now[m] \in Nat
    BY <1>1
  <1>3. PICK failed \in {exceeded, TRUE} :
            /\ phase' = IF failed THEN "aborted"
                        ELSE IF last /\ step = Steps THEN "promoted" ELSE phase
            /\ IF ~failed /\ last /\ step < Steps
               THEN /\ step' = step + 1 /\ taken' = 0 /\ failures' = NoFailures
                    /\ broken' = (store # "agree")
               ELSE /\ taken' = taken + 1 /\ failures' = now
                    /\ UNCHANGED <<step, broken>>
    BY DEF Judge
  <1>4. ~failed => \A m \in Metrics : now[m] <= FailureLimit
    <2>1. ~exceeded => \A m \in Metrics : now[m] <= FailureLimit
      BY <1>1, <1>2
    <2>2. CASE ~exceeded
      BY <2>1, <2>2
    <2>3. CASE exceeded
      <3>1. exceeded = TRUE
        BY <2>3
      <3> HIDE DEF exceeded
      <3>2. failed = TRUE
        BY <3>1
      <3> QED
        BY <3>2
    <2> QED
      BY <2>2, <2>3
  <1> HIDE DEF now, exceeded
  <1>5. CASE ~failed /\ last /\ step < Steps
    BY <1>1, <1>3, <1>5
  <1>6. CASE ~(~failed /\ last /\ step < Steps)
    <2>1. /\ taken' = taken + 1 /\ failures' = now /\ UNCHANGED <<step, broken>>
          /\ phase' \in {"canary", "promoted", "aborted"}
          /\ phase' # "aborted" => \A m \in Metrics : now[m] <= FailureLimit
      BY <1>3, <1>4, <1>6
    <2>2. phase' = "promoted" <=> phase' # "aborted" /\ taken' = Measurements
      BY <1>1, <1>3, <1>6, <2>1
    <2> QED
      BY <2>1, <2>2 DEF now
  <1> QED
    BY <1>5, <1>6 DEF now

\* The number of its measurements and failures stays within the limits of a step.
LEMMA JudgedStep ==
    ASSUME GateTypeOK, ScrapesAreInOrder, phase = "canary", NEW passing, Judge(passing)
    PROVE  /\ phase' \in {"canary", "promoted", "aborted"} /\ step' \in 1..Steps
           /\ taken' \in 0..Measurements /\ failures' \in [Metrics -> 0..FailureLimit + 1]
           /\ broken' \in BOOLEAN
           /\ phase' = "canary" =>
                  taken' < Measurements /\ \A m \in Metrics : failures'[m] <= FailureLimit
  <1> DEFINE now == [m \in Metrics |-> failures[m] + IF m \in passing THEN 0 ELSE 1]
  <1>1. /\ Steps \in Nat \ {0} /\ Measurements \in Nat \ {0} /\ FailureLimit \in Nat
        /\ step \in 1..Steps /\ taken \in Nat /\ taken < Measurements /\ broken \in BOOLEAN
        /\ \A m \in Metrics : failures[m] \in Nat /\ failures[m] <= FailureLimit
    BY GateAssumption DEF GateTypeOK, ScrapesAreInOrder
  <1>2. now \in [Metrics -> 0..FailureLimit + 1]
    BY <1>1
  <1>3. NoFailures \in [Metrics -> 0..FailureLimit + 1] /\ \A m \in Metrics : NoFailures[m] = 0
    BY <1>1 DEF NoFailures
  <1> HIDE DEF now
  <1>4. CASE /\ step < Steps /\ step' = step + 1 /\ taken' = 0 /\ failures' = NoFailures
             /\ broken' = (store # "agree") /\ phase' = phase
    BY <1>1, <1>3, <1>4
  <1>5. CASE /\ taken' = taken + 1 /\ failures' = now /\ UNCHANGED <<step, broken>>
             /\ phase' \in {"canary", "promoted", "aborted"}
             /\ phase' # "aborted" => \A m \in Metrics : now[m] <= FailureLimit
             /\ phase' = "promoted" <=> phase' # "aborted" /\ taken' = Measurements
    BY <1>1, <1>2, <1>5
  <1> QED
    BY <1>4, <1>5, JudgedOutcome DEF now

LEMMA GateTypesKept ==
    ASSUME GateTypeOK, ScrapesAreInOrder, [GateNext]_gateVars
    PROVE  GateTypeOK'
  <1> USE DEF GateTypeOK, Gauges
  <1>1. CASE UNCHANGED gateVars
    BY <1>1 DEF gateVars, surroundings, pod, prometheus, rollout
  <1>2. CASE StartRollout
    BY <1>2 DEF StartRollout, pod, prometheus
  <1>3. CASE StoreChanges
    <2>1. outages' \in 0..MaxOutages
      BY <1>3, GateAssumption DEF StoreChanges
    <2> QED
      BY <1>3, <2>1 DEF StoreChanges, pod, prometheus, rollout
  <1>4. CASE BeginScrape
    <2>1. (CHOOSE t \in Idle : TRUE) \in Threads
      BY <1>4 DEF BeginScrape, Idle
    <2> QED
      BY <1>4, <2>1 DEF BeginScrape, surroundings, rollout
  <1>5. ASSUME NEW t \in Threads, Query(t)
        PROVE  GateTypeOK'
    <2>1. late' \in 0..MaxLate
      BY <1>5, GateAssumption DEF Query
    <2>2. result'[t] \in {"none", "equal", "unequal", "failed"}
      BY <1>5 DEF Query
    <2> QED
      BY <1>5, <2>1, <2>2 DEF Query, surroundings, prometheus, rollout
  <1>6. ASSUME NEW t \in Threads, SetGap(t) \/ SetCheck(t)
        PROVE  GateTypeOK'
    BY <1>6 DEF SetGap, SetCheck, surroundings, prometheus, rollout
  <1>7. ASSUME NEW t \in Threads, Render(t)
        PROVE  GateTypeOK'
    BY <1>7 DEF Render, surroundings, prometheus, rollout
  <1>8. CASE TimeOut
    <2>1. late' \in 0..MaxLate
      BY <1>8, GateAssumption DEF TimeOut
    <2> QED
      BY <1>8, <2>1 DEF TimeOut, surroundings, rollout
  <1>9. CASE Measure
    BY <1>9, JudgedStep DEF Measure, pod
  <1> QED
    BY <1>1, <1>2, <1>3, <1>4, <1>5, <1>6, <1>7, <1>8, <1>9 DEF GateNext, ThreadStep

LEMMA OrderKept ==
    ASSUME GateTypeOK, ScrapesAreInOrder, [GateNext]_gateVars
    PROVE  ScrapesAreInOrder'
  <1> USE DEF ScrapesAreInOrder
  <1>1. CASE UNCHANGED gateVars
    BY <1>1 DEF gateVars, surroundings, pod, prometheus, rollout
  <1>2. CASE StartRollout
    BY <1>2, GateAssumption DEF StartRollout, pod, prometheus, NoFailures
  <1>3. CASE StoreChanges
    BY <1>3 DEF StoreChanges, pod, prometheus, rollout
  <1>4. CASE BeginScrape
    <2>1. \A t \in Threads : result[t] = "equal" => pc'[t] = pc[t]
      BY <1>4 DEF BeginScrape, Idle, GateTypeOK
    <2> QED
      BY <1>4, <2>1 DEF BeginScrape, rollout
  <1>5. ASSUME NEW t \in Threads, ThreadStep(t)
        PROVE  ScrapesAreInOrder'
    <2>1. phase = "canary" /\ UNCHANGED rollout
      BY <1>5 DEF ThreadStep, Query, SetGap, SetCheck, Render
    <2>2. \A u \in Threads : result'[u] = "equal" => pc'[u] \in {"gap", "check"}
      BY <1>5 DEF ThreadStep, Query, SetGap, SetCheck, Render, GateTypeOK
    <2> QED
      BY <2>1, <2>2 DEF rollout
  <1>6. CASE TimeOut
    BY <1>6 DEF TimeOut, rollout
  <1>7. CASE Measure
    BY <1>7, JudgedStep DEF Measure, pod
  <1> QED
    BY <1>1, <1>2, <1>3, <1>4, <1>5, <1>6, <1>7 DEF GateNext

LEMMA BrokenStaysSeen ==
    ASSUME GateTypeOK, ScrapesAreInOrder, BrokenIsSeen, [GateNext]_gateVars
    PROVE  BrokenIsSeen'
  <1> USE DEF BrokenIsSeen
  <1>1. CASE UNCHANGED gateVars
    BY <1>1 DEF gateVars, surroundings, pod, prometheus, rollout
  <1>2. CASE StartRollout
    BY <1>2, GateAssumption DEF StartRollout, pod, prometheus, ScrapesAreInOrder
  <1>3. CASE StoreChanges
    BY <1>3 DEF StoreChanges, pod, prometheus, rollout
  <1>4. CASE BeginScrape
    <2>1. \A t \in Idle : result[t] # "equal"
      BY DEF Idle, ScrapesAreInOrder
    <2>2. scraped' \in Idle /\ result' = result
      BY <1>4 DEF BeginScrape
    <2> QED
      BY <1>4, <2>1, <2>2 DEF BeginScrape, surroundings, rollout
  <1>5. ASSUME NEW t \in Threads, ThreadStep(t)
        PROVE  BrokenIsSeen'
    <2>1. phase = "canary" /\ UNCHANGED <<rollout, surroundings>> /\ scraped' \in {scraped, NoThread}
      BY <1>5 DEF ThreadStep, Query, SetGap, SetCheck, Render, prometheus
    <2>2. ASSUME broken, NEW u \in Threads, result[u] # "equal"
          PROVE  result'[u] # "equal"
      BY <1>5, <2>2 DEF ThreadStep, Query, SetGap, SetCheck, Render, GateTypeOK
    <2> QED
      BY <2>1, <2>2, GateAssumption DEF rollout, surroundings
  <1>6. CASE TimeOut
    BY <1>6, GateAssumption DEF TimeOut, rollout, surroundings
  <1>7. CASE Measure
    <2>1. scraped = NoThread /\ UNCHANGED <<store, scraped>> /\ phase' # "stable"
      BY <1>7, JudgedStep DEF Measure
    <2>2. broken' = broken \/ broken' = (store # "agree")
      BY <1>7 DEF Measure, Judge
    <2> QED
      BY <2>1, <2>2, GateAssumption
  <1> QED
    BY <1>1, <1>2, <1>3, <1>4, <1>5, <1>6, <1>7 DEF GateNext

\* A thread comes to hold an answer of a scrape that was given up with one more
\* late answer on the count.
LEMMA LateAnswersStep ==
    ASSUME GateTypeOK, [GateNext]_gateVars
    PROVE  \/ LateAnswers' \subseteq LateAnswers /\ late' \in {late, late + 1}
           \/ \E y : LateAnswers' \subseteq LateAnswers \cup {y} /\ late' = late + 1
  <1> USE DEF LateAnswers
  <1>1. CASE UNCHANGED <<pod, scraped>>
    BY <1>1 DEF pod
  <1>2. CASE BeginScrape
    <2>1. PICK t \in Threads : /\ scraped = NoThread /\ scraped' = t /\ pc' = [pc EXCEPT ![t] = "query"]
                               /\ UNCHANGED <<result, late>>
      BY <1>2 DEF BeginScrape, Idle
    <2>2. \A u \in Threads : u # scraped /\ (pc'[u] = "gap" => pc[u] = "gap")
      BY <2>1, GateAssumption DEF GateTypeOK
    <2> QED
      BY <2>1, <2>2
  <1>3. ASSUME NEW t \in Threads, Query(t)
        PROVE  \/ LateAnswers' \subseteq LateAnswers /\ late' \in {late, late + 1}
               \/ \E y : LateAnswers' \subseteq LateAnswers \cup {y} /\ late' = late + 1
    <2>1. /\ pc' = [pc EXCEPT ![t] = "gap"] /\ scraped' = scraped
          /\ late' = IF scraped = t \/ store = "away" THEN late ELSE late + 1
          /\ \A u \in Threads \ {t} : pc'[u] = pc[u] /\ result'[u] = result[u]
          /\ result'[t] = "equal" => store = "agree"
      BY <1>3 DEF Query, prometheus, GateTypeOK
    <2>2. LateAnswers' \subseteq LateAnswers \cup {<<"thread", t>>}
      BY <2>1
    <2>3. CASE scraped # t /\ result'[t] = "equal"
      BY <2>1, <2>2, <2>3
    <2>4. CASE ~(scraped # t /\ result'[t] = "equal")
      <3>1. LateAnswers' \subseteq LateAnswers
        BY <2>1, <2>4
      <3> QED
        BY <2>1, <3>1
    <2> QED
      BY <2>3, <2>4
  <1>4. ASSUME NEW t \in Threads, SetGap(t) \/ SetCheck(t) \/ Render(t)
        PROVE  LateAnswers' \subseteq LateAnswers /\ late' = late
    <2>1. /\ pc'[t] # "gap" /\ late' = late /\ (scraped' = scraped \/ scraped = t)
          /\ \A u \in Threads \ {t} : pc'[u] = pc[u] /\ result'[u] = result[u]
      BY <1>4 DEF SetGap, SetCheck, Render, prometheus, GateTypeOK
    <2> QED
      BY <2>1
  <1>5. CASE TimeOut
    <2>1. /\ UNCHANGED <<pc, result>> /\ scraped' = NoThread
          /\ late' = IF \E t \in Threads : scraped = t /\ result[t] \in {"equal", "unequal"}
                     THEN late + 1 ELSE late
      BY <1>5 DEF TimeOut
    <2>2. LateAnswers' \subseteq LateAnswers \cup {<<"thread", scraped>>}
      BY <2>1
    <2>3. CASE scraped \in Threads /\ result[scraped] = "equal"
      BY <2>1, <2>2, <2>3
    <2>4. CASE ~(scraped \in Threads /\ result[scraped] = "equal")
      <3>1. LateAnswers' \subseteq LateAnswers
        BY <2>1, <2>4
      <3> QED
        BY <2>1, <3>1
    <2> QED
      BY <2>3, <2>4
  <1> QED
    BY <1>1, <1>2, <1>3, <1>4, <1>5
    DEF GateNext, ThreadStep, StartRollout, StoreChanges, Measure, gateVars, prometheus

LEMMA LateAnswersStayCounted ==
    ASSUME GateTypeOK, LateAnswersAreCounted, [GateNext]_gateVars
    PROVE  LateAnswersAreCounted'
  <1>1. IsFiniteSet(LateAnswers) /\ Cardinality(LateAnswers) <= late /\ late \in Nat
    BY DEF LateAnswersAreCounted, GateTypeOK
  <1>2. CASE LateAnswers' \subseteq LateAnswers /\ late' \in {late, late + 1}
    <2>1. IsFiniteSet(LateAnswers') /\ Cardinality(LateAnswers') <= Cardinality(LateAnswers)
      BY <1>1, <1>2, FS_Subset
    <2>2. Cardinality(LateAnswers') \in Nat /\ Cardinality(LateAnswers) \in Nat
      BY <1>1, <2>1, FS_CardinalityType
    <2> QED
      BY <1>1, <1>2, <2>1, <2>2 DEF LateAnswersAreCounted
  <1>3. ASSUME NEW y, LateAnswers' \subseteq LateAnswers \cup {y}, late' = late + 1
        PROVE  LateAnswersAreCounted'
    <2>1. /\ IsFiniteSet(LateAnswers') /\ Cardinality(LateAnswers') <= Cardinality(LateAnswers) + 1
          /\ Cardinality(LateAnswers') \in Nat /\ Cardinality(LateAnswers) \in Nat
      BY <1>1, <1>3, OneMore
    <2> QED
      BY <1>1, <1>3, <2>1 DEF LateAnswersAreCounted
  <1> QED
    BY <1>2, <1>3, LateAnswersStep

\* Until the next measurement, the passes to come change as the late answers do,
\* or one changes hands: from a thread to the gauge, from the gauge to the sample.
LEMMA PassesStep ==
    ASSUME GateTypeOK, ScrapesAreInOrder, BrokenIsSeen, broken, [GateNext]_gateVars,
           StoreChanges \/ BeginScrape \/ (\E t \in Threads : ThreadStep(t)) \/ TimeOut
    PROVE  \/ PassesToCome' \subseteq PassesToCome /\ late' \in {late, late + 1}
           \/ \E y : PassesToCome' \subseteq PassesToCome \cup {y} /\ late' = late + 1
           \/ \E x \in PassesToCome : \E y :
                  PassesToCome' \subseteq (PassesToCome \ {x}) \cup {y} /\ late' = late
  <1>1. ASSUME GaugeInHand' \subseteq GaugeInHand, SampleInHand' \subseteq SampleInHand
        PROVE  \/ PassesToCome' \subseteq PassesToCome /\ late' \in {late, late + 1}
               \/ \E y : PassesToCome' \subseteq PassesToCome \cup {y} /\ late' = late + 1
    <2>1. CASE LateAnswers' \subseteq LateAnswers /\ late' \in {late, late + 1}
      BY <1>1, <2>1 DEF PassesToCome
    <2>2. ASSUME NEW y, LateAnswers' \subseteq LateAnswers \cup {y}, late' = late + 1
          PROVE  PassesToCome' \subseteq PassesToCome \cup {y}
      BY <1>1, <2>2 DEF PassesToCome
    <2> QED
      BY <2>1, <2>2, LateAnswersStep
  <1>2. CASE StoreChanges
    <2>1. GaugeInHand' = GaugeInHand /\ SampleInHand' = SampleInHand
      BY <1>2 DEF StoreChanges, pod, prometheus, GaugeInHand, SampleInHand
    <2> QED
      BY <1>1, <2>1
  <1>3. CASE BeginScrape
    <2>1. /\ scraped' \in Threads /\ pc'[scraped'] = "query"
          /\ UNCHANGED <<sample, refreshed>>
      BY <1>3 DEF BeginScrape, Idle, GateTypeOK
    <2>2. GaugeInHand' = {} /\ SampleInHand' = SampleInHand
      BY <2>1 DEF GaugeInHand, SampleInHand
    <2> QED
      BY <1>1, <2>2
  <1>4. ASSUME NEW t \in Threads, Query(t)
        PROVE  GaugeInHand' \subseteq GaugeInHand /\ SampleInHand' \subseteq SampleInHand
    <2>1. /\ UNCHANGED <<gauges, scraped, sample, refreshed>>
          /\ pc'[t] = "gap" /\ \A u \in Threads \ {t} : pc'[u] = pc[u]
      BY <1>4 DEF Query, prometheus, GateTypeOK
    <2>2. GaugeInHand' \subseteq GaugeInHand
      BY <2>1 DEF GaugeInHand
    <2>3. SampleInHand' = SampleInHand
      BY <2>1 DEF SampleInHand
    <2> QED
      BY <2>2, <2>3
  <1>5. ASSUME NEW t \in Threads, SetGap(t)
        PROVE  \/ PassesToCome' \subseteq PassesToCome /\ late' \in {late, late + 1}
               \/ \E y : PassesToCome' \subseteq PassesToCome \cup {y} /\ late' = late + 1
               \/ \E x \in PassesToCome : \E y :
                      PassesToCome' \subseteq (PassesToCome \ {x}) \cup {y} /\ late' = late
    <2>1. /\ UNCHANGED <<result, late, scraped, sample, refreshed>>
          /\ gauges'["gap"] = (result[t] # "equal")
          /\ pc[t] = "gap" /\ pc' = [pc EXCEPT ![t] = "check"]
      BY <1>5 DEF SetGap, prometheus, GateTypeOK, Gauges
    <2>2. SampleInHand' = SampleInHand
      BY <2>1 DEF SampleInHand
    <2>3. CASE result[t] # "equal"
      <3>1. GaugeInHand' = {}
        BY <2>1, <2>3 DEF GaugeInHand
      <3> QED
        BY <1>1, <2>2, <3>1
    <2>4. CASE result[t] = "equal"
      <3> DEFINE x == <<"thread", t>>
                 y == <<"gauge", NoThread>>
      <3>1. t # scraped
        BY <2>4 DEF BrokenIsSeen
      <3>2. x \in LateAnswers
        BY <2>1, <2>4, <3>1 DEF LateAnswers
      <3>3. LateAnswers' \subseteq LateAnswers \ {x}
        BY <2>1 DEF LateAnswers, GateTypeOK
      <3>4. GaugeInHand' \subseteq {y}
        BY DEF GaugeInHand
      <3>5. x \notin SampleInHand
        BY <3>2, PassesByKind
      <3> HIDE DEF x, y
      <3>6. PassesToCome' \subseteq (PassesToCome \ {x}) \cup {y} /\ x \in PassesToCome
        BY <2>2, <3>2, <3>3, <3>4, <3>5 DEF PassesToCome
      <3> QED
        BY <2>1, <3>6
    <2> QED
      BY <2>3, <2>4
  <1>6. ASSUME NEW t \in Threads, SetCheck(t)
        PROVE  GaugeInHand' \subseteq GaugeInHand /\ SampleInHand' \subseteq SampleInHand
    <2>1. /\ UNCHANGED <<scraped, sample, refreshed>> /\ gauges'["gap"] = gauges["gap"]
          /\ pc[t] = "check" /\ \A u \in Threads \ {t} : pc'[u] = pc[u]
      BY <1>6 DEF SetCheck, prometheus, GateTypeOK, Gauges
    <2>2. GaugeInHand' \subseteq GaugeInHand
      BY <2>1 DEF GaugeInHand
    <2>3. SampleInHand' = SampleInHand
      BY <2>1 DEF SampleInHand
    <2> QED
      BY <2>2, <2>3
  <1>7. ASSUME NEW t \in Threads, Render(t)
        PROVE  \/ PassesToCome' \subseteq PassesToCome /\ late' \in {late, late + 1}
               \/ \E y : PassesToCome' \subseteq PassesToCome \cup {y} /\ late' = late + 1
               \/ \E x \in PassesToCome : \E y :
                      PassesToCome' \subseteq (PassesToCome \ {x}) \cup {y} /\ late' = late
    <2>1. /\ UNCHANGED <<result, late, gauges>> /\ pc[t] = "render"
          /\ pc' = [pc EXCEPT ![t] = "idle"]
      BY <1>7 DEF Render
    <2>2. CASE scraped # t
      <3>1. UNCHANGED <<scraped, sample, refreshed>>
        BY <1>7, <2>2 DEF Render, prometheus
      <3>2. GaugeInHand' \subseteq GaugeInHand
        BY <2>1, <2>2, <3>1 DEF GaugeInHand, GateTypeOK
      <3>3. SampleInHand' = SampleInHand
        BY <3>1 DEF SampleInHand
      <3> QED
        BY <1>1, <3>2, <3>3
    <2>3. CASE scraped = t
      <3>1. scraped' = NoThread /\ sample' = gauges
        BY <1>7, <2>3 DEF Render
      <3>2. GaugeInHand' = {}
        BY <3>1, GateAssumption DEF GaugeInHand
      <3>3. CASE gauges["gap"]
        <4>1. SampleInHand' = {}
          BY <3>1, <3>3 DEF SampleInHand
        <4> QED
          BY <1>1, <3>2, <4>1
      <3>4. CASE ~gauges["gap"]
        <4> DEFINE x == <<"gauge", NoThread>>
                   y == <<"sample", NoThread>>
        <4>1. x \in GaugeInHand
          BY <2>1, <2>3, <3>4 DEF GaugeInHand
        <4>2. LateAnswers' \subseteq LateAnswers
          BY <2>1, <2>3 DEF LateAnswers, GateTypeOK
        <4>3. SampleInHand' \subseteq {y} /\ x \notin LateAnswers
          BY PassesByKind DEF SampleInHand
        <4> HIDE DEF x, y
        <4>4. PassesToCome' \subseteq (PassesToCome \ {x}) \cup {y} /\ x \in PassesToCome
          BY <3>2, <4>1, <4>2, <4>3 DEF PassesToCome
        <4> QED
          BY <2>1, <4>4
      <3> QED
        BY <3>3, <3>4
    <2> QED
      BY <2>2, <2>3
  <1>8. CASE TimeOut
    <2>1. scraped' = NoThread /\ sample' = NoSample
      BY <1>8 DEF TimeOut
    <2>2. GaugeInHand' = {} /\ SampleInHand' = {}
      BY <2>1, GateAssumption DEF GaugeInHand, SampleInHand
    <2> QED
      BY <1>1, <2>2
  <1> QED
    BY <1>1, <1>2, <1>3, <1>4, <1>5, <1>6, <1>7, <1>8 DEF ThreadStep

\* A measurement uses up the sample in hand: it takes a pass or counts a failure.
LEMMA MeasuredStep ==
    ASSUME GateTypeOK, ScrapesAreInOrder, PassesAreLate, LateAnswersAreCounted, Measure
    PROVE  PassesAreLate' /\ PromotionNeedsLateAnswers'
  <1> DEFINE m == "outbox-parity"
  <1>1. PICK ratio \in SUBSET RatioMayPass : Judge(GaugesPass \cup ratio)
    BY DEF Measure
  <1>2. /\ phase = "canary" /\ refreshed' = FALSE /\ scraped = NoThread /\ refreshed
        /\ UNCHANGED <<pc, result, late, gauges, scraped, sample>>
    BY DEF Measure, pod
  <1>3. /\ LateAnswers' = LateAnswers /\ GaugeInHand' = {} /\ GaugeInHand = {}
        /\ SampleInHand' = {} /\ PassesToCome' = LateAnswers
    <2>1. LateAnswers' = LateAnswers
      BY <1>2 DEF LateAnswers
    <2>2. GaugeInHand' = {} /\ GaugeInHand = {}
      BY <1>2, GateAssumption DEF GaugeInHand
    <2>3. SampleInHand' = {}
      BY <1>2 DEF SampleInHand
    <2> QED
      BY <2>1, <2>2, <2>3 DEF PassesToCome
  <1>4. /\ IsFiniteSet(LateAnswers) /\ Cardinality(LateAnswers) <= late
        /\ Cardinality(LateAnswers) \in Nat
    BY FS_CardinalityType DEF LateAnswersAreCounted
  <1>5. /\ taken \in Nat /\ late \in Nat /\ failures[m] \in Nat
        /\ Measurements \in Nat /\ FailureLimit \in Nat
    BY GateAssumption DEF GateTypeOK, Metrics
  <1>6. m \in GaugesPass \cup ratio => <<"sample", NoThread>> \in PassesToCome
    BY <1>2 DEF GaugesPass, RatioMayPass, SampleInHand, PassesToCome
  \* What is in hand before and what a measurement leaves of it.
  <1>7. ASSUME broken
        PROVE  Cardinality(LateAnswers) + taken + 1
                   <= late + failures[m] + IF m \in GaugesPass \cup ratio THEN 0 ELSE 1
    <2>1. /\ IsFiniteSet(PassesToCome)
          /\ Cardinality(PassesToCome) + taken <= late + failures[m]
      BY <1>2, <1>7 DEF PassesAreLate
    <2>2. CASE m \in GaugesPass \cup ratio
      <3>1. LateAnswers \subseteq PassesToCome \ {<<"sample", NoThread>>}
        BY PassesByKind DEF PassesToCome
      <3>2. /\ Cardinality(LateAnswers) + 1 <= Cardinality(PassesToCome)
            /\ Cardinality(PassesToCome) \in Nat
        BY <1>6, <2>1, <2>2, <3>1, OneLess
      <3> QED
        BY <1>4, <1>5, <2>1, <2>2, <3>2
    <2>3. CASE m \notin GaugesPass \cup ratio
      <3>1. Cardinality(LateAnswers) <= Cardinality(PassesToCome)
        BY <2>1, FS_Subset DEF PassesToCome
      <3>2. Cardinality(PassesToCome) \in Nat
        BY <2>1, FS_CardinalityType
      <3> QED
        BY <1>4, <1>5, <2>1, <2>3, <3>1, <3>2
    <2> QED
      BY <2>2, <2>3
  <1>8. CASE taken' = 0 /\ failures' = NoFailures /\ phase' = "canary"
    <2>1. failures'[m] = 0
      BY <1>8 DEF NoFailures, Metrics
    <2> HIDE DEF m
    <2>2. late' = late /\ PassesToCome' = LateAnswers /\ phase' # "promoted"
      BY <1>2, <1>3, <1>8
    <2> QED
      BY <1>4, <1>5, <1>8, <2>1, <2>2 DEF PassesAreLate, PromotionNeedsLateAnswers, m
  <1>9. CASE /\ taken' = taken + 1 /\ broken' = broken
             /\ failures'[m] = failures[m] + IF m \in GaugesPass \cup ratio THEN 0 ELSE 1
             /\ phase' = "promoted" => taken' = Measurements /\ failures'[m] <= FailureLimit
    <2>1. broken' => /\ IsFiniteSet(PassesToCome')
                     /\ Cardinality(PassesToCome') + taken' <= late' + failures'[m]
      BY <1>2, <1>3, <1>4, <1>5, <1>7, <1>9
    <2>2. broken' /\ phase' = "promoted" => Measurements <= FailureLimit + late'
      BY <1>2, <1>3, <1>4, <1>5, <1>9, <2>1
    <2> QED
      BY <2>1, <2>2 DEF PassesAreLate, PromotionNeedsLateAnswers
  <1> QED
    BY <1>1, <1>2, <1>8, <1>9, JudgedOutcome DEF Metrics

LEMMA GateInvKept ==
    ASSUME GateInv, [GateNext]_gateVars
    PROVE  GateInv'
  <1>1. /\ GateTypeOK /\ ScrapesAreInOrder /\ BrokenIsSeen
        /\ LateAnswersAreCounted /\ PassesAreLate /\ PromotionNeedsLateAnswers
    BY DEF GateInv
  <1>2. GateTypeOK' /\ ScrapesAreInOrder' /\ BrokenIsSeen' /\ LateAnswersAreCounted'
    BY <1>1, GateTypesKept, OrderKept, BrokenStaysSeen, LateAnswersStayCounted
  <1>3. PassesAreLate' /\ PromotionNeedsLateAnswers'
    <2>1. CASE UNCHANGED gateVars
      BY <1>1, <2>1 DEF gateVars, surroundings, pod, prometheus, rollout, PassesAreLate,
             PromotionNeedsLateAnswers, PassesToCome, LateAnswers, GaugeInHand, SampleInHand
    <2>2. CASE StartRollout
      <3>1. /\ scraped' = NoThread /\ ~refreshed' /\ taken' = 0
            /\ failures' = NoFailures /\ phase' = "canary"
        BY <1>1, <2>2 DEF StartRollout, prometheus, ScrapesAreInOrder
      <3>2. GaugeInHand' = {} /\ SampleInHand' = {}
        BY <3>1, GateAssumption DEF GaugeInHand, SampleInHand
      <3>3. /\ IsFiniteSet(PassesToCome') /\ Cardinality(PassesToCome') <= late'
            /\ Cardinality(PassesToCome') \in Nat /\ late' \in Nat
        <4>1. PassesToCome' = LateAnswers'
          BY <3>2 DEF PassesToCome
        <4>2. Cardinality(LateAnswers') \in Nat
          BY <1>2, FS_CardinalityType DEF LateAnswersAreCounted
        <4> QED
          BY <1>2, <4>1, <4>2 DEF LateAnswersAreCounted, GateTypeOK
      <3>4. failures'["outbox-parity"] = 0
        BY <3>1 DEF NoFailures, Metrics
      <3> QED
        BY <3>1, <3>3, <3>4 DEF PassesAreLate, PromotionNeedsLateAnswers
    <2>3. CASE StoreChanges \/ BeginScrape \/ (\E t \in Threads : ThreadStep(t)) \/ TimeOut
      <3>1. /\ phase = "canary" /\ UNCHANGED rollout /\ (broken' => broken)
        <4>1. CASE StoreChanges
          BY <4>1 DEF StoreChanges
        <4>2. CASE BeginScrape \/ TimeOut
          BY <4>2 DEF BeginScrape, TimeOut, surroundings
        <4>3. ASSUME NEW t \in Threads, ThreadStep(t)
              PROVE  phase = "canary" /\ UNCHANGED rollout /\ broken' = broken
          BY <4>3 DEF ThreadStep, Query, SetGap, SetCheck, Render, surroundings, rollout
        <4> QED
          BY <2>3, <4>1, <4>2, <4>3
      <3>2. SUFFICES ASSUME broken
                     PROVE  /\ IsFiniteSet(PassesToCome')
                            /\ Cardinality(PassesToCome') + taken <= late' + failures["outbox-parity"]
        BY <3>1 DEF rollout, PassesAreLate, PromotionNeedsLateAnswers
      <3>3. /\ IsFiniteSet(PassesToCome)
            /\ Cardinality(PassesToCome) + taken <= late + failures["outbox-parity"]
        BY <1>1, <3>1, <3>2 DEF PassesAreLate
      <3>4. taken \in Nat /\ late \in Nat /\ failures["outbox-parity"] \in Nat
        BY <1>1, GateAssumption DEF GateTypeOK, Metrics
      <3>5. CASE PassesToCome' \subseteq PassesToCome /\ late' \in {late, late + 1}
        <4>1. /\ IsFiniteSet(PassesToCome')
              /\ Cardinality(PassesToCome') <= Cardinality(PassesToCome)
          BY <3>3, <3>5, FS_Subset
        <4>2. Cardinality(PassesToCome') \in Nat /\ Cardinality(PassesToCome) \in Nat
          BY <3>3, <4>1, FS_CardinalityType
        <4> QED
          BY <3>3, <3>4, <3>5, <4>1, <4>2
      <3>6. ASSUME NEW y, PassesToCome' \subseteq PassesToCome \cup {y}, late' = late + 1
            PROVE  /\ IsFiniteSet(PassesToCome')
                   /\ Cardinality(PassesToCome') + taken <= late' + failures["outbox-parity"]
        <4>1. /\ IsFiniteSet(PassesToCome')
              /\ Cardinality(PassesToCome') <= Cardinality(PassesToCome) + 1
              /\ Cardinality(PassesToCome') \in Nat /\ Cardinality(PassesToCome) \in Nat
          BY <3>3, <3>6, OneMore
        <4> QED
          BY <3>3, <3>4, <3>6, <4>1
      <3>7. ASSUME NEW x \in PassesToCome, NEW y, late' = late,
                   PassesToCome' \subseteq (PassesToCome \ {x}) \cup {y}
            PROVE  /\ IsFiniteSet(PassesToCome')
                   /\ Cardinality(PassesToCome') + taken <= late' + failures["outbox-parity"]
        <4>1. /\ IsFiniteSet(PassesToCome')
              /\ Cardinality(PassesToCome') <= Cardinality(PassesToCome)
              /\ Cardinality(PassesToCome') \in Nat /\ Cardinality(PassesToCome) \in Nat
          BY <3>3, <3>7, OneExchanged
        <4> QED
          BY <3>3, <3>4, <3>7, <4>1
      <3> QED
        BY <1>1, <2>3, <3>2, <3>5, <3>6, <3>7, PassesStep
    <2>4. CASE Measure
      BY <1>1, <2>4, MeasuredStep
    <2> QED
      BY <2>1, <2>2, <2>3, <2>4 DEF GateNext
  <1> QED
    BY <1>2, <1>3 DEF GateInv

LEMMA GateInvariant == ReleaseSpec => []GateInv
  <1>1. GateInit => GateInv
    <2> SUFFICES ASSUME GateInit
                 PROVE  GateInv
      OBVIOUS
    <2> USE DEF GateInit
    <2>1. NoFailures \in [Metrics -> 0..FailureLimit + 1]
      BY GateAssumption DEF NoFailures
    <2>2. GateTypeOK
      <3>1. step \in 1..Steps /\ taken \in 0..Measurements /\ outages \in 0..MaxOutages /\ late \in 0..MaxLate
        BY GateAssumption
      <3>2. failures \in [Metrics -> 0..FailureLimit + 1]
        BY <2>1
      <3> QED
        BY <3>1, <3>2 DEF GateTypeOK, Gauges
    <2>3. ScrapesAreInOrder
      BY DEF ScrapesAreInOrder
    <2>4. LateAnswers = {}
      BY DEF LateAnswers
    <2>5. LateAnswersAreCounted
      BY <2>4, FS_EmptySet DEF LateAnswersAreCounted
    <2> QED
      BY <2>2, <2>3, <2>5 DEF GateInv, BrokenIsSeen, PassesAreLate, PromotionNeedsLateAnswers
  <1>2. ReleaseInit => GateInv
    BY <1>1 DEF ReleaseInit
  <1>3. GateInv /\ [ReleaseNext]_releaseVars => GateInv'
    <2>1. [ReleaseNext]_releaseVars => [GateNext]_gateVars
      BY DEF ReleaseNext, releaseVars
    <2> QED
      BY <2>1, GateInvKept
  <1> QED
    BY <1>2, <1>3, PTL DEF ReleaseSpec

\* The variables of the gate keep their types, in jobs of every kind.
THEOREM GateTypeCorrectness == ReleaseSpec => []GateTypeOK
  <1>1. GateInv => GateTypeOK
    BY DEF GateInv
  <1> QED
    BY GateInvariant, <1>1, PTL

\* However the gauges, the scrapes, the outages and the steps of the rollout
\* interleave, a canary whose tables have not agreed since its last step began is
\* promoted only if as many late answers stood in for the measurements of
\* analysis-template.yaml as may not fail.
THEOREM BrokenPromotionNeedsLateAnswers == ReleaseSpec => []PromotionNeedsLateAnswers
  <1>1. GateInv => PromotionNeedsLateAnswers
    BY DEF GateInv
  <1> QED
    BY GateInvariant, <1>1, PTL

\* So with the deployed count of 3 and failureLimit of 1 (any count at least two
\* above the limit) one late answer does not let a broken canary through.
THEOREM BrokenIsNeverPromoted ==
    ASSUME Measurements >= FailureLimit + 2
    PROVE  ReleaseSpec => []BrokenIsNotPromoted
  <1>1. GateInv => BrokenIsNotPromoted
    BY GateAssumption DEF GateInv, GateTypeOK, PromotionNeedsLateAnswers, BrokenIsNotPromoted
  <1> QED
    BY GateInvariant, <1>1, PTL
=============================================================================
