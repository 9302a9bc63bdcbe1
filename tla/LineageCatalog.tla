--------------------------- MODULE LineageCatalog ---------------------------
(***************************************************************************)
(* How a data product's lineage is validated before the catalog is built   *)
(* (services/catalog.py): _validate_product looks at each asset and its    *)
(* direct upstreams, and if that finds no error _find_cycles searches the  *)
(* lineage depth first.  The other rules compare one field of the document *)
(* with one file or field and are left out.                                *)
(*                                                                         *)
(* The order in which the search takes assets and upstreams is that of the *)
(* document; any order is allowed here.                                    *)
(***************************************************************************)
EXTENDS Naturals, Sequences, FiniteSets

CONSTANT Assets

VARIABLES upstreams,    \* the upstreams of each asset, which may be undeclared
          implemented,  \* assets of state "implemented"; the others are planned
          verdict,      \* "none", "searching", "accepted", "refused", "cyclic"
          path,         \* stack, which holds the assets of visiting in order
          remaining,    \* upstreams a visited asset still has to look at
          visited,      \* assets whose visit has ended
          cycle         \* the cycle reported

search == <<path, remaining, visited, cycle>>
catalogVars == <<upstreams, implemented, verdict, search>>

Unknown == "unknown"
visiting == {path[i] : i \in DOMAIN path}
Top == path[Len(path)]

CatalogTypeOK ==
    /\ upstreams \in [Assets -> SUBSET (Assets \cup {Unknown})]
    /\ implemented \subseteq Assets
    /\ verdict \in {"none", "searching", "accepted", "refused", "cyclic"}
    /\ path \in Seq(Assets) /\ remaining \in [Assets -> SUBSET Assets]
    /\ visited \subseteq Assets /\ cycle \in Seq(Assets)

Document(lineage, states) ==
    /\ upstreams = lineage /\ implemented = states
    /\ verdict = "none"
    /\ path = <<>> /\ remaining = [a \in Assets |-> {}]
    /\ visited = {} /\ cycle = <<>>

CatalogInit ==
    \E lineage \in [Assets -> SUBSET (Assets \cup {Unknown})], states \in SUBSET Assets :
        Document(lineage, states)

(***************************************************************************)
(* _validate_product                                                       *)
(***************************************************************************)
\* An upstream is a declared asset and not the asset itself, and what an
\* implemented asset depends on is implemented.
Sound(a) ==
    /\ upstreams[a] \subseteq Assets \ {a}
    /\ a \in implemented => upstreams[a] \subseteq implemented

Validate ==
    /\ verdict = "none"
    /\ verdict' = IF implemented # {} /\ \A a \in Assets : Sound(a)
                  THEN "searching" ELSE "refused"
    /\ UNCHANGED <<upstreams, implemented, search>>

(***************************************************************************)
(* _find_cycles                                                            *)
(***************************************************************************)
Enter(a) ==
    /\ path' = Append(path, a)
    /\ remaining' = [remaining EXCEPT ![a] = upstreams[a]]

\* The loop over all assets: those already visited return at once.
VisitAsset(a) ==
    /\ verdict = "searching" /\ path = <<>> /\ a \notin visited
    /\ Enter(a)
    /\ UNCHANGED <<upstreams, implemented, verdict, visited, cycle>>

\* The whole stack is reported in place of its part from the asset on.
ReportStack(a) ==
    /\ verdict = "searching" /\ path # <<>> /\ a \in remaining[Top]
    /\ a \in visiting
    /\ cycle' = Append(path, a)
    /\ verdict' = "cyclic"
    /\ UNCHANGED <<upstreams, implemented, path, remaining, visited>>

\* visit() of an asset that is being visited: the stack from there on.
ReportCycle(a) ==
    /\ verdict = "searching" /\ path # <<>> /\ a \in remaining[Top]
    /\ a \in visiting
    /\ LET start == CHOOSE i \in DOMAIN path : path[i] = a
       IN  cycle' = Append(SubSeq(path, start, Len(path)), a)
    /\ verdict' = "cyclic"
    /\ UNCHANGED <<upstreams, implemented, path, remaining, visited>>

\* "visited" at the beginning of a visit, as in a search that only collects.
SkipSeen(a) ==
    /\ verdict = "searching" /\ path # <<>> /\ a \in remaining[Top]
    /\ remaining' = [remaining EXCEPT ![Top] = @ \ {a}]
    /\ a \in visited \cup visiting
    /\ UNCHANGED <<upstreams, implemented, verdict, path, visited, cycle>>

\* visit() of an asset whose visit has ended without a cycle.
SkipVisited(a) ==
    /\ verdict = "searching" /\ path # <<>> /\ a \in remaining[Top]
    /\ a \in visited
    /\ remaining' = [remaining EXCEPT ![Top] = @ \ {a}]
    /\ UNCHANGED <<upstreams, implemented, verdict, path, visited, cycle>>

\* visit() of any other upstream.
VisitUpstream(a) ==
    /\ verdict = "searching" /\ path # <<>> /\ a \in remaining[Top]
    /\ a \notin visiting \cup visited
    /\ path' = Append(path, a)
    /\ remaining' = [remaining EXCEPT ![Top] = @ \ {a}, ![a] = upstreams[a]]
    /\ UNCHANGED <<upstreams, implemented, verdict, visited, cycle>>

\* All upstreams of the asset have been looked at.
Leave ==
    /\ verdict = "searching" /\ path # <<>> /\ remaining[Top] = {}
    /\ path' = SubSeq(path, 1, Len(path) - 1)
    /\ visited' = visited \cup {Top}
    /\ UNCHANGED <<upstreams, implemented, verdict, remaining, cycle>>

\* No cycle was returned for any asset.
Accept ==
    /\ verdict = "searching" /\ path = <<>> /\ visited = Assets
    /\ verdict' = "accepted"
    /\ UNCHANGED <<upstreams, implemented, search>>

CatalogNext ==
    \/ Validate
    \/ \E a \in Assets :
          \/ VisitAsset(a)
          \/ ReportCycle(a)
          \/ SkipVisited(a)
          \/ VisitUpstream(a)
    \/ Leave
    \/ Accept

CatalogSpec == CatalogInit /\ [][CatalogNext]_catalogVars

(***************************************************************************)
(* Properties                                                              *)
(***************************************************************************)
\* Everything the data of an asset comes from, at any distance: what is in every
\* set that holds its upstreams and the upstreams of its members.
HoldsUpstreams(S) == \A a \in S \cap Assets : upstreams[a] \subseteq S
Origins(a) ==
    {b \in Assets \cup {Unknown} :
        \A S \in SUBSET (Assets \cup {Unknown}) :
            upstreams[a] \subseteq S /\ HoldsUpstreams(S) => b \in S}

\* The rules look at direct upstreams only and the search at one path at a
\* time, yet an accepted lineage has no cycle at any distance, and nothing an
\* implemented asset is derived from is only planned.
AcceptedIsGrounded ==
    verdict = "accepted" =>
        \A a \in Assets : /\ a \notin Origins(a)
                          /\ a \in implemented => Origins(a) \subseteq implemented

\* What is reported is a cycle of the lineage: each asset in it is derived from
\* the next, it begins where it ends and repeats nothing else.
ReportedIsCycle ==
    verdict = "cyclic" =>
        /\ Len(cycle) > 1 /\ cycle[1] = cycle[Len(cycle)]
        /\ \A i \in 1..Len(cycle) - 1 : cycle[i + 1] \in upstreams[cycle[i]]
        /\ \A i, j \in 1..Len(cycle) - 1 : cycle[i] = cycle[j] => i = j
=============================================================================
