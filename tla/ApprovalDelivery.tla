-------------------------- MODULE ApprovalDelivery --------------------------
(***************************************************************************)
(* What the D2C path promises, with no database transaction, outbox, topic *)
(* or offset in sight: an application is approved at most once per key and *)
(* per (user, campaign), and every approved application, and no other, is  *)
(* delivered to the operational store exactly once.                        *)
(***************************************************************************)
CONSTANTS Applications,    \* every application there could be
          Excludes(_, _)   \* two applications that cannot both be approved

VARIABLES approved,   \* applications approved so far
          delivered   \* approved applications the store holds

deliveryVars == <<approved, delivered>>

Init ==
    /\ approved = {}
    /\ delivered = {}

\* An approval is durable at one instant, with its announcement.
Approve(a) ==
    /\ a \notin approved
    /\ \A b \in approved : ~Excludes(a, b)
    /\ approved' = approved \cup {a}
    /\ UNCHANGED delivered

Deliver(a) ==
    /\ a \in approved \ delivered
    /\ delivered' = delivered \cup {a}
    /\ UNCHANGED approved

Next == \E a \in Applications : Approve(a) \/ Deliver(a)

Spec == Init /\ [][Next]_deliveryVars

\* Nothing has to be approved; what is approved has to be delivered.
FairSpec == Spec /\ \A a \in Applications : WF_deliveryVars(Deliver(a))
=============================================================================
