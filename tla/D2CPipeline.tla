----------------------------- MODULE D2CPipeline -----------------------------
(***************************************************************************)
(* The whole D2C path: ApprovalAPI writes the tables OutboxPublisher reads, *)
(* and OutboxPublisher writes the topic D2CEventConsumer reads.  The three *)
(* share only "outbox" (the table d2c_outbox_events) and "topic"; a step   *)
(* of the system is a step of one of them.                                 *)
(***************************************************************************)
EXTENDS Integers, Sequences, FiniteSets

CONSTANTS Requests, Keys, Pairs, Pods, DrillPods,   \* see ApprovalAPI
          Publishers, BatchSize, MaxFaults,         \* see OutboxPublisher
          MaxPoll, MaxCrashes                       \* see D2CEventConsumer

ASSUME PathAssumption ==
    /\ Requests \subseteq Nat \ {0}
    /\ DrillPods \subseteq Pods
    /\ {BatchSize, MaxPoll} \subseteq Nat \ {0}
    /\ {MaxFaults, MaxCrashes} \subseteq Nat

VARIABLES applications, outbox, request, pc, writes, answer,
          published, failing, topic, phase, session, batch, todo, marks, errs,
          pending, faults,
          committed, cursor, limit, stage, store, dlq, crashes

API == INSTANCE ApprovalAPI

Publisher == INSTANCE OutboxPublisher WITH Events <- Requests, Refused <- {}

\* The publisher's payloads all satisfy the contract, each has its own
\* event_id, and no other producer writes to the topic here.
Consumer == INSTANCE D2CEventConsumer
              WITH Valid <- Requests, Malformed <- {}, Poison <- {}, Undecodable <- {}, MaxFetch <- MaxPoll,
                   EventId <- [r \in Requests |-> r],
                   MaxTopic <- Cardinality(Requests) * (MaxFaults + 1)

\* The variables no other component touches.
apiOnly == <<applications, request, pc, writes, answer>>
publisherOnly == <<published, failing, phase, session, batch, todo, marks, errs,
                   pending, faults>>
consumerOnly == <<committed, cursor, limit, stage, store, dlq, crashes>>
vars == <<apiOnly, outbox, publisherOnly, topic, consumerOnly>>

Init == API!Init /\ Publisher!Init /\ Consumer!Init

\* A transaction that commits a row makes it visible to the publishers.
ApiStep == API!Next /\ UNCHANGED <<publisherOnly, topic, consumerOnly>>

PublisherStep ==
    /\ \E p \in Publishers : Publisher!PublisherNext(p)
    /\ UNCHANGED <<apiOnly, consumerOnly>>

ConsumerStep == Consumer!ConsumerNext /\ UNCHANGED <<apiOnly, outbox, publisherOnly>>

Next == ApiStep \/ PublisherStep \/ ConsumerStep

Spec == Init /\ [][Next]_vars

FairSpec ==
    /\ Spec
    /\ \A p \in Publishers : Publisher!PublisherFairness(p)
    /\ Consumer!ConsumerFairness

(***************************************************************************)
(* Safety across the components                                            *)
(***************************************************************************)
\* Nothing is announced or stored that was not approved: a message, and a row
\* of the operational store, stands for a committed application.
OnlyApprovedTravels ==
    /\ \A i \in DOMAIN topic : \E a \in applications : a.id = topic[i]
    /\ \A e \in store : \E a \in applications : a.id = e

\* A client that was told "approved" or "duplicate" has an event that travels:
\* its outbox row stays unpublished until the topic holds the message.
AnsweredIsOnItsWay ==
    \A r \in Requests :
        answer[r].code \in {"approved", "duplicate"} =>
            answer[r].id \in (outbox \ published) \cup Publisher!Delivered

(***************************************************************************)
(* Refinement                                                              *)
(***************************************************************************)
Delivery == INSTANCE ApprovalDelivery
              WITH Applications <- API!Row,
                   Excludes <- API!Collide,
                   approved <- applications,
                   delivered <- {a \in applications : a.id \in store}

\* The pipeline keeps the promise of ApprovalDelivery: approvals are atomic
\* and exclusive, and each is delivered once.
ImplementsDelivery == Delivery!Spec

\* With Kafka acknowledging again and again and the processes restarted, every
\* approved application reaches the operational store.
ImplementsFairDelivery == Delivery!FairSpec
=============================================================================
