--------------------------- MODULE ScalingDecision ---------------------------
(***************************************************************************)
(* The scaling section of a pipeline as users edit it past the admission   *)
(* webhook, a Kafka topic whose partition count changes, and the decision  *)
(* a reconcile takes on them.                                              *)
(***************************************************************************)
EXTENDS Scaling

CONSTANTS
    Replicas,     \* values a user may give to minReplicas, maxReplicas, fixedReplicas
    Partitions    \* partition counts of the topic, 0 included when its metadata is empty

\* The CRD schema: every replica field is at least 1.
ASSUME ReplicasPositive == Replicas \subseteq Positive
ASSUME PartitionsNatural == Partitions \subseteq Nat

VARIABLES
    scaling,      \* the scaling section or None
    sources,      \* kinds of source of the pipeline definitions
    topic,        \* partition count, None while Kafka cannot be asked
    decision      \* what the reconcile after the last change decided, None before it

svars == <<scaling, sources, topic, decision>>

Sections ==
    [mode : {"auto", "manual"}, fixed : Replicas \cup {None},
     min : Replicas \cup {None}, max : Replicas \cup {None}]

Admitted == {s \in Sections \cup {None} : validateScaling(s)}

SourceSets == {{"kafka"}, {"s3"}, {"http"}, {"kafka", "http"}}

Init ==
    /\ scaling \in Admitted
    /\ sources \in SourceSets
    /\ topic \in Partitions \cup {None}
    /\ decision = None

EditScaling ==
    scaling' \in Admitted /\ decision' = None /\ UNCHANGED <<sources, topic>>

EditSources ==
    sources' \in SourceSets /\ decision' = None /\ UNCHANGED <<scaling, topic>>

ChangeTopic ==
    topic' \in Partitions \cup {None} /\ decision' = None /\ UNCHANGED <<scaling, sources>>

Reconcile ==
    /\ decision' = calculateScaling(scaling, sources, topic)
    /\ UNCHANGED <<scaling, sources, topic>>

Next == EditScaling \/ EditSources \/ ChangeTopic \/ Reconcile

Spec == Init /\ [][Next]_svars

-----------------------------------------------------------------------------
FromKafka == decision # None /\ decision.ok /\ AsksKafka(scaling, sources)

(***************************************************************************)
(* calculateKafkaScaling gives every partition a consumer thread and no    *)
(* pod a thread it can do without: one worker less per pod would leave a   *)
(* partition unread.                                                       *)
(***************************************************************************)
EveryPartitionConsumed ==
    FromKafka => /\ decision.replicas * decision.workers >= topic
                 /\ decision.replicas * (decision.workers - 1) < topic

(***************************************************************************)
(* Replicas stay at or above minReplicas, exceed maxReplicas or the number *)
(* of partitions only where minReplicas asks for it, and are fewer than    *)
(* the partitions only where maxReplicas forbids more.                     *)
(***************************************************************************)
ReplicasWithinBounds ==
    FromKafka => LET r == decision.replicas
                     b == scalingBounds(scaling)
                 IN /\ r >= b.min
                    /\ r > b.min => r <= b.max /\ r <= topic
                    /\ r < topic => r >= b.max
=============================================================================
