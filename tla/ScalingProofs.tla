---------------------------- MODULE ScalingProofs ----------------------------
(***************************************************************************)
(* The scaling properties for every set of replica and partition counts.   *)
(***************************************************************************)
EXTENDS ScalingDecision, ScalingLemmas

LEMMA AdmittedTyped == Admitted \subseteq ScalingSpec \cup {None}
  BY ReplicasPositive DEF Admitted, Sections, ScalingSpec

-----------------------------------------------------------------------------
\* The inductive invariant: a decision is the one calculateScaling takes on the
\* inputs as they are.
DecisionCurrent ==
    /\ scaling \in ScalingSpec \cup {None}
    /\ topic \in Nat \cup {None}
    /\ decision # None => decision = calculateScaling(scaling, sources, topic)

LEMMA DecisionIsCurrent == Spec => []DecisionCurrent
<1>1. Init => DecisionCurrent
  BY PartitionsNatural, AdmittedTyped DEF Init, DecisionCurrent
<1>2. DecisionCurrent /\ [Next]_svars => DecisionCurrent'
  <2> SUFFICES ASSUME DecisionCurrent, [Next]_svars PROVE DecisionCurrent'
    OBVIOUS
  <2>1. CASE EditScaling
    BY <2>1, AdmittedTyped DEF DecisionCurrent, EditScaling
  <2>2. CASE EditSources
    BY <2>2 DEF DecisionCurrent, EditSources
  <2>3. CASE ChangeTopic
    BY <2>3, PartitionsNatural DEF DecisionCurrent, ChangeTopic
  <2>4. CASE Reconcile
    BY <2>4 DEF DecisionCurrent, Reconcile
  <2>5. CASE UNCHANGED svars
    BY <2>5 DEF DecisionCurrent, svars
  <2> QED
    BY <2>1, <2>2, <2>3, <2>4, <2>5 DEF Next
<1> QED
  BY <1>1, <1>2, PTL DEF Spec

\* An accepted answer of calculateKafkaScaling in terms of the partition count
\* and the section's bounds.
LEMMA DecidedByKafka ==
    ASSUME DecisionCurrent, FromKafka
    PROVE  LET b == scalingBounds(scaling)
           IN /\ topic \in Positive
              /\ decision.replicas \in Positive /\ decision.workers \in Positive
              /\ decision.replicas >= b.min
              /\ decision.replicas > b.min
                    => decision.replicas <= b.max /\ decision.replicas <= topic
              /\ decision.replicas < topic => decision.replicas >= b.max
              /\ decision.replicas * decision.workers >= topic
              /\ decision.replicas * (decision.workers - 1) < topic
<1> DEFINE b == scalingBounds(scaling)
           d == CalculateKafka(topic, b.max, b.min)
<1>1. /\ scaling \in ScalingSpec \cup {None} /\ topic \in Nat \cup {None}
      /\ decision = calculateScaling(scaling, sources, topic)
      /\ decision.ok /\ AsksKafka(scaling, sources)
  BY DEF DecisionCurrent, FromKafka
<1>2. topic \in Positive /\ decision = Decision(d, FALSE)
  BY <1>1, KafkaDecision, Zenon
<1>3. decision.replicas = d.replicas /\ decision.workers = d.workers
  BY <1>2 DEF Decision
<1>4. b.min \in Positive /\ b.max \in Positive
  BY <1>1, BoundsPositive
<1>5. /\ d.replicas \in Positive /\ d.workers \in Positive
      /\ d.replicas >= b.min
      /\ d.replicas > b.min => d.replicas <= b.max /\ d.replicas <= topic
      /\ d.replicas < topic => d.replicas >= b.max
      /\ d.replicas * d.workers >= topic
      /\ d.replicas * (d.workers - 1) < topic
  BY <1>2, <1>4, KafkaResult, Zenon
<1> QED
  BY <1>2, <1>3, <1>5, Zenon

(***************************************************************************)
(* calculateKafkaScaling serves every partition with the least workers, on *)
(* every set of replica and partition counts.                              *)
(***************************************************************************)
THEOREM PartitionsServed == Spec => []EveryPartitionConsumed
<1>1. DecisionCurrent => EveryPartitionConsumed
  <2> SUFFICES ASSUME DecisionCurrent, FromKafka
               PROVE  /\ decision.replicas * decision.workers >= topic
                      /\ decision.replicas * (decision.workers - 1) < topic
    BY DEF EveryPartitionConsumed
  <2> QED
    BY DecidedByKafka
<1> QED
  BY <1>1, DecisionIsCurrent, PTL

(***************************************************************************)
(* Replicas respect minReplicas, maxReplicas and the partition count.      *)
(***************************************************************************)
THEOREM ReplicasBounded == Spec => []ReplicasWithinBounds
<1>1. DecisionCurrent => ReplicasWithinBounds
  <2> SUFFICES ASSUME DecisionCurrent, FromKafka
               PROVE  ReplicasWithinBounds
    BY DEF ReplicasWithinBounds
  <2> QED
    BY DecidedByKafka, BoundsPositive DEF DecisionCurrent, ReplicasWithinBounds
<1> QED
  BY <1>1, DecisionIsCurrent, PTL
=============================================================================
