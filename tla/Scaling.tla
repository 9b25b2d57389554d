------------------------------- MODULE Scaling -------------------------------
(***************************************************************************)
(* How many replicas and Kafka consumer threads a pipeline gets: package   *)
(* internal/scaler, calculateScaling of the pipeline controller, and the   *)
(* budget and autoscaler objects whose numbers follow from it.             *)
(*                                                                         *)
(* A scaling section is a record [mode, fixed, min, max]; None stands for  *)
(* a nil pointer.  The CRD schema forces fixed, min and max to be >= 1     *)
(* when they are set.                                                      *)
(***************************************************************************)
EXTENDS Integers

CONSTANT None

ASSUME NoneIsNoNumber == None \notin Nat

Positive == Nat \ {0}

ScalingSpec ==
    [mode : {"auto", "manual"}, fixed : Positive \cup {None},
     min : Positive \cup {None}, max : Positive \cup {None}]

MinOf(a, b) == IF a <= b THEN a ELSE b
MaxOf(a, b) == IF a >= b THEN a ELSE b

\* Mutant: the quotient is rounded down.
FloorDiv(p, r) == p \div r

\* math.Ceil(float64(p) / float64(r)): exact, int32 operands fit a float64.
CeilDiv(p, r) == (p + r - 1) \div r

\* The admission webhook's validateScaling.
validateScaling(scaling) ==
    scaling # None =>
        /\ scaling.mode = "manual" /\ scaling.fixed # None => scaling.fixed >= 1
        /\ scaling.max # None /\ scaling.min # None => scaling.max >= scaling.min

\* The bounds a section gives when one of them is left out.
DefaultMinReplicas == 1
DefaultMaxReplicas == 10

scalingBounds(scaling) ==
    [min |-> IF scaling # None /\ scaling.min # None THEN scaling.min
                                                     ELSE DefaultMinReplicas,
     max |-> IF scaling # None /\ scaling.max # None THEN scaling.max
                                                     ELSE DefaultMaxReplicas]

CalculateStatic(fixed) == [replicas |-> MaxOf(fixed, 1), workers |-> 0]

\* Mutant: the clamps in the other order.
CalculateKafkaMaxLast(partitions, maxReplicas, minReplicas) ==
    IF partitions <= 0
    THEN None
    ELSE LET replicas == MinOf(MaxOf(partitions, minReplicas), maxReplicas)
         IN [replicas |-> replicas,
             workers  |-> MaxOf(CeilDiv(partitions, replicas), 1)]

\* None is the error "invalid partition count".
CalculateKafka(partitions, maxReplicas, minReplicas) ==
    IF partitions <= 0
    THEN None
    ELSE LET replicas == MaxOf(MinOf(partitions, maxReplicas), minReplicas)
         IN [replicas |-> replicas,
             workers  |-> MaxOf(CeilDiv(partitions, replicas), 1)]

\* "" and "manual" are the same branch of calculateScaling.
IsAuto(scaling) == scaling # None /\ scaling.mode = "auto"

\* The partition count is asked for only on this branch.
AsksKafka(scaling, sources) == IsAuto(scaling) /\ "kafka" \in sources

(***************************************************************************)
(* The decision of a reconcile.  partitions is what the Kafka admin client *)
(* answered, None when the answer was an error (credentials Secret         *)
(* missing, broker unreachable, topic unknown).  An error falls back to    *)
(* one replica, no workers and no autoscaler.                              *)
(***************************************************************************)
Fallback == [replicas |-> 1, workers |-> 0, hpa |-> FALSE, ok |-> FALSE]

Decision(result, hpa) ==
    [replicas |-> result.replicas, workers |-> result.workers,
     hpa |-> hpa, ok |-> TRUE]

calculateKafkaScaling(partitions, bounds) ==
    IF partitions = None \/ CalculateKafka(partitions, bounds.max, bounds.min) = None
    THEN Fallback
    ELSE Decision(CalculateKafka(partitions, bounds.max, bounds.min), FALSE)

calculateScaling(scaling, sources, partitions) ==
    LET bounds == scalingBounds(scaling)
    IN CASE ~ IsAuto(scaling) ->
              Decision(CalculateStatic(IF scaling # None /\ scaling.fixed # None
                                       THEN scaling.fixed ELSE 1), FALSE)
         [] AsksKafka(scaling, sources) ->
              calculateKafkaScaling(partitions, bounds)
         [] IsAuto(scaling) /\ "kafka" \notin sources /\ "s3" \in sources ->
              Decision(CalculateStatic(bounds.min), FALSE)
         [] OTHER ->
              Decision([replicas |-> bounds.min, workers |-> 0], TRUE)

\* PodDisruptionBudget.spec.minAvailable for a Deployment of that size.
GeneratePDB(replicas) == [minAvailable |-> MaxOf(1, replicas - 1)]

GenerateHPA(bounds) == [min |-> bounds.min, max |-> bounds.max]
=============================================================================
