---------------------------- MODULE ScalingLemmas ----------------------------
(***************************************************************************)
(* What the operators of Scaling compute, for every section and every      *)
(* partition count.                                                        *)
(***************************************************************************)
EXTENDS Scaling, TLAPS

USE DEF Positive

\* What math.Ceil of a quotient of positive integers is: the least number of
\* workers that serves all partitions.
LEMMA CeilDivIsLeast ==
    ASSUME NEW p \in Positive, NEW r \in Positive
    PROVE  /\ CeilDiv(p, r) \in Positive
           /\ r * CeilDiv(p, r) >= p
           /\ r * (CeilDiv(p, r) - 1) < p
<1> DEFINE q == CeilDiv(p, r)
           m == (p + r - 1) % r
<1>1. /\ q \in Int /\ m \in 0 .. r - 1
      /\ p + r - 1 = r * q + m
  BY DEF CeilDiv
<1>2. r * (q - 1) = r * q - r
  BY <1>1
<1>3. r * q >= p /\ r * (q - 1) < p
  BY <1>1, <1>2
<1>4. q > 0
  <2>1. SUFFICES ASSUME q <= 0 PROVE FALSE
    BY <1>1
  <2>2. r * q <= 0
    BY <2>1, <1>1
  <2> QED
    BY <2>2, <1>1, <1>3
<1> QED
  BY <1>1, <1>3, <1>4

\* Replicas are the partition count clamped to [min, max], min winning.
LEMMA KafkaResult ==
    ASSUME NEW p \in Positive, NEW hi \in Positive, NEW lo \in Positive
    PROVE  LET d == CalculateKafka(p, hi, lo)
           IN /\ d = [replicas |-> d.replicas, workers |-> d.workers]
              /\ d.replicas \in Positive /\ d.workers \in Positive
              /\ d.replicas >= lo
              /\ d.replicas > lo => d.replicas <= hi /\ d.replicas <= p
              /\ d.replicas < p => d.replicas >= hi
              /\ d.replicas * d.workers >= p
              /\ d.replicas * (d.workers - 1) < p
<1> DEFINE r == MaxOf(MinOf(p, hi), lo)
           w == CeilDiv(p, r)
<1>1. /\ r \in Positive /\ r >= lo
      /\ r > lo => r <= hi /\ r <= p
      /\ r < p => r >= hi
  BY DEF MaxOf, MinOf
<1>2. w \in Positive /\ r * w >= p /\ r * (w - 1) < p
  BY <1>1, CeilDivIsLeast
<1>3. CalculateKafka(p, hi, lo) = [replicas |-> r, workers |-> w]
  <2>1. MaxOf(w, 1) = w
    BY <1>2 DEF MaxOf
  <2> QED
    BY <2>1 DEF CalculateKafka
<1> HIDE DEF r, w
<1> QED
  BY <1>1, <1>2, <1>3

\* Both bounds are positive whatever a section leaves out.
LEMMA BoundsPositive ==
    ASSUME NEW s \in ScalingSpec \cup {None}
    PROVE  scalingBounds(s).min \in Positive /\ scalingBounds(s).max \in Positive
<1>1. CASE s = None
  BY <1>1 DEF scalingBounds, DefaultMinReplicas, DefaultMaxReplicas
<1>2. CASE s \in ScalingSpec
  <2>1. s.min \in Positive \cup {None} /\ s.max \in Positive \cup {None}
    BY <1>2 DEF ScalingSpec
  <2> QED
    BY <2>1 DEF scalingBounds, DefaultMinReplicas, DefaultMaxReplicas
<1> QED
  BY <1>1, <1>2

\* On the Kafka branch an accepted decision is CalculateKafka's.
LEMMA KafkaDecision ==
    ASSUME NEW s \in ScalingSpec \cup {None}, NEW sources, NEW p \in Nat \cup {None},
           AsksKafka(s, sources), calculateScaling(s, sources, p).ok
    PROVE  LET b == scalingBounds(s)
               d == CalculateKafka(p, b.max, b.min)
           IN /\ p \in Positive
              /\ calculateScaling(s, sources, p) = Decision(d, FALSE)
<1> DEFINE b == scalingBounds(s)
           d == CalculateKafka(p, b.max, b.min)
<1>1. calculateScaling(s, sources, p) = calculateKafkaScaling(p, b)
  BY DEF calculateScaling, AsksKafka
<1>2. p # None /\ d # None /\ calculateKafkaScaling(p, b) = Decision(d, FALSE)
  <2>1. ~ Fallback.ok
    BY DEF Fallback
  <2>2. calculateKafkaScaling(p, b) # Fallback
    BY <1>1, <2>1, Zenon
  <2> QED
    BY <2>2, Zenon DEF calculateKafkaScaling
<1>3. p \in Positive
  BY <1>2, NoneIsNoNumber DEF CalculateKafka
<1> QED
  BY <1>1, <1>2, <1>3
=============================================================================
