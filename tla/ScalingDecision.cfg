SPECIFICATION Spec
CONSTANTS
    None = None
    Replicas = {1, 3, 11}
    Partitions = {0, 1, 2, 5, 12}
INVARIANTS
    EveryPartitionConsumed
    ReplicasWithinBounds
