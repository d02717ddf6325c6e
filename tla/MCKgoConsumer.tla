---------------------------- MODULE MCKgoConsumer ----------------------------
EXTENDS KgoConsumerInv, TLC

\* Clients differ in nothing but their names, partitions neither.
ConsumerSymmetry == Permutations(Consumers)
PartitionSymmetry == Permutations(Partitions)
ClientSymmetry == ConsumerSymmetry \cup PartitionSymmetry

\* Compaction removed the record at offset 1 of each partition.
GapAtOne == Partitions \X {1}

\* It removed the record at offset 2 of one partition, and all before offset 3 of the
\* others.
GapsApart ==
    LET gapped == CHOOSE p \in Partitions : TRUE
    IN  {<<gapped, 2>>} \cup ((Partitions \ {gapped}) \X (0 .. 2))
=============================================================================
