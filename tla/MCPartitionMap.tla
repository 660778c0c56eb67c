--------------------------- MODULE MCPartitionMap ---------------------------
(* Model-checking instance of the partition map on its own, and the check  *)
(* that counting units adds the counts of a slice up.                      *)
EXTENDS PartitionMap

Slices == BoundedSeq([Key : {"k"}, Count : Uint64, Partition : {0}], 3)

SumOfCounts(s) == FoldSeq(LAMBDA rec, sum : rec.Count + sum, 0, s)

ASSUME UnitsAddUp == \A s \in Slices : Cardinality(Units(s)) = SumOfCounts(s)

=============================================================================
