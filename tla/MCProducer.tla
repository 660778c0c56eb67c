----------------------------- MODULE MCProducer -----------------------------
(* Model-checking instance of the producer.                                *)
EXTENDS Producer, TLC

HashToFirst == [k \in Key |-> 0]

\* Nothing tells keys apart that hash alike.
Symmetry == Permutations(Key)

=============================================================================
