----------------------------- MODULE MCConsumer -----------------------------
(* Model-checking instance of the consumer group.                          *)
EXTENDS Consumer

CONSTANTS word

OneWord  == [k \in Key |-> <<word>>]
TwoWords == [k \in Key |-> <<word, word>>]

=============================================================================
