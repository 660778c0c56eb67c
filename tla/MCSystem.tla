------------------------------ MODULE MCSystem ------------------------------
(* Model-checking instance of the system: two producers, one, or none.     *)
EXTENDS System

CONSTANTS a, b

TwoOneOrNone == {<<a, b>>, <<b>>, <<>>}

\* Nothing tells keys apart.
Symmetry == Permutations(Key)

=============================================================================
