----------------------------- MODULE MCGateway -----------------------------
(* Model-checking instance of the gateway: two producers, one, or none.    *)
EXTENDS Gateway

CONSTANTS a, b

TwoOneOrNone == {<<a, b>>, <<b>>, <<>>}

=============================================================================
