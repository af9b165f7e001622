----------------------------- MODULE MCDelivery -----------------------------
(* Values of Delivery's constants that a configuration cannot write.       *)
EXTENDS Delivery, TLC

CONSTANTS a, b
MCDigests == {a, b}

\* b takes twice the space of a.
MCSize == (a :> 1) @@ (b :> 2)
=============================================================================
