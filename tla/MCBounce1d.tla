------------------------------ MODULE MCBounce1d ------------------------------
(* bounce1d starts at 200 ms, hello5 at its argument: off, low and higher.    *)
EXTENDS Bounce1d

StartDelays == [bounce1d |-> {200}, hello5 |-> {0, 30, 120}]
=============================================================================
