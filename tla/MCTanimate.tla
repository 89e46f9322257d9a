---------------------------- MODULE MCTanimate ----------------------------
(* Two messages, of one and of two places, and one key before Q. *)
EXTENDS Tanimate

Rooms == <<4, 4>>
=============================================================================
