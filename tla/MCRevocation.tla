---------------------------- MODULE MCRevocation ----------------------------
(* Revocation on small instances. In the safety runs two handlers, the      *)
(* refresher and main give every interleaving of two late writers with a    *)
(* third; the handlers are interchangeable.                                 *)
EXTENDS Revocation, TLC

Handlers == Permutations(Requests)
=============================================================================
