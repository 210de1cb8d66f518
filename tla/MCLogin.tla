------------------------------ MODULE MCLogin -------------------------------
(* Login with a browser of two tabs, whose cookies they overwrite for each  *)
(* other, and a browser of one, which may open the callbacks of the first.  *)
EXTENDS Login, TLC

CONSTANTS b1, b2, t1, t2, t3

AllTabs == t1 :> b1 @@ t2 :> b1 @@ t3 :> b2

TwinTabs == Permutations({t1, t2})
=============================================================================
