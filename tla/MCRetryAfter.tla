---------------------------- MODULE MCRetryAfter ----------------------------
(* The limiter and what it promises on a small instance, where a second is  *)
(* as long as a token takes, so that a wait is often rounded to what is too *)
(* short. Users and requests are interchangeable.                           *)
EXTENDS RetryAfter, TLC

Interchangeable == Permutations(Users) \cup Permutations(Requests)
=============================================================================
