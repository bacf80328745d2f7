----------------------------- MODULE MCTestFork -----------------------------
(* TestFork on two tests at a time, of an image that boots and one that    *)
(* does not.  One second: every name that can clash does.                  *)
EXTENDS TestFork, TLC

(* Tests differ in name only. *)
Interchangeable == Permutations(Tests)
=============================================================================
