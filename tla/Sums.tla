---------------------------------- MODULE Sums ----------------------------------
(* sum() of Python, over whatever indices a function has. *)
EXTENDS Integers, Functions

Total(f) == FoldFunction(+, 0, f)
===============================================================================
