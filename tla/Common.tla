------------------------------- MODULE Common -------------------------------
(* What the modules of the parts share. *)
EXTENDS Integers

CONSTANT None    \* undefined, null, or no entry

LeastOf(a, b) == IF a <= b THEN a ELSE b
Down(n) == IF n > 0 THEN n - 1 ELSE 0
Up(n, most) == LeastOf(n + 1, most)
=============================================================================
