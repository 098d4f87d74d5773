----------------------------- MODULE Positional -----------------------------
(***************************************************************************)
(* What a row of digits stands for, the highest first: the bits of a Redis *)
(* bitmap read as a number, and the decimal digits of a JavaScript number. *)
(***************************************************************************)
EXTENDS Integers, Sequences

Value(base, digits) ==
  LET upTo[i \in 0 .. Len(digits)] == IF i = 0 THEN 0 ELSE base * upTo[i - 1] + digits[i]
  IN  upTo[Len(digits)]
=============================================================================
