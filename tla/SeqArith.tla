------------------------------ MODULE SeqArith ------------------------------
(***************************************************************************)
(* Modular sequence numbers (crates/veil-onion-stream/src/seq.rs): byte     *)
(* offsets wrap, so they are compared by their signed difference.           *)
(***************************************************************************)
EXTENDS Integers

CONSTANT Modulus     \* 2^32 in the code

ASSUME SeqAssumption == Modulus \in Nat \ {0} /\ Modulus % 2 = 0

SeqNo == 0..(Modulus - 1)

\* Mutant: byte offsets do not wrap.
PlusUnbounded(a, n) == a + n
Plus(a, n) == (a + n) % Modulus           \* u32::wrapping_add
Minus(a, b) == (a - b) % Modulus          \* u32::wrapping_sub

Lt(a, b) == Minus(a, b) >= Modulus \div 2 \* the difference as i32 is negative
Leq(a, b) == a = b \/ Lt(a, b)
Gt(a, b) == Lt(b, a)
Geq(a, b) == Leq(b, a)
SeqMin(a, b) == IF Lt(a, b) THEN a ELSE b
SeqMax(a, b) == IF Lt(a, b) THEN b ELSE a
=============================================================================
