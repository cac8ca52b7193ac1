--------------------------------- MODULE Data ---------------------------------
(***************************************************************************)
(* Bytes, bits and pieces of sequences, for the modules that compute on    *)
(* them.                                                                   *)
(***************************************************************************)
EXTENDS Integers, Sequences

PERCENT == 37  \* the character %

Lesser(a, b) == IF a < b THEN a ELSE b

Take(s, n) == SubSeq(s, 1, Lesser(n, Len(s)))
Drop(s, n) == SubSeq(s, n + 1, Len(s))

(* The bits of a number, the highest first, and back.                      *)
Bits(value, count) == [i \in 1..count |-> (value \div 2^(count - i)) % 2]

ValueOf(bits) ==
  LET value[n \in 0..Len(bits)] == IF n = 0 THEN 0 ELSE 2 * value[n - 1] + bits[n]
  IN  value[Len(bits)]
===============================================================================
