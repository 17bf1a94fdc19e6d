------------------------------- MODULE Numbers -------------------------------
(***************************************************************************)
(* Integers as the code breaks them into bytes and puts them together      *)
(* again (utils.h, memory.cpp, core.cpp).  A byte has Base values.         *)
(***************************************************************************)
EXTENDS Integers, Sequences

CONSTANT Base   \* 256 in the code

ASSUME BaseAssumption == Base \in Nat \ {0} /\ Base % 2 = 0

\* Base to the power n; one byte of shift is a factor of Base.
Pow[n \in Nat] == IF n = 0 THEN 1 ELSE Base * Pow[n - 1]

\* (n >> 8 * k) & 0xFF: the byte above the k lowest ones.
ByteOf(n, k) == (n \div Pow[k]) % Base

\* The number whose bytes are given from the most significant one on.
NumberOf(bytes) ==
    LET val[k \in 0 .. Len(bytes)] == IF k = 0 THEN 0 ELSE val[k - 1] * Base + bytes[k]
    IN  val[Len(bytes)]
=============================================================================
