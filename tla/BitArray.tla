------------------------------- MODULE BitArray -------------------------------
(****************************************************************************)
(* bitarray.h: a message is an array of octets, numbered from 0; bit n is   *)
(* bit n % 8 of octet n / 8.                                                *)
(****************************************************************************)
EXTENDS Integers

bit_is_set(mess, n) == (mess[n \div 8] \div (2 ^ (n % 8))) % 2 = 1

\* Octet j of a message in which just these bits have been set.
Octet(bits, j) ==
    LET v(k) == IF 8 * j + k \in bits THEN 2 ^ k ELSE 0
    IN v(0) + v(1) + v(2) + v(3) + v(4) + v(5) + v(6) + v(7)

\* The exclusive or of the first seven octets: a bit is set where an odd number
\* of them have it.
Xor(m) ==
    LET v(k) == LET sum == (m[0] \div (2 ^ k)) + (m[1] \div (2 ^ k)) + (m[2] \div (2 ^ k))
                           + (m[3] \div (2 ^ k)) + (m[4] \div (2 ^ k)) + (m[5] \div (2 ^ k))
                           + (m[6] \div (2 ^ k))
                IN IF sum % 2 = 1 THEN 2 ^ k ELSE 0
    IN v(0) + v(1) + v(2) + v(3) + v(4) + v(5) + v(6) + v(7)
==============================================================================
