------------------------------ MODULE MCBuffer -------------------------------
(* A buffer of four bytes, each of two values.                              *)
EXTENDS Buffer
MCBytes == {0, 1}
==============================================================================
