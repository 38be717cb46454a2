-------------------------------- MODULE Word --------------------------------
(***************************************************************************)
(* uint32_t, the unsigned words in which the player keeps sizes, bit rates *)
(* and segment numbers.  A result that does not fit wraps around.          *)
(***************************************************************************)
EXTENDS Integers

CONSTANT WordModulus  \* 2^32

Uint(n) == n % WordModulus
=============================================================================
