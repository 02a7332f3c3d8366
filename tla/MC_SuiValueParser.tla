------------------------- MODULE MC_SuiValueParser -------------------------
(* Scaled widths: bytes of 4 values, 2-byte addresses (u256::MAX = 15),   *)
(* u64::MAX = 3.  The literals cover zero, both maxima and one past each, *)
(* and 1, whose little-endian bytes are not a palindrome.                 *)
EXTENDS SuiValueParser

MC_ByteBase  == 4
MC_AddrBytes == 2
MC_U64Max    == 3
MC_Nums      == {0, 1, 3, 4, 15, 16}
MC_Names     == {"pkg"}
=============================================================================
