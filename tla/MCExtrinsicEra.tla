--------------------------- MODULE MCExtrinsicEra ---------------------------
(* Blocks and periods on both sides of every power of two where the code   *)
(* changes its mind: the least period (4), the last one whose phase is kept *)
(* whole (4096), the longest (65536); every exponent and the phases at the  *)
(* ends and in the middle of its range among the bytes of others.           *)
EXTENDS ExtrinsicEra

MCHeights == {0, 1, 3, 4, 5, 7, 8, 11, 63, 64, 4095, 4096, 4097, 8191, 8192, 8205,
              65535, 65536, 65543, 131071, 131072, 196620, 2251519}
MCPeriods == {1, 3, 4, 5, 64, 100, 4096, 4097, 8192, 50000, 65536, 100000}
MCOthers  == {n + 16 * k : n \in 0 .. 15, k \in {0, 3, 15}} \X {0, 1, 31, 156, 255}
=============================================================================
