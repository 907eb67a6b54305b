--------------------------- MODULE MCKeyringPair ----------------------------
(* KeyringPair on small instances; the .cfg files choose the bounds.       *)
EXTENDS KeyringPair, TLC

CONSTANTS own, other, p1, p2, c1, c2, c3

(* What other pairs encoded: another key, and the seed of one with a public *)
(* half beside it that is not its own.                                      *)
OthersEncoded == {[sec |-> other, pub |-> other, seed |-> FALSE, pass |-> p2],
                  [sec |-> other, pub |-> own, seed |-> TRUE, pass |-> p2]}
=============================================================================
