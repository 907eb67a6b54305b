---------------------------- MODULE MCWsProvider ----------------------------
(* WsProvider on small instances; the .cfg files choose the bounds.        *)
EXTENDS WsProvider

CONSTANTS u1, u2

MCSubs == {u1, u2}

(* Two subscriptions of one type, and one that is resubscribed beside one  *)
(* that is not.                                                            *)
SameType  == [u \in MCSubs |-> "chain_newHead"]
WithAuthor == (u1 :> "chain_newHead") @@ (u2 :> "author_extrinsicUpdate")
OneSub    == (u1 :> "chain_newHead")
=============================================================================
