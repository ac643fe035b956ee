---------------------------- MODULE MCDecisionTxn ----------------------------
(* Two images similar to each other, or a chain, and three connections. *)
EXTENDS DecisionTxn, TLC

CONSTANTS i1, i2, i3, t1, t2, t3

MCPair        == {i1, i2}
MCPairSimilar == (i1 :> {i2}) @@ (i2 :> {i1})
MCTxns        == {t1, t2, t3}

=============================================================================
