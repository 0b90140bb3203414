---------------------------- MODULE MCBridgeSync ----------------------------
(* BridgeSync with one or two bridges, two rows and two contents.          *)
EXTENDS BridgeSync

CONSTANTS agent, once, k1, k2, x, y

OneBridge  == {agent}
TwoBridges == {agent, once}
TwoKeys    == {k1, k2}
TwoVals    == {x, y}

\* One more than can be in use: two rows, the state row and the bridges.
Ids == 1..(4 + Cardinality(Bridges))
=============================================================================
