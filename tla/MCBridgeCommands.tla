-------------------------- MODULE MCBridgeCommands --------------------------
(* BridgeCommands with one bridge and two commands, for TLC.               *)
EXTENDS BridgeCommands

CONSTANTS agent, ok, error

OneBridge   == {agent}
TwoCommands == 1..2
OkOrError   == {ok, error}
Errors      == {error}
=============================================================================
