---------------------------- MODULE MCPushOutbox ----------------------------
(* PushOutbox with one article and two devices, for TLC.                   *)
EXTENDS PushOutbox

CONSTANTS a1, d1, d2, k1, k2

OneArticle     == {a1}
OneDevice      == {d1}
TwoDevices     == {d1, d2}
OneDispatcher  == {k1}
TwoDispatchers == {k1, k2}

\* The devices were registered before, and the mode perhaps made active.
RegisteredSpec ==
  (\E eras \in SUBSET {1} : Start(eras, Devices)) /\ [][Next]_vars /\ Fairness

ActiveSpec == Start({1}, Devices) /\ [][Next]_vars
=============================================================================
