---------------------------- MODULE MCScanWorker ----------------------------
(* ScanWorker with two threads and two dashboards, for TLC.                *)
EXTENDS ScanWorker, TLC

CONSTANTS t1, t2, web, bridge, run1, run2, catch1

TwoThreads == {t1, t2}
BothDesks  == {web, bridge}
TwoRuns    == {run1, run2}
OneRun     == {run1}
OneCatchUp == {catch1}
=============================================================================
