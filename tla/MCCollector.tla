----------------------------- MODULE MCCollector -----------------------------
(* Collector with two sources and one story, for TLC.                      *)
EXTENDS Collector

CONSTANTS a1, a2, i1, i2, x, y, t1

FirstSource == {1}
TwoArticles == {a1, a2}
TwoIds      == {i1, i2}
TwoTexts    == {x, y}
OneStory    == {t1}
SameStory   == [a \in TwoArticles |-> t1]

\* An outage in a scan, a failure of one kind or another, a death, an owner.
Bounds == [edit |-> 1, toggle |-> 1, outage |-> 2, fault |-> 1, death |-> 2]

\* At first one source publishes both articles, and the other both or none.
Full == [a \in Articles |-> [id |-> i1, text |-> x]]
ScanInit == Init /\ feed[1] = Full /\ feed[2] \in {Full, Blank}
ScanSpec == ScanInit /\ [][Next]_vars /\ Fairness
=============================================================================
