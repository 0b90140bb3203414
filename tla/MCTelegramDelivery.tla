------------------------- MODULE MCTelegramDelivery -------------------------
(* TelegramDelivery with two events, two topics and two groups.             *)
EXTENDS TelegramDelivery

CONSTANTS team, forum

Groups == {team, forum}
Second == {2}
=============================================================================
