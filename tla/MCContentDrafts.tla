-------------------------- MODULE MCContentDrafts --------------------------
(* ContentDrafts with two requests and a command-line call, for TLC.       *)
EXTENDS ContentDrafts

CONSTANT c1

OneCall == {c1}
=============================================================================
